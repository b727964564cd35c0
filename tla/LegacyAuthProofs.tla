-------------------------- MODULE LegacyAuthProofs --------------------------
(***************************************************************************)
(* What the legacy handlers and caches promise, for any number of          *)
(* requests, accounts, tokens and servers and for every backend: types,    *)
(* what revocation leaves, joins answered once, and that a token is found  *)
(* in one stretch of time (LegacyAuth implements TokenPromise).            *)
(***************************************************************************)
EXTENDS LegacyAuth, TLAPS, FiniteSetTheorems

-----------------------------------------------------------------------------
(* The inductive invariant: what a request knows at each of its steps, and *)
(* what the history says of the cache.                                     *)

\* Of a request: the token it issues, deletes or signs out has been issued or handed out.
Knows(t) ==
  /\ pc[t] \in {"store", "sadd"} => loc[t].next \in Tokens /\ claims[loc[t].next] # None
  /\ pc[t] = "sadd" => loc[t].next \in stored
  /\ pc[t] \in {"delete", "srem", "del"} => loc[t].token \in given
  /\ pc[t] \in {"purge", "smembers", "purgeOne"} =>
       /\ loc[t].user \in Users
       /\ \A k \in loc[t].before : k \in given /\ claims[k].owner = loc[t].user
  /\ pc[t] = "answer" => loc[t].server \in Servers /\ loc[t].join \in joined

\* Redis commands are sent to Redis only.
Commands(t) ==
  /\ pc[t] \in {"sadd", "srem", "del", "smembers", "purgeOne"} => backend = "redis"
  /\ pc[t] \in {"delete", "purge"} => backend # "redis"

\* What the history says of the cache.
HistoryOK ==
  /\ given \subseteq stored
  /\ deleted \subseteq stored
  /\ signedOut \subseteq stored
  /\ \A k \in stored : claims[k] # None
  /\ \A k \in Tokens : Held(k) => k \in stored

KnownOK ==
  /\ \A t \in Threads : Knows(t) /\ Commands(t)
  /\ cleaner.at # "idle" => cleaner.user \in Users /\ backend = "redis"
  /\ HistoryOK

\* A join is stored under one server id, and a request about to answer for it deletes that one.
JoinsOK ==
  /\ answered \subseteq joined
  /\ \A s \in Servers : sessions[s] # None => sessions[s].join \in joined
  /\ \A a, b \in Servers :
       sessions[a] # None /\ sessions[b] # None /\ sessions[a].join = sessions[b].join => a = b
  /\ \A t \in Threads, s \in Servers :
       pc[t] = "answer" /\ sessions[s] # None /\ sessions[s].join = loc[t].join => s = loc[t].server
  /\ AnsweredIsGone

\* A request stores a token that was never stored, and no other request stores it.
FreshOK ==
  /\ \A t \in Threads : pc[t] = "store" => loc[t].next \notin stored
  /\ \A t, r \in Threads : pc[t] = "store" /\ pc[r] = "store" /\ loc[t].next = loc[r].next => t = r

\* What a deletion, a listed id and a finished or running Signout leave in the cache.
RevokedOK ==
  /\ \A k \in deleted : Held(k) => backend = "memory"
  /\ \A k \in given : Held(k) /\ backend = "redis" => k \in index[claims[k].owner] \cup dropped
  /\ \A t \in Threads : \A k \in loc[t].before :
       pc[t] = "purgeOne" /\ Held(k) => k \in loc[t].ids \cup spared \cup dropped
  /\ \A k \in signedOut : Held(k) => backend \in {"memory", "file"} \/ k \in spared \cup dropped

Inv == TypeOK /\ KnownOK /\ JoinsOK /\ FreshOK /\ RevokedOK

-----------------------------------------------------------------------------
(* Types.                                                                  *)

\* The variables of a request that does nothing.
LEMMA IdleTyped == Idle \in Local /\ Idle.want = None
BY DEF Idle, Local

\* Authenticate selects a profile, or none.
LEMMA SelectedTyped ==
  ASSUME NEW u \in Users, NEW login \in ProfilesOf(u) \cup {None}
  PROVE  Selected(u, login) \in Profiles \cup {None}
<1>1. CASE login # None
  BY <1>1 DEF Selected, ProfilesOf
<1>2. CASE login = None /\ Cardinality(ProfilesOf(u)) = 1
  <2>1. ProfilesOf(u) # {}
    BY <1>2, FS_EmptySet
  <2> QED
    BY <1>2, <2>1 DEF Selected, ProfilesOf
<1>3. CASE login = None /\ Cardinality(ProfilesOf(u)) # 1
  BY <1>3 DEF Selected
<1> QED
  BY <1>1, <1>2, <1>3

\* A failing operation takes one from a budget, and keeps its other parts.
LEMMA FaultTyped ==
  ASSUME TypeOK, Fault \/ NoFault
  PROVE  budget' \in [tokens : SUBSET Tokens, joins : SUBSET Joins, faults : Nat, crashes : Nat]
BY DEF TypeOK, Fault, NoFault

\* What follows Delete in Refresh and Invalidate keeps the types.
LEMMA AfterDeleteTyped ==
  ASSUME TypeOK, KnownOK, NEW t \in Threads, AfterDelete(t), loc[t].token \in given
  PROVE  claims' \in [Tokens -> Claims \cup {None}] /\ loc' \in [Threads -> Local]
         /\ pc' \in [Threads -> Step]
<1> DEFINE k == loc[t].token
           want == loc[t].want
<1>1. k \in Tokens /\ claims[k] \in Claims
  BY DEF TypeOK, KnownOK, HistoryOK
<1>2. CASE want = None /\ Return(t) /\ UNCHANGED claims
  BY <1>2, IdleTyped DEF TypeOK, Return, Step
<1>3. ASSUME NEW new \in Tokens, want # None,
             Mint(t, new, [claims[k] EXCEPT !.profile = IF want = "same" THEN claims[k].profile ELSE want]),
             loc' = [loc EXCEPT ![t] = [Idle EXCEPT !.next = new]]
      PROVE  claims' \in [Tokens -> Claims \cup {None}] /\ loc' \in [Threads -> Local]
             /\ pc' \in [Threads -> Step]
  <2>1. want \in Profiles \cup {"same"}
    BY <1>3 DEF TypeOK, Local
  <2>2. [claims[k] EXCEPT !.profile = IF want = "same" THEN claims[k].profile ELSE want] \in Claims
    BY <1>1, <2>1 DEF Claims
  <2>3. [Idle EXCEPT !.next = new] \in Local
    BY IdleTyped DEF Local
  <2> QED
    BY <1>3, <2>2, <2>3 DEF TypeOK, Mint, Step
<1>4. CASE want \in Profiles /\ Return(t) /\ UNCHANGED claims
  BY <1>4, IdleTyped DEF TypeOK, Return, Step
<1>5. budget.tokens \subseteq Tokens
  BY DEF TypeOK
<1> QED
  BY <1>2, <1>3, <1>4, <1>5 DEF AfterDelete

\* The types hold at the start.
LEMMA InitTyped == Init => TypeOK
<1> SUFFICES ASSUME Init PROVE TypeOK
  OBVIOUS
<1>1. CleanIdle \in [at : {"idle", "exists", "drop"}, user : Users \cup {None}, ids : SUBSET Tokens]
  BY DEF CleanIdle
<1>2. PICK s \in Settings : backend = s[1] /\ budget = s[2]
  BY DEF Init
<1>3. backend \in {"memory", "file", "redis", "database"}
      /\ budget \in [tokens : SUBSET Tokens, joins : SUBSET Joins, faults : Nat, crashes : Nat]
  BY <1>2, SettingsAssumption
<1> QED
  BY <1>1, <1>3, IdleTyped DEF Init, TypeOK, Step

\* The variables of a request after one, or two, were assigned.
LEMMA LocalSet ==
  ASSUME TypeOK, NEW t \in Threads
  PROVE  /\ \A k \in Tokens : [loc[t] EXCEPT !.next = k] \in Local
         /\ \A S \in SUBSET Tokens : [loc[t] EXCEPT !.ids = S] \in Local
         /\ \A u \in Users, S \in SUBSET Tokens :
              [loc[t] EXCEPT !.user = u, !.before = S] \in Local
         /\ \A s \in Servers, j \in Joins :
              [loc[t] EXCEPT !.server = s, !.join = j] \in Local
<1>1. loc[t] \in Local
  BY DEF TypeOK
<1>2. \A k \in Tokens : [loc[t] EXCEPT !.next = k] \in Local
  BY <1>1 DEF Local
<1>3. \A S \in SUBSET Tokens : [loc[t] EXCEPT !.ids = S] \in Local
  BY <1>1 DEF Local
<1>4. \A u \in Users, S \in SUBSET Tokens : [loc[t] EXCEPT !.user = u, !.before = S] \in Local
  BY <1>1 DEF Local
<1>5. \A s \in Servers, j \in Joins : [loc[t] EXCEPT !.server = s, !.join = j] \in Local
  BY <1>1 DEF Local
<1> QED
  BY <1>2, <1>3, <1>4, <1>5

\* Every action keeps the types.
LEMMA NextTyped ==
  ASSUME TypeOK, KnownOK, [Next]_vars
  PROVE  TypeOK'
<1> USE IdleTyped DEF KnownOK, HistoryOK, Step
<1>1. ASSUME NEW t \in Threads, Authenticate(t) PROVE TypeOK'
  <2>a. PICK u \in Users, c \in Clients, k \in budget.tokens : \E login \in ProfilesOf(u) \cup {None} :
          /\ Mint(t, k, [owner |-> u, profile |-> Selected(u, login), client |-> c])
          /\ loc' = [loc EXCEPT ![t].next = k]
    BY <1>1 DEF Authenticate
  <2>1. PICK login \in ProfilesOf(u) \cup {None} :
          /\ Mint(t, k, [owner |-> u, profile |-> Selected(u, login), client |-> c])
          /\ loc' = [loc EXCEPT ![t].next = k]
    BY <2>a
  <2>2. k \in Tokens /\ [owner |-> u, profile |-> Selected(u, login), client |-> c] \in Claims
    BY SelectedTyped DEF TypeOK, Claims
  <2>3. claims' \in [Tokens -> Claims \cup {None}] /\ loc' \in [Threads -> Local]
        /\ pc' \in [Threads -> Step]
    <3>1. [loc[t] EXCEPT !.next = k] \in Local
      BY <2>2, LocalSet
    <3>2. loc' \in [Threads -> Local]
      BY <2>1, <3>1 DEF TypeOK
    <3>3. claims' \in [Tokens -> Claims \cup {None}] /\ pc' \in [Threads -> Step]
      BY <2>1, <2>2 DEF TypeOK, Mint
    <3> QED
      BY <3>2, <3>3
  <2> QED
    BY <1>1, <2>3 DEF TypeOK, Authenticate, cache, history
<1>2. ASSUME NEW t \in Threads, Store(t) PROVE TypeOK'
  <2>1. loc[t].next \in Tokens /\ claims[loc[t].next] \in Claims
    BY <1>2 DEF Store, Knows, TypeOK
  <2>2. Fault \/ NoFault
    BY <1>2 DEF Store, MemoryStore, FileStore, ListFails, DatabaseStore
  <2>3. entries' \subseteq Key /\ index' \in [Users -> SUBSET Tokens]
        /\ given' \subseteq Tokens /\ stored' \subseteq Tokens
    BY <1>2, <2>1 DEF Store, MemoryStore, FileStore, ListFails, DatabaseStore, Enter, Enlist, Hand,
                      TypeOK, cache, StoreKey, Key, Claims
  <2> QED
    BY <1>2, <2>2, <2>3, FaultTyped DEF Store, Return, TypeOK
<1>3. ASSUME NEW t \in Threads, RedisSet(t) PROVE TypeOK'
  <2>1. loc[t].next \in Tokens
    BY <1>3 DEF RedisSet, Knows
  <2>2. Fault \/ NoFault
    BY <1>3 DEF RedisSet
  <2> QED
    BY <1>3, <2>1, <2>2, FaultTyped DEF RedisSet, Return, Goto, Enter, TypeOK, StoreKey, Key
<1>4. ASSUME NEW t \in Threads, RedisSAdd(t) PROVE TypeOK'
  <2>1. loc[t].next \in Tokens /\ claims[loc[t].next] \in Claims
    BY <1>4 DEF RedisSAdd, Knows, TypeOK
  <2>2. Fault \/ NoFault
    BY <1>4 DEF RedisSAdd
  <2> QED
    BY <1>4, <2>1, <2>2, FaultTyped DEF RedisSAdd, Return, Enlist, Hand, TypeOK, Claims
<1>5. ASSUME NEW t \in Threads, Refresh(t) PROVE TypeOK'
  <2>1. PICK k \in given, p \in Profiles \cup {"same"} :
          loc' = [loc EXCEPT ![t] = [Idle EXCEPT !.token = k, !.want = p]]
    BY <1>5 DEF Refresh
  <2>2. [Idle EXCEPT !.token = k, !.want = p] \in Local
    BY DEF TypeOK, Local
  <2> QED
    BY <1>5, <2>1, <2>2 DEF Refresh, StartDelete, Goto, TypeOK, cache, history
<1>6. ASSUME NEW t \in Threads, Invalidate(t) PROVE TypeOK'
  <2>1. PICK k \in given : loc' = [loc EXCEPT ![t].token = k]
    BY <1>6 DEF Invalidate
  <2>3. [loc[t] EXCEPT !.token = k] \in Local
    BY DEF TypeOK, Local
  <2>2. loc' \in [Threads -> Local]
    BY <2>1, <2>3 DEF TypeOK
  <2> QED
    BY <1>6, <2>2 DEF Invalidate, StartDelete, Goto, TypeOK, cache, history
<1>7. ASSUME NEW t \in Threads, Delete(t) PROVE TypeOK'
  <2>1. loc[t].token \in given /\ loc[t].token \in Tokens /\ claims[loc[t].token] \in Claims
    BY <1>7 DEF Delete, Knows, TypeOK
  <2>2. Fault \/ NoFault
    BY <1>7 DEF Delete, MemoryDelete, FileDelete, ListFails, DatabaseDelete, Spare
  <2>3. entries' \subseteq Key /\ index' \in [Users -> SUBSET Tokens]
        /\ deleted' \subseteq Tokens /\ spared' \subseteq Tokens
    BY <1>7, <2>1 DEF Delete, MemoryDelete, FileDelete, Delist, ListFails, DatabaseDelete, Remove,
                      Spare, TypeOK, cache, Claims
  <2> QED
    BY <1>7, <2>1, <2>2, <2>3, FaultTyped, AfterDeleteTyped DEF Delete, TypeOK
<1>8. ASSUME NEW t \in Threads, RedisSRem(t) PROVE TypeOK'
  <2>1. loc[t].token \in given /\ loc[t].token \in Tokens /\ claims[loc[t].token] \in Claims
    BY <1>8 DEF RedisSRem, Knows, TypeOK
  <2>2. Fault \/ NoFault
    BY <1>8 DEF RedisSRem
  <2>3. index' \in [Users -> SUBSET Tokens] /\ dropped' \subseteq Tokens
    BY <1>8, <2>1 DEF RedisSRem, Unlist, TypeOK, Claims
  <2>4. claims' \in [Tokens -> Claims \cup {None}] /\ loc' \in [Threads -> Local]
        /\ pc' \in [Threads -> Step]
    BY <1>8, <2>1, AfterDeleteTyped DEF RedisSRem, Goto, TypeOK
  <2> QED
    BY <1>8, <2>2, <2>3, <2>4, FaultTyped DEF RedisSRem, TypeOK
<1>9. ASSUME NEW t \in Threads, RedisDel(t) PROVE TypeOK'
  <2>1. loc[t].token \in given /\ loc[t].token \in Tokens
    BY <1>9 DEF RedisDel, Knows, TypeOK
  <2>2. Fault \/ NoFault
    BY <1>9 DEF RedisDel, Spare
  <2>3. entries' \subseteq Key /\ deleted' \subseteq Tokens /\ spared' \subseteq Tokens
    BY <1>9, <2>1 DEF RedisDel, Remove, Spare, TypeOK
  <2> QED
    BY <1>9, <2>1, <2>2, <2>3, FaultTyped, AfterDeleteTyped DEF RedisDel, TypeOK
<1>10. ASSUME NEW t \in Threads, Signout(t) PROVE TypeOK'
  <2>1. PICK u \in Users :
          loc' = [loc EXCEPT ![t].user = u, ![t].before = {k \in given : claims[k].owner = u}]
    BY <1>10 DEF Signout
  <2>3. [loc[t] EXCEPT !.user = u, !.before = {k \in given : claims[k].owner = u}] \in Local
    <3>1. {k \in given : claims[k].owner = u} \in SUBSET Tokens
      BY DEF TypeOK
    <3> QED
      BY <2>1, <3>1, LocalSet
  <2>2. loc' \in [Threads -> Local]
    BY <2>1, <2>3 DEF TypeOK
  <2> QED
    BY <1>10, <2>2 DEF Signout, Goto, TypeOK, cache, history
<1>11. ASSUME NEW t \in Threads, Purge(t) PROVE TypeOK'
  <2>1. Fault \/ NoFault
    BY <1>11 DEF Purge
  <2>2. loc[t].before \subseteq Tokens
    BY DEF TypeOK, Local
  <2>3. entries' \subseteq Key /\ index' \in [Users -> SUBSET Tokens]
        /\ signedOut' \subseteq Tokens /\ spared' \subseteq Tokens
    BY <1>11, <2>2 DEF Purge, TypeOK, cache
  <2> QED
    BY <1>11, <2>1, <2>3, FaultTyped DEF Purge, Return, TypeOK
<1>12. ASSUME NEW t \in Threads, RedisSMembers(t) PROVE TypeOK'
  <2>1. Fault \/ NoFault
    BY <1>12 DEF RedisSMembers
  <2>2. loc[t].before \subseteq Tokens /\ index[loc[t].user] \subseteq Tokens
    BY <1>12 DEF RedisSMembers, Knows, TypeOK, Local
  <2>4. [loc[t] EXCEPT !.ids = index[loc[t].user]] \in Local
    BY <2>2, LocalSet
  <2>3. loc' \in [Threads -> Local] /\ pc' \in [Threads -> Step] /\ spared' \subseteq Tokens
    BY <1>12, <2>2, <2>4 DEF RedisSMembers, Goto, Return, TypeOK
  <2> QED
    BY <1>12, <2>1, <2>3, FaultTyped DEF RedisSMembers, TypeOK, cache
<1>13. ASSUME NEW t \in Threads, RedisPurgeOne(t) PROVE TypeOK'
  <2>1. Fault \/ NoFault
    BY <1>13 DEF RedisPurgeOne
  <2>2. loc[t].ids \subseteq Tokens
    BY DEF TypeOK, Local
  <2>4. PICK k \in loc[t].ids : loc' = [loc EXCEPT ![t].ids = @ \ {k}]
    BY <1>13 DEF RedisPurgeOne
  <2>5. [loc[t] EXCEPT !.ids = @ \ {k}] \in Local
    <3>1. loc[t].ids \ {k} \in SUBSET Tokens
      BY <2>2
    <3> QED
      BY <3>1, LocalSet
  <2>3. loc' \in [Threads -> Local] /\ entries' \subseteq Key /\ spared' \subseteq Tokens
    <3>1. loc' \in [Threads -> Local]
      BY <2>4, <2>5 DEF TypeOK
    <3>2. entries' \subseteq Key /\ spared' \subseteq Tokens
      BY <1>13, <2>2 DEF RedisPurgeOne, TypeOK
    <3> QED
      BY <3>1, <3>2
  <2> QED
    BY <1>13, <2>1, <2>3, FaultTyped DEF RedisPurgeOne, TypeOK
<1>14. ASSUME NEW t \in Threads, RedisPurgeList(t) PROVE TypeOK'
  <2>1. Fault \/ NoFault
    BY <1>14 DEF RedisPurgeList
  <2>2. loc[t].before \subseteq Tokens
    BY DEF TypeOK, Local
  <2>3. index' \in [Users -> SUBSET Tokens] /\ dropped' \subseteq Tokens /\ signedOut' \subseteq Tokens
    BY <1>14, <2>2 DEF RedisPurgeList, Unlist, TypeOK, Knows
  <2> QED
    BY <1>14, <2>1, <2>3, FaultTyped DEF RedisPurgeList, Return, TypeOK
<1>15. ASSUME NEW t \in Threads, Join(t) PROVE TypeOK'
  <2>1. Fault \/ NoFault
    BY <1>15 DEF Join
  <2>2. PICK k \in given, s \in Servers, ip \in Ips, j \in budget.joins \ joined :
          /\ JwtValid(k) /\ claims[k].profile # None
          /\ \/ /\ StoreSession(s, [join |-> j, profile |-> claims[k].profile, ip |-> ip, age |-> 0])
                /\ joined' = joined \cup {j}
             \/ UNCHANGED <<sessions, joined>>
    BY <1>15 DEF Join
  <2>3. j \in Joins /\ claims[k] \in Claims
    BY <2>2 DEF TypeOK, JwtValid
  <2>4. sessions' \in [Servers -> Session \cup {None}] /\ joined' \subseteq Joins
    BY <2>2, <2>3 DEF StoreSession, Session, Claims, TypeOK
  <2> QED
    BY <1>15, <2>1, <2>4, FaultTyped DEF Join, TypeOK, cache
<1>16. ASSUME NEW t \in Threads, HasJoined(t) PROVE TypeOK'
  <2>1. PICK s \in Servers : SessionFound(s)
                             /\ loc' = [loc EXCEPT ![t].server = s, ![t].join = sessions[s].join]
    BY <1>16 DEF HasJoined
  <2>2. sessions[s].join \in Joins
    BY <2>1 DEF SessionFound, TypeOK, Session
  <2>4. [loc[t] EXCEPT !.server = s, !.join = sessions[s].join] \in Local
    BY <2>1, <2>2, LocalSet
  <2>3. loc' \in [Threads -> Local]
    BY <2>1, <2>4 DEF TypeOK
  <2> QED
    BY <1>16, <2>3 DEF HasJoined, Goto, TypeOK, cache, history
<1>17. ASSUME NEW t \in Threads, Answer(t) PROVE TypeOK'
  <2>1. Fault \/ NoFault
    BY <1>17 DEF Answer
  <2>2. loc[t].join \in Joins
    BY <1>17 DEF Answer, Knows, TypeOK
  <2>3. sessions' \in [Servers -> Session \cup {None}]
    BY <1>17 DEF Answer, DeleteSession, TypeOK
  <2> QED
    BY <1>17, <2>1, <2>2, <2>3, FaultTyped DEF Answer, Return, TypeOK, cache
<1>18. CASE Cleanup
  <2>1. sessions' \in [Servers -> Session \cup {None}]
    BY <1>18 DEF Cleanup, CleanSessions, TypeOK
  <2> QED
    BY <1>18, <2>1 DEF Cleanup, Unexpired, TypeOK, history
<1>19. CASE RedisList
  BY <1>19 DEF RedisList, TypeOK, cache, history
<1>20. CASE RedisExists
  <2>1. Fault \/ NoFault
    BY <1>20 DEF RedisExists
  <2>2. index' \in [Users -> SUBSET Tokens] /\ dropped' \subseteq Tokens
    BY <1>20 DEF RedisExists, Unlist, TypeOK
  <2>3. cleaner' \in [at : {"idle", "exists", "drop"}, user : Users \cup {None}, ids : SUBSET Tokens]
    BY <1>20 DEF RedisExists, TypeOK
  <2> QED
    BY <1>20, <2>1, <2>2, <2>3, FaultTyped DEF RedisExists, TypeOK
<1>21. CASE RedisCard
  <2>1. Fault \/ NoFault
    BY <1>21 DEF RedisCard
  <2>2. cleaner' \in [at : {"idle", "exists", "drop"}, user : Users \cup {None}, ids : SUBSET Tokens]
    BY <1>21 DEF RedisCard, CleanIdle, TypeOK
  <2> QED
    BY <1>21, <2>1, <2>2, FaultTyped DEF RedisCard, TypeOK, cache, history
<1>22. CASE RedisDrop
  BY <1>22 DEF RedisDrop, Unlist, CleanIdle, TypeOK
<1>23. ASSUME NEW k \in Tokens, Expire(k) PROVE TypeOK'
  BY <1>23 DEF Expire, TypeOK, history
<1>24. ASSUME NEW s \in Servers, Age(s) PROVE TypeOK'
  <2>1. sessions[s] \in Session /\ sessions[s].age \in 0 .. 1
    BY <1>24 DEF Age, TypeOK, SessionLimit, Session
  <2>2. [sessions[s] EXCEPT !.age = sessions[s].age + 1] \in Session
    BY <2>1 DEF Session
  <2>3. sessions' \in [Servers -> Session \cup {None}]
    BY <1>24, <2>2 DEF Age, DeleteSession, TypeOK
  <2> QED
    BY <1>24, <2>3 DEF Age, TypeOK, cache, history
<1>25. CASE Restart
  <2>1. budget' \in [tokens : SUBSET Tokens, joins : SUBSET Joins, faults : Nat, crashes : Nat]
    BY <1>25 DEF Restart, TypeOK
  <2>2. pc' \in [Threads -> Step] /\ loc' \in [Threads -> Local]
    BY <1>25 DEF Restart, TypeOK
  <2>3. entries' \subseteq Key /\ index' \in [Users -> SUBSET Tokens]
        /\ sessions' \in [Servers -> Session \cup {None}]
    BY <1>25 DEF Restart, TypeOK, cache
  <2> QED
    BY <1>25, <2>1, <2>2, <2>3 DEF Restart, CleanIdle, TypeOK, history
<1>26. CASE UNCHANGED vars
  BY <1>26 DEF vars, cache, history, TypeOK
<1> QED
  BY <1>1, <1>2, <1>3, <1>4, <1>5, <1>6, <1>7, <1>8, <1>9, <1>10, <1>11, <1>12, <1>13, <1>14, <1>15,
     <1>16, <1>17, <1>18, <1>19, <1>20, <1>21, <1>22, <1>23, <1>24, <1>25, <1>26
  DEF Next, Request, CleanerStep

-----------------------------------------------------------------------------
(* What every step leaves alone. *)

\* No step of a request changes the backend, takes a token back from a client or changes
\* the claims of an issued JWT.
Grows ==
  /\ backend' = backend
  /\ \A k \in Tokens : claims[k] # None => claims'[k] = claims[k]
  /\ given \subseteq given' /\ stored \subseteq stored' /\ joined \subseteq joined'
  /\ spared \subseteq spared' /\ dropped \subseteq dropped' /\ expired \subseteq expired'

\* A request's step grows the history.
LEMMA RequestGrows ==
  ASSUME TypeOK, NEW t \in Threads, Request(t)
  PROVE  Grows
<1>1. CASE Authenticate(t)
  BY <1>1 DEF Authenticate, Mint, cache, history, TypeOK, Grows
<1>2. CASE Store(t)
  BY <1>2 DEF Store, MemoryStore, FileStore, DatabaseStore, ListFails, Enter, Enlist, Hand,
         Return, cache, history, TypeOK, Grows
<1>3. CASE RedisSet(t)
  BY <1>3 DEF RedisSet, Enter, Goto, Return, cache, history, TypeOK, Grows
<1>4. CASE RedisSAdd(t)
  BY <1>4 DEF RedisSAdd, Enlist, Hand, Return, cache, history, TypeOK, Grows
<1>5. CASE Refresh(t)
  BY <1>5 DEF Refresh, StartDelete, Goto, cache, history, TypeOK, Grows
<1>6. CASE Invalidate(t)
  BY <1>6 DEF Invalidate, StartDelete, Goto, cache, history, TypeOK, Grows
<1>7. CASE Delete(t)
  BY <1>7 DEF Delete, MemoryDelete, FileDelete, Delist, ListFails, DatabaseDelete, Remove,
         Spare, AfterDelete, Mint, Return, cache, history, TypeOK, Grows
<1>8. CASE RedisSRem(t)
  BY <1>8 DEF RedisSRem, Unlist, AfterDelete, Mint, Return, Goto, cache, history, TypeOK, Grows
<1>9. CASE RedisDel(t)
  BY <1>9 DEF RedisDel, Remove, Spare, AfterDelete, Mint, Return, cache, history, TypeOK, Grows
<1>10. CASE Signout(t)
  BY <1>10 DEF Signout, Goto, cache, history, TypeOK, Grows
<1>11. CASE Purge(t)
  BY <1>11 DEF Purge, Return, cache, history, TypeOK, Grows
<1>12. CASE RedisSMembers(t)
  BY <1>12 DEF RedisSMembers, Goto, Return, cache, history, TypeOK, Grows
<1>13. CASE RedisPurgeOne(t)
  BY <1>13 DEF RedisPurgeOne, cache, history, TypeOK, Grows
<1>14. CASE RedisPurgeList(t)
  BY <1>14 DEF RedisPurgeList, Unlist, Return, cache, history, TypeOK, Grows
<1>15. CASE Join(t)
  BY <1>15 DEF Join, StoreSession, cache, history, TypeOK, Grows
<1>16. CASE HasJoined(t)
  BY <1>16 DEF HasJoined, SessionFound, Goto, cache, history, TypeOK, Grows
<1>17. CASE Answer(t)
  BY <1>17 DEF Answer, DeleteSession, Return, cache, history, TypeOK, Grows
<1> QED
  BY <1>1, <1>2, <1>3, <1>4, <1>5, <1>6, <1>7, <1>8, <1>9, <1>10, <1>11, <1>12, <1>13, <1>14,
         <1>15, <1>16, <1>17 DEF Request

\* So does a step of the cleanup routine.
LEMMA CleanerGrows == ASSUME CleanerStep PROVE Grows
<1>1. CASE Cleanup
  BY <1>1 DEF Cleanup, CleanSessions, Unexpired, cache, history, Grows
<1>2. CASE RedisList
  BY <1>2 DEF RedisList, cache, history, Grows
<1>3. CASE RedisExists
  BY <1>3 DEF RedisExists, Unlist, cache, history, Grows
<1>4. CASE RedisCard
  BY <1>4 DEF RedisCard, CleanIdle, cache, history, Grows
<1>5. CASE RedisDrop
  BY <1>5 DEF RedisDrop, Unlist, CleanIdle, cache, history, Grows
<1> QED
  BY <1>1, <1>2, <1>3, <1>4, <1>5 DEF CleanerStep

\* Every step grows the history.
LEMMA NextGrows == ASSUME TypeOK, [Next]_vars PROVE Grows
<1>1. ASSUME NEW k \in Tokens, Expire(k) PROVE Grows
  BY <1>1 DEF Expire, Grows, history
<1>2. ASSUME NEW s \in Servers, Age(s) PROVE Grows
  BY <1>2 DEF Age, Grows, history
<1>3. CASE Restart
  BY <1>3 DEF Restart, Grows, history
<1>4. CASE UNCHANGED vars
  BY <1>4 DEF vars, Grows, history
<1> QED
  BY <1>1, <1>2, <1>3, <1>4, RequestGrows, CleanerGrows DEF Next

\* A request's step leaves the other requests alone.
LEMMA OthersStay ==
  ASSUME TypeOK, NEW t \in Threads, Request(t), NEW r \in Threads, r # t
  PROVE  pc'[r] = pc[r] /\ loc'[r] = loc[r]
<1>1. CASE Authenticate(t)
  BY <1>1 DEF Authenticate, Mint, cache, history, TypeOK
<1>2. CASE Store(t)
  BY <1>2 DEF Store, MemoryStore, FileStore, DatabaseStore, ListFails, Enter, Enlist, Hand,
         Return, cache, history, TypeOK
<1>3. CASE RedisSet(t)
  BY <1>3 DEF RedisSet, Enter, Goto, Return, cache, history, TypeOK
<1>4. CASE RedisSAdd(t)
  BY <1>4 DEF RedisSAdd, Enlist, Hand, Return, cache, history, TypeOK
<1>5. CASE Refresh(t)
  BY <1>5 DEF Refresh, StartDelete, Goto, cache, history, TypeOK
<1>6. CASE Invalidate(t)
  BY <1>6 DEF Invalidate, StartDelete, Goto, cache, history, TypeOK
<1>7. CASE Delete(t)
  BY <1>7 DEF Delete, MemoryDelete, FileDelete, Delist, ListFails, DatabaseDelete, Remove,
         Spare, AfterDelete, Mint, Return, cache, history, TypeOK
<1>8. CASE RedisSRem(t)
  BY <1>8 DEF RedisSRem, Unlist, AfterDelete, Mint, Return, Goto, cache, history, TypeOK
<1>9. CASE RedisDel(t)
  BY <1>9 DEF RedisDel, Remove, Spare, AfterDelete, Mint, Return, cache, history, TypeOK
<1>10. CASE Signout(t)
  BY <1>10 DEF Signout, Goto, cache, history, TypeOK
<1>11. CASE Purge(t)
  BY <1>11 DEF Purge, Return, cache, history, TypeOK
<1>12. CASE RedisSMembers(t)
  BY <1>12 DEF RedisSMembers, Goto, Return, cache, history, TypeOK
<1>13. CASE RedisPurgeOne(t)
  BY <1>13 DEF RedisPurgeOne, cache, history, TypeOK
<1>14. CASE RedisPurgeList(t)
  BY <1>14 DEF RedisPurgeList, Unlist, Return, cache, history, TypeOK
<1>15. CASE Join(t)
  BY <1>15 DEF Join, StoreSession, cache, history, TypeOK
<1>16. CASE HasJoined(t)
  BY <1>16 DEF HasJoined, SessionFound, Goto, cache, history, TypeOK
<1>17. CASE Answer(t)
  BY <1>17 DEF Answer, DeleteSession, Return, cache, history, TypeOK
<1> QED
  BY <1>1, <1>2, <1>3, <1>4, <1>5, <1>6, <1>7, <1>8, <1>9, <1>10, <1>11, <1>12, <1>13, <1>14,
         <1>15, <1>16, <1>17 DEF Request

-----------------------------------------------------------------------------
(* What requests know.                                                     *)

\* The invariant holds at the start.
LEMMA InitInv == Init => Inv
<1> SUFFICES ASSUME Init PROVE Inv
  OBVIOUS
<1>1. KnownOK
  BY DEF Init, KnownOK, HistoryOK, Knows, Commands, Held, CleanIdle
<1>2. JoinsOK /\ FreshOK /\ RevokedOK
  BY DEF Init, JoinsOK, AnsweredIsGone, FreshOK, RevokedOK, Idle
<1> QED
  BY <1>1, <1>2, InitTyped DEF Inv

\* Another request still knows what it knew.
LEMMA OthersKnow ==
  ASSUME TypeOK, HistoryOK, Grows, NEW r \in Threads, Knows(r), Commands(r),
         pc'[r] = pc[r], loc'[r] = loc[r]
  PROVE  Knows(r)' /\ Commands(r)'
<1>1. pc[r] \in {"store", "sadd"} => loc'[r].next \in Tokens /\ claims'[loc'[r].next] # None
  BY DEF Knows, Grows
<1>2. pc[r] \in {"purge", "smembers", "purgeOne"} =>
        /\ loc'[r].user \in Users
        /\ \A k \in loc'[r].before : k \in given' /\ claims'[k].owner = loc'[r].user
  <2> SUFFICES ASSUME pc[r] \in {"purge", "smembers", "purgeOne"}, NEW k \in loc[r].before
               PROVE  loc[r].user \in Users /\ k \in given' /\ claims'[k].owner = loc[r].user
    BY DEF Knows
  <2>1. k \in given /\ k \in Tokens /\ claims[k].owner = loc[r].user /\ loc[r].user \in Users
    BY DEF Knows, TypeOK
  <2>2. claims[k] # None
    BY <2>1 DEF HistoryOK
  <2> QED
    BY <2>1, <2>2 DEF Grows
<1> QED
  BY <1>1, <1>2 DEF Knows, Commands, Grows



\* A request that issues a token, or has ended, knows the token.
LEMMA AfterDeleteKnows ==
  ASSUME TypeOK, KnownOK, NEW t \in Threads, AfterDelete(t), loc[t].token \in given
  PROVE  Knows(t)' /\ Commands(t)'
<1>1. CASE Return(t)
  BY <1>1 DEF Return, TypeOK, Knows, Commands
<1>2. ASSUME NEW new \in budget.tokens, NEW c \in Claims, Mint(t, new, c),
             loc' = [loc EXCEPT ![t] = [Idle EXCEPT !.next = new]]
      PROVE  Knows(t)' /\ Commands(t)'
  <2>1. new \in Tokens /\ loc'[t].next = new
    BY <1>2 DEF TypeOK, Idle
  <2> QED
    BY <1>2, <2>1, NoneAssumption DEF Mint, TypeOK, Knows, Commands
<1>5. claims[loc[t].token] \in Claims
  BY DEF TypeOK, KnownOK, HistoryOK
<1>3. ASSUME NEW new \in budget.tokens, NEW p \in Profiles \cup {None},
             Mint(t, new, [claims[loc[t].token] EXCEPT !.profile = p]),
             loc' = [loc EXCEPT ![t] = [Idle EXCEPT !.next = new]]
      PROVE  Knows(t)' /\ Commands(t)'
  <2>1. [claims[loc[t].token] EXCEPT !.profile = p] \in Claims
    BY <1>5 DEF Claims
  <2> QED
    BY <1>2, <1>3, <2>1, NoneAssumption
<1> QED
  BY <1>1, <1>3, <1>5 DEF AfterDelete, Claims, TypeOK, Local

\* The request that takes a step knows what its next step needs.
LEMMA RequestKnows ==
  ASSUME TypeOK, KnownOK, JoinsOK, NEW t \in Threads, Request(t)
  PROVE  Knows(t)' /\ Commands(t)'
<1> USE DEF KnownOK, HistoryOK, Knows, Commands
<1>1. CASE Authenticate(t)
  <2>1. PICK u \in Users, c \in Clients, k \in budget.tokens : \E login \in ProfilesOf(u) \cup {None} :
          /\ Mint(t, k, [owner |-> u, profile |-> Selected(u, login), client |-> c])
          /\ loc' = [loc EXCEPT ![t].next = k]
    BY <1>1 DEF Authenticate
  <2>2. PICK login \in ProfilesOf(u) \cup {None} :
          Mint(t, k, [owner |-> u, profile |-> Selected(u, login), client |-> c])
    BY <2>1
  <2>3. [owner |-> u, profile |-> Selected(u, login), client |-> c] \in Claims
    BY SelectedTyped DEF Claims
  <2>4. claims'[k] # None /\ pc'[t] = "store" /\ loc'[t].next = k /\ k \in Tokens
    BY <2>1, <2>2, <2>3, NoneAssumption DEF Mint, TypeOK, Local
  <2> QED
    BY <2>4
<1>2. CASE Store(t)
  BY <1>2 DEF Store, MemoryStore, FileStore, DatabaseStore, ListFails, Enter, Enlist, Hand,
         Return, cache, history, TypeOK, JoinsOK, Idle
<1>3. CASE RedisSet(t)
  BY <1>3 DEF RedisSet, Enter, Goto, Return, cache, history, TypeOK, JoinsOK, Idle
<1>4. CASE RedisSAdd(t)
  BY <1>4 DEF RedisSAdd, Enlist, Hand, Return, cache, history, TypeOK, JoinsOK, Idle
<1>5. CASE Refresh(t)
  BY <1>5 DEF Refresh, StartDelete, Goto, cache, history, TypeOK, JoinsOK, Idle
<1>6. CASE Invalidate(t)
  BY <1>6 DEF Invalidate, StartDelete, Goto, cache, history, TypeOK, JoinsOK, Idle
<1>7. CASE Delete(t)
  BY <1>7, AfterDeleteKnows DEF Delete
<1>8. CASE RedisSRem(t)
  <2>1. CASE AfterDelete(t)
    BY <1>8, <2>1, AfterDeleteKnows DEF RedisSRem
  <2>2. CASE Goto(t, "del") /\ UNCHANGED loc
    BY <1>8, <2>2 DEF RedisSRem, Goto, TypeOK
  <2> QED
    BY <1>8, <2>1, <2>2 DEF RedisSRem
<1>9. CASE RedisDel(t)
  BY <1>9, AfterDeleteKnows DEF RedisDel
<1>10. CASE Signout(t)
  BY <1>10 DEF Signout, Goto, cache, history, TypeOK, JoinsOK, Idle
<1>11. CASE Purge(t)
  BY <1>11 DEF Purge, Return, cache, history, TypeOK, JoinsOK, Idle
<1>12. CASE RedisSMembers(t)
  <2>1. CASE Return(t)
    BY <1>12, <2>1 DEF Return, TypeOK
  <2>2. CASE loc' = [loc EXCEPT ![t].ids = index[loc[t].user]] /\ Goto(t, "purgeOne")
    <3>1. loc'[t].user = loc[t].user /\ loc'[t].before = loc[t].before
      BY <2>2 DEF TypeOK, Local
    <3> QED
      BY <1>12, <2>2, <3>1 DEF RedisSMembers, Goto, TypeOK, history
  <2> QED
    BY <1>12, <2>1, <2>2 DEF RedisSMembers
<1>13. CASE RedisPurgeOne(t)
  BY <1>13 DEF RedisPurgeOne, cache, history, TypeOK, JoinsOK, Idle
<1>14. CASE RedisPurgeList(t)
  BY <1>14 DEF RedisPurgeList, Unlist, Return, cache, history, TypeOK, JoinsOK, Idle
<1>15. CASE Join(t)
  BY <1>15 DEF Join, StoreSession, cache, history, TypeOK, JoinsOK, Idle
<1>16. CASE HasJoined(t)
  BY <1>16 DEF HasJoined, SessionFound, Goto, cache, history, TypeOK, JoinsOK, Idle
<1>17. CASE Answer(t)
  BY <1>17 DEF Answer, DeleteSession, Return, cache, history, TypeOK, JoinsOK, Idle
<1> QED
  BY <1>1, <1>2, <1>3, <1>4, <1>5, <1>6, <1>7, <1>8, <1>9, <1>10, <1>11, <1>12, <1>13, <1>14,
         <1>15, <1>16, <1>17 DEF Request

\* A request's step keeps the history true.
LEMMA RequestHistory ==
  ASSUME TypeOK, KnownOK, NEW t \in Threads, Request(t)
  PROVE  HistoryOK'
<1> USE DEF KnownOK, HistoryOK, Knows, Held, StoreKey
<1>1. CASE Authenticate(t)
  BY <1>1 DEF Authenticate, Mint, cache, history, TypeOK
<1>2. CASE Store(t)
  BY <1>2 DEF Store, MemoryStore, FileStore, DatabaseStore, ListFails, Enter, Enlist, Hand,
         Return, cache, history, TypeOK
<1>3. CASE RedisSet(t)
  BY <1>3 DEF RedisSet, Enter, Goto, Return, cache, history, TypeOK
<1>4. CASE RedisSAdd(t)
  BY <1>4 DEF RedisSAdd, Enlist, Hand, Return, cache, history, TypeOK
<1>5. CASE Refresh(t)
  BY <1>5 DEF Refresh, StartDelete, Goto, cache, history, TypeOK
<1>6. CASE Invalidate(t)
  BY <1>6 DEF Invalidate, StartDelete, Goto, cache, history, TypeOK
<1>7. CASE Delete(t)
  <2>1. loc[t].token \in stored
    BY <1>7 DEF Delete
  <2>2. entries' \subseteq entries /\ deleted' \subseteq deleted \cup {loc[t].token}
        /\ UNCHANGED <<given, stored, signedOut>>
    BY <1>7 DEF Delete, MemoryDelete, FileDelete, DatabaseDelete, Remove, Spare, cache
  <2>3. \A k \in Tokens : claims[k] # None => claims'[k] # None
    BY <1>7, RequestGrows DEF Grows
  <2> QED
    BY <2>1, <2>2, <2>3 DEF TypeOK
<1>8. CASE RedisSRem(t)
  BY <1>8 DEF RedisSRem, Unlist, AfterDelete, Mint, Return, Goto, cache, history, TypeOK
<1>9. CASE RedisDel(t)
  BY <1>9 DEF RedisDel, Remove, Spare, AfterDelete, Mint, Return, cache, history, TypeOK
<1>10. CASE Signout(t)
  BY <1>10 DEF Signout, Goto, cache, history, TypeOK
<1>11. CASE Purge(t)
  BY <1>11 DEF Purge, Return, cache, history, TypeOK
<1>12. CASE RedisSMembers(t)
  BY <1>12 DEF RedisSMembers, Goto, Return, cache, history, TypeOK
<1>13. CASE RedisPurgeOne(t)
  BY <1>13 DEF RedisPurgeOne, cache, history, TypeOK
<1>14. CASE RedisPurgeList(t)
  BY <1>14 DEF RedisPurgeList, Unlist, Return, cache, history, TypeOK
<1>15. CASE Join(t)
  BY <1>15 DEF Join, StoreSession, cache, history, TypeOK
<1>16. CASE HasJoined(t)
  BY <1>16 DEF HasJoined, SessionFound, Goto, cache, history, TypeOK
<1>17. CASE Answer(t)
  BY <1>17 DEF Answer, DeleteSession, Return, cache, history, TypeOK
<1> QED
  BY <1>1, <1>2, <1>3, <1>4, <1>5, <1>6, <1>7, <1>8, <1>9, <1>10, <1>11, <1>12, <1>13, <1>14,
         <1>15, <1>16, <1>17 DEF Request

\* A step that leaves the requests, the claims and the stored tokens alone, and adds no
\* entry, keeps what requests know.
LEMMA QuietKnown ==
  ASSUME TypeOK, KnownOK, Grows, UNCHANGED <<claims, given, stored, deleted, signedOut>>,
         \A r \in Threads : (pc'[r] = pc[r] /\ loc'[r] = loc[r]) \/ pc'[r] = "idle",
         \A k \in Tokens : Held(k)' => Held(k),
         cleaner'.at # "idle" => cleaner'.user \in Users /\ backend = "redis"
  PROVE  KnownOK'
<1>1. ASSUME NEW r \in Threads PROVE Knows(r)' /\ Commands(r)'
  <2>1. CASE pc'[r] = pc[r] /\ loc'[r] = loc[r]
    BY <2>1, OthersKnow DEF KnownOK
  <2>2. CASE pc'[r] = "idle"
    BY <2>2 DEF Knows, Commands
  <2> QED
    BY <2>1, <2>2
<1>2. HistoryOK'
  BY DEF KnownOK, HistoryOK
<1>3. cleaner'.at # "idle" => cleaner'.user \in Users /\ backend' = "redis"
  BY DEF Grows
<1> QED
  BY <1>1, <1>2, <1>3 DEF KnownOK

\* Every step keeps what requests know.
LEMMA NextKnown ==
  ASSUME TypeOK, KnownOK, JoinsOK, [Next]_vars
  PROVE  KnownOK'
<1> USE NextGrows
<1>1. ASSUME NEW t \in Threads, Request(t) PROVE KnownOK'
  <2>1. Knows(t)' /\ Commands(t)' /\ HistoryOK'
    BY <1>1, RequestKnows, RequestHistory
  <2>2. ASSUME NEW r \in Threads, r # t PROVE Knows(r)' /\ Commands(r)'
    BY <1>1, <2>2, OthersStay, OthersKnow DEF KnownOK
  <2>3. UNCHANGED cleaner
    BY <1>1 DEF Request, Authenticate, Store, RedisSet, RedisSAdd, Refresh, Invalidate, Delete,
           RedisSRem, RedisDel, Signout, Purge, RedisSMembers, RedisPurgeOne, RedisPurgeList,
           Join, HasJoined, Answer, history
  <2> QED
    BY <2>1, <2>2, <2>3 DEF KnownOK, Grows
<1>2. CASE CleanerStep
  <2>1. UNCHANGED <<claims, given, stored, deleted, signedOut, pc, loc>>
    BY <1>2 DEF CleanerStep, Cleanup, RedisList, RedisExists, RedisCard, RedisDrop, history
  <2>2. entries' \subseteq entries
    BY <1>2 DEF CleanerStep, Cleanup, RedisList, RedisExists, RedisCard, RedisDrop, cache, Unexpired
  <2>3. cleaner'.at # "idle" => cleaner'.user \in Users /\ backend = "redis" 
    <3> USE DEF KnownOK, TypeOK
    <3>1. CASE Cleanup
      BY <3>1 DEF Cleanup
    <3>2. CASE RedisList
      BY <3>2 DEF RedisList
    <3>3. CASE RedisExists
      BY <3>3 DEF RedisExists
    <3>4. CASE RedisCard
      BY <3>4 DEF RedisCard, CleanIdle
    <3>5. CASE RedisDrop
      BY <3>5 DEF RedisDrop, CleanIdle
    <3> QED
      BY <1>2, <3>1, <3>2, <3>3, <3>4, <3>5 DEF CleanerStep
  <2> QED
    BY <2>1, <2>2, <2>3, QuietKnown DEF Held
<1>3. ASSUME NEW k \in Tokens, Expire(k) PROVE KnownOK'
  <2>1. UNCHANGED <<claims, given, stored, deleted, signedOut, pc, loc, cleaner>> /\ entries' \subseteq entries
    BY <1>3 DEF Expire, history
  <2> QED
    BY <2>1, QuietKnown DEF Held, KnownOK
<1>4. ASSUME NEW s \in Servers, Age(s) PROVE KnownOK'
  <2>1. UNCHANGED <<claims, given, stored, deleted, signedOut, pc, loc, cleaner>> /\ entries' \subseteq entries
    BY <1>4 DEF Age, history, cache
  <2> QED
    BY <2>1, QuietKnown DEF Held, KnownOK
<1>5. CASE Restart
  <2>1. UNCHANGED <<claims, given, stored, deleted, signedOut>> /\ entries' \subseteq entries
        /\ cleaner'.at = "idle"
    BY <1>5 DEF Restart, history, cache, CleanIdle
  <2>2. \A r \in Threads : (pc'[r] = pc[r] /\ loc'[r] = loc[r]) \/ pc'[r] = "idle"
    BY <1>5 DEF Restart
  <2> QED
    BY <2>1, <2>2, QuietKnown DEF Held
<1>6. CASE UNCHANGED vars
  BY <1>6, QuietKnown DEF vars, history, cache, Held, KnownOK
<1> QED
  BY <1>1, <1>2, <1>3, <1>4, <1>5, <1>6 DEF Next

-----------------------------------------------------------------------------
(* A token is stored once.                                                 *)

\* What follows a deletion comes to store a token only to issue it.
LEMMA AfterDeleteIssues ==
  ASSUME TypeOK, NEW t \in Threads, AfterDelete(t), pc'[t] = "store"
  PROVE  claims[loc'[t].next] = None
BY DEF AfterDelete, Mint, Return, TypeOK, Idle

\* A request that comes to store a token has just issued it.
LEMMA IssuesUnissued ==
  ASSUME TypeOK, NEW t \in Threads, Request(t), pc'[t] = "store"
  PROVE  claims[loc'[t].next] = None /\ stored' = stored
<1>1. CASE Authenticate(t)
  BY <1>1 DEF Authenticate, Mint, cache, history, TypeOK, Idle
<1>2. CASE Store(t)
  BY <1>2 DEF Store, MemoryStore, FileStore, DatabaseStore, ListFails, Enter, Enlist, Hand,
         Return, cache, history, TypeOK, Idle
<1>3. CASE RedisSet(t)
  BY <1>3 DEF RedisSet, Enter, Goto, Return, cache, history, TypeOK, Idle
<1>4. CASE RedisSAdd(t)
  BY <1>4 DEF RedisSAdd, Enlist, Hand, Return, cache, history, TypeOK, Idle
<1>5. CASE Refresh(t)
  BY <1>5 DEF Refresh, StartDelete, Goto, cache, history, TypeOK, Idle
<1>6. CASE Invalidate(t)
  BY <1>6 DEF Invalidate, StartDelete, Goto, cache, history, TypeOK, Idle
<1>7. CASE Delete(t)
  <2>1. AfterDelete(t) /\ stored' = stored
    BY <1>7 DEF Delete
  <2> QED
    BY <2>1, AfterDeleteIssues
<1>8. CASE RedisSRem(t)
  <2>1. AfterDelete(t) /\ stored' = stored
    BY <1>8 DEF RedisSRem, Goto, TypeOK
  <2> QED
    BY <2>1, AfterDeleteIssues
<1>9. CASE RedisDel(t)
  BY <1>9 DEF RedisDel, Remove, Spare, AfterDelete, Mint, Return, cache, history, TypeOK, Idle
<1>10. CASE Signout(t)
  BY <1>10 DEF Signout, Goto, cache, history, TypeOK, Idle
<1>11. CASE Purge(t)
  BY <1>11 DEF Purge, Return, cache, history, TypeOK, Idle
<1>12. CASE RedisSMembers(t)
  BY <1>12 DEF RedisSMembers, Goto, Return, cache, history, TypeOK, Idle
<1>13. CASE RedisPurgeOne(t)
  BY <1>13 DEF RedisPurgeOne, cache, history, TypeOK, Idle
<1>14. CASE RedisPurgeList(t)
  BY <1>14 DEF RedisPurgeList, Unlist, Return, cache, history, TypeOK, Idle
<1>15. CASE Join(t)
  BY <1>15 DEF Join, StoreSession, cache, history, TypeOK, Idle
<1>16. CASE HasJoined(t)
  BY <1>16 DEF HasJoined, SessionFound, Goto, cache, history, TypeOK, Idle
<1>17. CASE Answer(t)
  BY <1>17 DEF Answer, DeleteSession, Return, cache, history, TypeOK, Idle
<1> QED
  BY <1>1, <1>2, <1>3, <1>4, <1>5, <1>6, <1>7, <1>8, <1>9, <1>10, <1>11, <1>12, <1>13, <1>14,
         <1>15, <1>16, <1>17 DEF Request

\* What a request adds to the stored tokens is the token it was to store.
LEMMA StoresOwn ==
  ASSUME TypeOK, NEW t \in Threads, Request(t)
  PROVE  stored' = stored \/ (pc[t] = "store" /\ stored' = stored \cup {loc[t].next})
BY DEF Request, Authenticate, Store, RedisSet, RedisSAdd, Refresh, Invalidate, Delete,
       RedisSRem, RedisDel, Signout, Purge, RedisSMembers, RedisPurgeOne, RedisPurgeList, Join,
       HasJoined, Answer, MemoryStore, FileStore, DatabaseStore, ListFails, Enter, history

\* Every step keeps the tokens that are about to be stored apart.
LEMMA NextFresh ==
  ASSUME TypeOK, KnownOK, FreshOK, [Next]_vars
  PROVE  FreshOK'
<1>1. ASSUME NEW t \in Threads, Request(t) PROVE FreshOK'
  <2>1. ASSUME NEW r \in Threads, r # t PROVE pc'[r] = pc[r] /\ loc'[r] = loc[r]
    BY <1>1, <2>1, OthersStay
  <2>2. ASSUME NEW r \in Threads, r # t, pc'[r] = "store"
        PROVE  /\ loc'[r].next \notin stored'
               /\ claims[loc'[r].next] # None
    BY <1>1, <2>1, <2>2, StoresOwn DEF FreshOK, KnownOK, Knows
  <2>3. ASSUME pc'[t] = "store"
        PROVE  /\ loc'[t].next \notin stored'
               /\ claims[loc'[t].next] = None
    BY <1>1, <2>3, IssuesUnissued DEF KnownOK, HistoryOK
  <2> QED
    BY <2>1, <2>2, <2>3 DEF FreshOK
<1>2. ASSUME UNCHANGED stored,
             \A r \in Threads : (pc'[r] = pc[r] /\ loc'[r] = loc[r]) \/ pc'[r] = "idle"
      PROVE  FreshOK'
  BY <1>2 DEF FreshOK
<1>3. CASE CleanerStep
  BY <1>2, <1>3 DEF CleanerStep, Cleanup, RedisList, RedisExists, RedisCard, RedisDrop, history
<1>4. ASSUME NEW k \in Tokens, Expire(k) PROVE FreshOK'
  BY <1>2, <1>4 DEF Expire, history
<1>5. ASSUME NEW s \in Servers, Age(s) PROVE FreshOK'
  BY <1>2, <1>5 DEF Age, history
<1>6. CASE Restart
  <2>1. \A r \in Threads : (pc'[r] = pc[r] /\ loc'[r] = loc[r]) \/ pc'[r] = "idle"
    BY <1>6 DEF Restart
  <2> QED
    BY <1>2, <1>6, <2>1 DEF Restart, history
<1>7. CASE UNCHANGED vars
  BY <1>2, <1>7 DEF vars, history
<1> QED
  BY <1>1, <1>3, <1>4, <1>5, <1>6, <1>7 DEF Next

-----------------------------------------------------------------------------
(* A join is answered for once it is gone.                                 *)

\* A step that stores no session, and answers for none, keeps the joins.
LEMMA QuietJoins ==
  ASSUME TypeOK, JoinsOK, UNCHANGED <<answered, kept>>, joined \subseteq joined',
         \A s \in Servers : sessions'[s] # None =>
           sessions[s] # None /\ sessions'[s].join = sessions[s].join,
         \A r \in Threads : pc'[r] = "answer" => pc[r] = "answer" /\ loc'[r] = loc[r]
  PROVE  JoinsOK'
BY DEF JoinsOK, AnsweredIsGone

\* Every step of a request keeps the joins.
LEMMA RequestJoins ==
  ASSUME TypeOK, KnownOK, JoinsOK, NEW t \in Threads, Request(t)
  PROVE  JoinsOK'
<1>1. ASSUME NEW r \in Threads, r # t PROVE pc'[r] = pc[r] /\ loc'[r] = loc[r]
  BY <1>1, OthersStay
<1>2. CASE Join(t)
  <2>1. PICK k \in given, s \in Servers, ip \in Ips, j \in budget.joins \ joined :
          \/ /\ StoreSession(s, [join |-> j, profile |-> claims[k].profile, ip |-> ip, age |-> 0])
             /\ joined' = joined \cup {j}
          \/ UNCHANGED <<sessions, joined>>
    BY <1>2 DEF Join
  <2>2. UNCHANGED <<answered, kept, pc, loc>>
    BY <1>2 DEF Join
  <2>3. CASE UNCHANGED <<sessions, joined>>
    BY <2>2, <2>3, QuietJoins
  <2>4. CASE /\ StoreSession(s, [join |-> j, profile |-> claims[k].profile, ip |-> ip, age |-> 0])
             /\ joined' = joined \cup {j}
    <3>1. sessions'[s].join = j /\ j \notin joined
          /\ \A x \in Servers : x # s => sessions'[x] = sessions[x]
      BY <2>4 DEF StoreSession, TypeOK
    <3>2. \A r \in Threads : pc[r] = "answer" => loc[r].join # j
      BY <3>1 DEF KnownOK, Knows
    <3> QED
      BY <2>2, <2>4, <3>1, <3>2 DEF JoinsOK, AnsweredIsGone
  <2> QED
    BY <2>1, <2>3, <2>4
<1>3. CASE HasJoined(t)
  <2>1. PICK s \in Servers : sessions[s] # None
                             /\ loc' = [loc EXCEPT ![t].server = s, ![t].join = sessions[s].join]
    BY <1>3 DEF HasJoined, SessionFound
  <2>2. loc'[t].server = s /\ loc'[t].join = sessions[s].join
    BY <2>1 DEF TypeOK, Local
  <2>3. UNCHANGED <<answered, kept, joined, sessions>>
    BY <1>3 DEF HasJoined, history
  <2>4. ASSUME NEW r \in Threads, NEW x \in Servers, pc'[r] = "answer", sessions[x] # None,
               sessions[x].join = loc'[r].join
        PROVE  x = loc'[r].server
    <3>1. CASE r = t
      BY <2>1, <2>2, <2>4, <3>1 DEF JoinsOK
    <3>2. CASE r # t
      BY <1>1, <2>4, <3>2 DEF JoinsOK
    <3> QED
      BY <3>1, <3>2
  <2> QED
    BY <2>3, <2>4 DEF JoinsOK, AnsweredIsGone
<1>4. CASE Answer(t)
  <2>1. pc'[t] = "idle" /\ answered' = answered \cup {loc[t].join} /\ UNCHANGED joined
        /\ loc[t].server \in Servers /\ loc[t].join \in joined /\ pc[t] = "answer"
    BY <1>4 DEF Answer, Return, TypeOK, KnownOK, Knows
  <2>2. \/ sessions' = [sessions EXCEPT ![loc[t].server] = None] /\ UNCHANGED kept
        \/ kept' = kept \cup {loc[t].join} /\ UNCHANGED sessions
    BY <1>4 DEF Answer, DeleteSession
  <2>3. ASSUME NEW s \in Servers, sessions'[s] # None
        PROVE  sessions'[s] = sessions[s] /\ sessions[s].join \notin answered' \ kept'
    <3>1. sessions'[s] = sessions[s]
      BY <2>1, <2>2, <2>3 DEF TypeOK
    <3>2. CASE sessions[s].join # loc[t].join
      BY <2>1, <2>2, <2>3, <3>1, <3>2 DEF JoinsOK, AnsweredIsGone
    <3>3. CASE sessions[s].join = loc[t].join
      BY <2>1, <2>2, <2>3, <3>1, <3>3 DEF JoinsOK, TypeOK
    <3> QED
      BY <3>1, <3>2, <3>3
  <2> QED
    BY <1>1, <2>1, <2>3 DEF JoinsOK, AnsweredIsGone
<1>5. ASSUME UNCHANGED <<answered, kept, joined, sessions>>, pc'[t] # "answer"
      PROVE  JoinsOK'
  BY <1>1, <1>5, QuietJoins
<1>6. CASE Authenticate(t)
  BY <1>6, <1>5 DEF Authenticate, history, AfterDelete, Mint, Return, Goto, StartDelete, TypeOK
<1>7. CASE Store(t)
  BY <1>7, <1>5 DEF Store, history, AfterDelete, Mint, Return, Goto, StartDelete, TypeOK
<1>8. CASE RedisSet(t)
  BY <1>8, <1>5 DEF RedisSet, history, AfterDelete, Mint, Return, Goto, StartDelete, TypeOK
<1>9. CASE RedisSAdd(t)
  BY <1>9, <1>5 DEF RedisSAdd, history, AfterDelete, Mint, Return, Goto, StartDelete, TypeOK
<1>10. CASE Refresh(t)
  BY <1>10, <1>5 DEF Refresh, history, AfterDelete, Mint, Return, Goto, StartDelete, TypeOK
<1>11. CASE Invalidate(t)
  BY <1>11, <1>5 DEF Invalidate, history, AfterDelete, Mint, Return, Goto, StartDelete, TypeOK
<1>12. CASE Delete(t)
  BY <1>12, <1>5 DEF Delete, history, AfterDelete, Mint, Return, Goto, StartDelete, TypeOK
<1>13. CASE RedisSRem(t)
  BY <1>13, <1>5 DEF RedisSRem, history, AfterDelete, Mint, Return, Goto, StartDelete, TypeOK
<1>14. CASE RedisDel(t)
  BY <1>14, <1>5 DEF RedisDel, history, AfterDelete, Mint, Return, Goto, StartDelete, TypeOK
<1>15. CASE Signout(t)
  BY <1>15, <1>5 DEF Signout, history, AfterDelete, Mint, Return, Goto, StartDelete, TypeOK
<1>16. CASE Purge(t)
  BY <1>16, <1>5 DEF Purge, history, AfterDelete, Mint, Return, Goto, StartDelete, TypeOK
<1>17. CASE RedisSMembers(t)
  BY <1>17, <1>5 DEF RedisSMembers, history, AfterDelete, Mint, Return, Goto, StartDelete,
         TypeOK
<1>18. CASE RedisPurgeOne(t)
  BY <1>18, <1>5 DEF RedisPurgeOne, history, AfterDelete, Mint, Return, Goto, StartDelete,
         TypeOK
<1>19. CASE RedisPurgeList(t)
  BY <1>19, <1>5 DEF RedisPurgeList, history, AfterDelete, Mint, Return, Goto, StartDelete,
         TypeOK
<1> QED
  BY <1>2, <1>3, <1>4, <1>5, <1>6, <1>7, <1>8, <1>9, <1>10, <1>11, <1>12, <1>13, <1>14, <1>15,
         <1>16, <1>17, <1>18, <1>19 DEF Request

\* Every step keeps the joins.
LEMMA NextJoins ==
  ASSUME TypeOK, KnownOK, JoinsOK, [Next]_vars
  PROVE  JoinsOK'
<1>1. CASE CleanerStep
  <2>1. UNCHANGED <<answered, kept, joined, pc, loc>>
    BY <1>1 DEF CleanerStep, Cleanup, RedisList, RedisExists, RedisCard, RedisDrop, history
  <2>2. \A s \in Servers : sessions'[s] # None => sessions'[s] = sessions[s]
    BY <1>1 DEF CleanerStep, Cleanup, RedisList, RedisExists, RedisCard, RedisDrop, CleanSessions
  <2> QED
    BY <2>1, <2>2, QuietJoins
<1>2. ASSUME NEW k \in Tokens, Expire(k) PROVE JoinsOK'
  BY <1>2, QuietJoins DEF Expire, history
<1>3. ASSUME NEW s \in Servers, Age(s) PROVE JoinsOK'
  <2>1. \A x \in Servers : sessions'[x] # None =>
          sessions[x] # None /\ sessions'[x].join = sessions[x].join
    <3>1. sessions[s] \in Session
      BY <1>3 DEF Age, TypeOK
    <3> QED
      BY <1>3, <3>1 DEF Age, DeleteSession, TypeOK, Session
  <2> QED
    BY <1>3, <2>1, QuietJoins DEF Age, history
<1>4. CASE Restart
  <2>1. UNCHANGED <<answered, kept, joined>>
        /\ \A s \in Servers : sessions'[s] # None => sessions'[s] = sessions[s]
    BY <1>4 DEF Restart, history
  <2>2. \A r \in Threads : pc'[r] = "answer" => pc[r] = "answer" /\ loc'[r] = loc[r]
    BY <1>4 DEF Restart
  <2> QED
    BY <2>1, <2>2, QuietJoins
<1>5. CASE UNCHANGED vars
  BY <1>5, QuietJoins DEF vars, history
<1> QED
  BY <1>1, <1>2, <1>3, <1>4, <1>5, RequestJoins DEF Next

-----------------------------------------------------------------------------
(* What revocation leaves.                                                 *)

\* A token that was stored once enters the cache no more.
LEMMA StoredOnce ==
  ASSUME TypeOK, KnownOK, FreshOK, [Next]_vars, NEW k \in stored, Held(k)'
  PROVE  Held(k)
<1>1. ASSUME NEW t \in Threads, Request(t) PROVE Held(k)
  <2>1. entries' \subseteq entries \/ (pc[t] = "store" /\ entries' = entries \cup {StoreKey(loc[t].next)})
    BY <1>1 DEF Request, Authenticate, Store, RedisSet, RedisSAdd, Refresh, Invalidate, Delete,
         RedisSRem, RedisDel, Signout, Purge, RedisSMembers, RedisPurgeOne, RedisPurgeList, Join,
         HasJoined, Answer,
       MemoryStore, FileStore, DatabaseStore, ListFails, Enter, MemoryDelete, FileDelete,
       DatabaseDelete, Remove, Spare, cache
  <2>2. pc[t] = "store" => loc[t].next # k
    BY DEF FreshOK
  <2> QED
    BY <2>1, <2>2 DEF Held, StoreKey
<1>2. CASE CleanerStep
  BY <1>2 DEF CleanerStep, Cleanup, RedisList, RedisExists, RedisCard, RedisDrop, cache,
       Unexpired, Held
<1>3. ASSUME NEW x \in Tokens, Expire(x) PROVE Held(k)
  BY <1>3 DEF Expire, Held
<1>4. ASSUME NEW s \in Servers, Age(s) PROVE Held(k)
  BY <1>4 DEF Age, cache, Held
<1>5. CASE Restart
  BY <1>5 DEF Restart, cache, Held
<1>6. CASE UNCHANGED vars
  BY <1>6 DEF vars, cache, Held
<1> QED
  BY <1>1, <1>2, <1>3, <1>4, <1>5, <1>6 DEF Next

\* Only Delete adds to the deleted tokens, and it takes what it adds out of the cache, the
\* memory cache excepted.
LEMMA DeletedIsOut ==
  ASSUME TypeOK, NEW t \in Threads, Request(t), NEW k \in deleted', k \notin deleted, Held(k)'
  PROVE  backend = "memory"
<1>1. CASE Authenticate(t)
  BY <1>1 DEF Authenticate, Mint, cache, history, TypeOK
<1>2. CASE Store(t)
  BY <1>2 DEF Store, MemoryStore, FileStore, DatabaseStore, ListFails, Enter, Enlist, Hand,
         Return, cache, history, TypeOK
<1>3. CASE RedisSet(t)
  BY <1>3 DEF RedisSet, Enter, Goto, Return, cache, history, TypeOK
<1>4. CASE RedisSAdd(t)
  BY <1>4 DEF RedisSAdd, Enlist, Hand, Return, cache, history, TypeOK
<1>5. CASE Refresh(t)
  BY <1>5 DEF Refresh, StartDelete, Goto, cache, history, TypeOK
<1>6. CASE Invalidate(t)
  BY <1>6 DEF Invalidate, StartDelete, Goto, cache, history, TypeOK
<1>7. CASE Delete(t)
  <2>1. Remove(loc[t].token)
    BY <1>7 DEF Delete, MemoryDelete, FileDelete, DatabaseDelete, Spare, ListFails
  <2> QED
    BY <2>1 DEF Remove, DeleteKey, StoreKey, Held
<1>8. CASE RedisSRem(t)
  BY <1>8 DEF RedisSRem, Unlist, AfterDelete, Mint, Return, Goto, cache, history, TypeOK
<1>9. CASE RedisDel(t)
  <2>1. Remove(loc[t].token)
    BY <1>9 DEF RedisDel, Spare
  <2> QED
    BY <2>1 DEF Remove, DeleteKey, StoreKey, Held
<1>10. CASE Signout(t)
  BY <1>10 DEF Signout, Goto, cache, history, TypeOK
<1>11. CASE Purge(t)
  BY <1>11 DEF Purge, Return, cache, history, TypeOK
<1>12. CASE RedisSMembers(t)
  BY <1>12 DEF RedisSMembers, Goto, Return, cache, history, TypeOK
<1>13. CASE RedisPurgeOne(t)
  BY <1>13 DEF RedisPurgeOne, cache, history, TypeOK
<1>14. CASE RedisPurgeList(t)
  BY <1>14 DEF RedisPurgeList, Unlist, Return, cache, history, TypeOK
<1>15. CASE Join(t)
  BY <1>15 DEF Join, StoreSession, cache, history, TypeOK
<1>16. CASE HasJoined(t)
  BY <1>16 DEF HasJoined, SessionFound, Goto, cache, history, TypeOK
<1>17. CASE Answer(t)
  BY <1>17 DEF Answer, DeleteSession, Return, cache, history, TypeOK
<1> QED
  BY <1>1, <1>2, <1>3, <1>4, <1>5, <1>6, <1>7, <1>8, <1>9, <1>10, <1>11, <1>12, <1>13, <1>14,
         <1>15, <1>16, <1>17 DEF Request

\* On Redis, an id leaves its list with its entry gone or as a dropped one.
LEMMA UnlistedIsDropped ==
  ASSUME TypeOK, backend = "redis", NEW t \in Threads, Request(t), KnownOK,
         NEW u \in Users, NEW k \in index[u], Held(k)
  PROVE  k \in index'[u] \cup dropped'
<1> USE DEF KnownOK, Commands
<1>1. CASE Authenticate(t)
  BY <1>1 DEF Authenticate, Mint, cache, history, TypeOK, Claims
<1>2. CASE Store(t)
  BY <1>2 DEF Store, MemoryStore, FileStore, DatabaseStore, ListFails, Enter, Enlist, Hand,
         Return, cache, history, TypeOK, Claims
<1>3. CASE RedisSet(t)
  BY <1>3 DEF RedisSet, Enter, Goto, Return, cache, history, TypeOK, Claims
<1>4. CASE RedisSAdd(t)
  BY <1>4 DEF RedisSAdd, Enlist, Hand, Return, cache, history, TypeOK, Claims
<1>5. CASE Refresh(t)
  BY <1>5 DEF Refresh, StartDelete, Goto, cache, history, TypeOK, Claims
<1>6. CASE Invalidate(t)
  BY <1>6 DEF Invalidate, StartDelete, Goto, cache, history, TypeOK, Claims
<1>7. CASE Delete(t)
  BY <1>7 DEF Delete, MemoryDelete, FileDelete, Delist, ListFails, DatabaseDelete, Remove,
         Spare, AfterDelete, Mint, Return, cache, history, TypeOK, Claims
<1>8. CASE RedisSRem(t)
  BY <1>8 DEF RedisSRem, Unlist, AfterDelete, Mint, Return, Goto, cache, history, TypeOK, Claims
<1>9. CASE RedisDel(t)
  BY <1>9 DEF RedisDel, Remove, Spare, AfterDelete, Mint, Return, cache, history, TypeOK, Claims
<1>10. CASE Signout(t)
  BY <1>10 DEF Signout, Goto, cache, history, TypeOK, Claims
<1>11. CASE Purge(t)
  BY <1>11 DEF Purge, Return, cache, history, TypeOK, Claims
<1>12. CASE RedisSMembers(t)
  BY <1>12 DEF RedisSMembers, Goto, Return, cache, history, TypeOK, Claims
<1>13. CASE RedisPurgeOne(t)
  BY <1>13 DEF RedisPurgeOne, cache, history, TypeOK, Claims
<1>14. CASE RedisPurgeList(t)
  BY <1>14 DEF RedisPurgeList, Unlist, Return, cache, history, TypeOK, Claims
<1>15. CASE Join(t)
  BY <1>15 DEF Join, StoreSession, cache, history, TypeOK, Claims
<1>16. CASE HasJoined(t)
  BY <1>16 DEF HasJoined, SessionFound, Goto, cache, history, TypeOK, Claims
<1>17. CASE Answer(t)
  BY <1>17 DEF Answer, DeleteSession, Return, cache, history, TypeOK, Claims
<1> QED
  BY <1>1, <1>2, <1>3, <1>4, <1>5, <1>6, <1>7, <1>8, <1>9, <1>10, <1>11, <1>12, <1>13, <1>14,
         <1>15, <1>16, <1>17 DEF Request

\* The same of the cleanup routine, an expiry and a restart.
LEMMA QuietlyUnlisted ==
  ASSUME TypeOK, backend = "redis", KnownOK, NEW u \in Users, NEW k \in index[u], Held(k),
         CleanerStep \/ (\E x \in Tokens : Expire(x)) \/ (\E s \in Servers : Age(s)) \/ Restart
         \/ UNCHANGED vars
  PROVE  k \in index'[u] \cup dropped'
<1> USE DEF KnownOK
<1>1. CASE Cleanup
  BY <1>1 DEF Cleanup
<1>2. CASE RedisList
  BY <1>2 DEF RedisList, cache
<1>3. CASE RedisExists
  BY <1>3 DEF RedisExists, Unlist, TypeOK
<1>4. CASE RedisCard
  BY <1>4 DEF RedisCard, cache
<1>5. CASE RedisDrop
  BY <1>5 DEF RedisDrop, Unlist, TypeOK
<1> QED
  BY <1>1, <1>2, <1>3, <1>4, <1>5 DEF CleanerStep, Expire, Age, Restart, cache, vars

\* On Redis, a token is handed out once its id is in the list of its account.
LEMMA HandedIsListed ==
  ASSUME TypeOK, KnownOK, [Next]_vars, backend = "redis", NEW k \in given', k \notin given
  PROVE  k \in Tokens /\ k \in index'[claims'[k].owner]
<1>1. ~CleanerStep /\ (\A j : ~Expire(j)) /\ (\A s : ~Age(s)) /\ ~Restart /\ ~UNCHANGED vars
  <2>1. ~Cleanup /\ ~RedisList /\ ~RedisExists /\ ~RedisCard /\ ~RedisDrop
    BY DEF Cleanup, RedisList, RedisExists, RedisCard, RedisDrop, history
  <2>2. (\A j : ~Expire(j)) /\ (\A s : ~Age(s)) /\ ~Restart /\ ~UNCHANGED vars
    BY DEF Expire, Age, Restart, vars, history
  <2> QED
    BY <2>1, <2>2 DEF CleanerStep
<1>2. PICK t \in Threads : Request(t)
  BY <1>1 DEF Next
<1>3. RedisSAdd(t)
  <2>1. ~Authenticate(t) /\ ~Refresh(t) /\ ~Invalidate(t) /\ ~Signout(t) /\ ~HasJoined(t)
        /\ ~Answer(t) /\ ~Join(t)
    BY DEF Authenticate, Refresh, Invalidate, Signout, HasJoined, Answer, Join, history
  <2>2. ~Store(t) /\ ~RedisSet(t)
    BY DEF Store, MemoryStore, FileStore, DatabaseStore, RedisSet, history
  <2>3. ~Delete(t) /\ ~RedisSRem(t) /\ ~RedisDel(t)
    BY DEF Delete, RedisSRem, RedisDel, history
  <2>4. ~Purge(t) /\ ~RedisSMembers(t) /\ ~RedisPurgeOne(t) /\ ~RedisPurgeList(t)
    BY DEF Purge, RedisSMembers, RedisPurgeOne, RedisPurgeList, history
  <2> QED
    BY <1>2, <2>1, <2>2, <2>3, <2>4 DEF Request
<1> QED
  BY <1>3 DEF RedisSAdd, Enlist, Hand, KnownOK, Knows, TypeOK, Claims

\* What a Signout that takes a step has still to delete.
LEMMA PurgesOwn ==
  ASSUME TypeOK, KnownOK, RevokedOK, NEW t \in Threads, Request(t), FreshOK,
         pc'[t] = "purgeOne", NEW k \in loc'[t].before, Held(k)'
  PROVE  k \in loc'[t].ids \cup spared' \cup dropped'
<1>1. CASE RedisSMembers(t)
  <2>1. /\ loc' = [loc EXCEPT ![t].ids = index[loc[t].user]]
        /\ UNCHANGED <<entries, dropped>>
    BY <1>1 DEF RedisSMembers, Return, TypeOK, cache
  <2>2. loc'[t].ids = index[loc[t].user] /\ loc'[t].before = loc[t].before
    BY <2>1 DEF TypeOK, Local
  <2>3. k \in given /\ claims[k].owner = loc[t].user /\ backend = "redis"
    BY <1>1, <2>2 DEF RedisSMembers, KnownOK, Knows, Commands
  <2> QED
    BY <2>1, <2>2, <2>3 DEF RevokedOK, Held
<1>2. CASE RedisPurgeOne(t)
  <2>1. PICK x \in loc[t].ids :
          /\ loc' = [loc EXCEPT ![t].ids = @ \ {x}]
          /\ \/ entries' = entries \ {StoreKey(x)} /\ UNCHANGED spared
             \/ spared' = spared \cup {x} /\ UNCHANGED entries
    BY <1>2 DEF RedisPurgeOne
  <2>2. loc'[t].ids = loc[t].ids \ {x} /\ loc'[t].before = loc[t].before
    BY <2>1 DEF TypeOK, Local
  <2>3. k \in loc[t].ids \cup spared \cup dropped /\ (k # x \/ k \in spared')
    BY <1>2, <2>1, <2>2 DEF RedisPurgeOne, RevokedOK, Held, KnownOK, Knows, TypeOK
  <2> QED
    BY <1>2, <2>1, <2>2, <2>3 DEF RedisPurgeOne
<1> QED
  BY <1>1, <1>2 DEF Request, Authenticate, Store, RedisSet, RedisSAdd, Refresh, Invalidate,
       Delete, RedisSRem, RedisDel, Signout, Purge, RedisSMembers, RedisPurgeOne, RedisPurgeList,
       Join, HasJoined, Answer,
     AfterDelete, Mint, Return, Goto, StartDelete, TypeOK

\* A Signout that returns leaves no token it was to delete in the cache, the spared and the
\* dropped ones excepted, and the cache types that delete under another key.
LEMMA SignedOutIsOut ==
  ASSUME TypeOK, KnownOK, RevokedOK, NEW t \in Threads, Request(t),
         NEW k \in signedOut', k \notin signedOut, Held(k)'
  PROVE  backend \in {"memory", "file"} \/ k \in spared' \cup dropped'
<1>1. CASE Purge(t)
  <2>1. /\ entries' = entries \ {SignoutKey(x) : x \in Listed(loc[t].user)}
        /\ k \in loc[t].before
    BY <1>1 DEF Purge
  <2>2. k \in Tokens /\ claims[k] # None /\ claims[k].owner = loc[t].user /\ backend # "redis"
    BY <1>1, <2>1 DEF Purge, KnownOK, Knows, Commands, HistoryOK, TypeOK
  <2>3. CASE backend = "database"
    <3>1. k \in Listed(loc[t].user) /\ SignoutKey(k) = StoreKey(k)
      BY <2>2, <2>3 DEF Listed, SignoutKey
    <3> QED
      BY <2>1, <3>1 DEF Held
  <2> QED
    BY <2>2, <2>3 DEF TypeOK
<1>2. CASE RedisPurgeList(t)
  BY <1>2 DEF RedisPurgeList, Unlist, RevokedOK, Held
<1> QED
  BY <1>1, <1>2 DEF Request, Authenticate, Store, RedisSet, RedisSAdd, Refresh, Invalidate,
       Delete, RedisSRem, RedisDel, Signout, Purge, RedisSMembers, RedisPurgeOne, RedisPurgeList,
       Join, HasJoined, Answer, history

\* Outside the requests nothing is deleted, handed out or signed out.
Quiet ==
  /\ UNCHANGED <<given, deleted, signedOut>>
  /\ \A r \in Threads : (pc'[r] = pc[r] /\ loc'[r] = loc[r]) \/ pc'[r] = "idle"

\* The cleanup routine, an expiry, the age of a session and a restart are such steps.
LEMMA StepsOutside ==
  ASSUME CleanerStep \/ (\E x \in Tokens : Expire(x)) \/ (\E s \in Servers : Age(s)) \/ Restart
         \/ UNCHANGED vars
  PROVE  Quiet
BY DEF Quiet, CleanerStep, Cleanup, RedisList, RedisExists, RedisCard, RedisDrop, Expire, Age,
     Restart,
       vars, history

\* Every step keeps what revocation leaves.
LEMMA NextRevoked ==
  ASSUME TypeOK, KnownOK, FreshOK, RevokedOK, [Next]_vars
  PROVE  RevokedOK'
<1> USE NextGrows
<1>1. (\E t \in Threads : Request(t)) \/ Quiet
  BY StepsOutside DEF Next
<1>2. ASSUME NEW k \in deleted', Held(k)' PROVE backend' = "memory"
  <2>1. CASE k \in deleted
    BY <1>2, <2>1, StoredOnce DEF RevokedOK, KnownOK, HistoryOK, Grows
  <2>2. CASE k \notin deleted
    BY <1>1, <1>2, <2>2, DeletedIsOut DEF Quiet, Grows
  <2> QED
    BY <2>1, <2>2
<1>3. ASSUME NEW k \in given', Held(k)', backend' = "redis"
      PROVE  k \in index'[claims'[k].owner] \cup dropped'
  <2>1. CASE k \in given
    <3>1. k \in Tokens /\ claims[k] \in Claims /\ claims'[k] = claims[k]
      BY <2>1 DEF TypeOK, KnownOK, HistoryOK, Grows
    <3>2. Held(k) /\ backend = "redis"
      BY <1>3, <2>1, StoredOnce DEF KnownOK, HistoryOK, Grows
    <3>3. k \in index[claims[k].owner] \cup dropped
      BY <2>1, <3>2 DEF RevokedOK
    <3>4. claims[k].owner \in Users
      BY <3>1 DEF Claims
    <3>5. CASE k \in index[claims[k].owner]
      BY <3>1, <3>2, <3>4, <3>5, UnlistedIsDropped, QuietlyUnlisted DEF Next
    <3> QED
      BY <3>1, <3>3, <3>5 DEF Grows
  <2>2. CASE k \notin given
    BY <1>3, <2>2, HandedIsListed DEF Grows
  <2> QED
    BY <2>1, <2>2
<1>4. ASSUME NEW r \in Threads, NEW k \in loc'[r].before, pc'[r] = "purgeOne", Held(k)'
      PROVE  k \in loc'[r].ids \cup spared' \cup dropped'
  <2>1. CASE pc'[r] = pc[r] /\ loc'[r] = loc[r]
    <3>1. Held(k)
      BY <1>4, <2>1, StoredOnce DEF KnownOK, Knows, HistoryOK
    <3> QED
      BY <1>4, <2>1, <3>1 DEF RevokedOK, Grows
  <2>2. CASE Request(r)
    BY <1>4, <2>2, PurgesOwn
  <2> QED
    BY <1>1, <1>4, <2>1, <2>2, OthersStay DEF Quiet
<1>5. ASSUME NEW k \in signedOut', Held(k)'
      PROVE  backend' \in {"memory", "file"} \/ k \in spared' \cup dropped'
  <2>1. CASE k \in signedOut
    BY <1>5, <2>1, StoredOnce DEF RevokedOK, KnownOK, HistoryOK, Grows
  <2>2. CASE k \notin signedOut
    BY <1>1, <1>5, <2>2, SignedOutIsOut DEF Quiet, Grows
  <2> QED
    BY <2>1, <2>2
<1> QED
  BY <1>2, <1>3, <1>4, <1>5 DEF RevokedOK

-----------------------------------------------------------------------------
(* The theorems.                                                           *)

\* Every step keeps the inductive invariant.
LEMMA NextInv == Inv /\ [Next]_vars => Inv'
BY NextTyped, NextKnown, NextJoins, NextFresh, NextRevoked DEF Inv

\* The inductive invariant holds: what requests know, joins, stored tokens, revocation.
THEOREM Invariance == Spec => []Inv
<1>1. Init => Inv
  BY InitInv
<1>2. Inv /\ [Next]_vars => Inv'
  BY NextInv
<1> QED
  BY <1>1, <1>2, PTL DEF Spec

\* The caches, the requests' variables and the history have their types.
THEOREM Typed == Spec => []TypeOK
BY Invariance, PTL DEF Inv

\* Whatever the backend, and whatever its requests, failures and restarts: a revoked token
\* is found again for the named reasons only.
THEOREM RevokedStayGone == Spec => []RevokedIsGone
<1>1. Inv => RevokedIsGone
  BY DEF Inv, RevokedOK, RevokedIsGone, Found
<1> QED
  BY <1>1, Invariance, PTL

\* A join HasJoined has answered for is no longer stored.
THEOREM AnsweredStayGone == Spec => []AnsweredIsGone
<1>1. Inv => AnsweredIsGone
  BY DEF Inv, JoinsOK
<1> QED
  BY <1>1, Invariance, PTL

-----------------------------------------------------------------------------
(* LegacyAuth implements TokenPromise.                                     *)

Live == {k \in Tokens : Found(k)}

\* A step that stores no token and adds no entry of a token with claims only ends tokens.
LEMMA EndsTokens ==
  ASSUME stored' = stored, Live' \subseteq Live
  PROVE  [Promise!Next]_(Promise!promise)
<1> DEFINE gone == Live \ Live'
<1>1. Live' = Live \ gone
  OBVIOUS
<1>2. gone \in SUBSET Live
  OBVIOUS
<1>3. \E ks \in SUBSET Live : Live' = Live \ ks /\ stored' = stored
  BY <1>1, <1>2
<1> QED
  BY <1>3 DEF Promise!Next, Promise!Drop, Live

\* Every step issues one token for the first time, or only ends tokens.
LEMMA NextPromise ==
  ASSUME Inv, [Next]_vars
  PROVE  [Promise!Next]_(Promise!promise)
<1> USE NextGrows DEF Inv
<1>1. ASSUME NEW k \in stored, k \in Live' PROVE k \in Live
  <2>1. k \in Tokens /\ claims[k] # None /\ claims'[k] = claims[k]
    BY DEF TypeOK, KnownOK, HistoryOK, Grows
  <2> QED
    BY <1>1, <2>1, StoredOnce DEF Live, Found, JwtValid, Grows
<1>2. Inv'
  BY NextInv
<1>3. Live' \subseteq stored'
  BY <1>2 DEF Live, Found, KnownOK, HistoryOK
<1>4. CASE stored' = stored
  BY <1>1, <1>3, <1>4, EndsTokens
<1>5. CASE stored' # stored
  <2>1. PICK t \in Threads : Request(t)
    BY <1>5, StepsOutside DEF Next, CleanerStep, Cleanup, RedisList, RedisExists, RedisCard,
                              RedisDrop, Expire, Age, Restart, vars, history
  <2>2. pc[t] = "store" /\ stored' = stored \cup {loc[t].next}
    BY <1>5, <2>1, StoresOwn
  <2>3. Store(t) \/ RedisSet(t)
    BY <1>5, <2>1 DEF Request, Authenticate, Store, RedisSet, RedisSAdd, Refresh, Invalidate,
         Delete, RedisSRem, RedisDel, Signout, Purge, RedisSMembers, RedisPurgeOne,
         RedisPurgeList, Join, HasJoined, Answer, history
  <2>4. JwtValid(loc[t].next) /\ entries' = entries \cup {StoreKey(loc[t].next)}
        /\ UNCHANGED <<claims, expired>>
    BY <1>5, <2>3 DEF Store, RedisSet, MemoryStore, FileStore, DatabaseStore, Enter
  <2>5. loc[t].next \in Tokens /\ loc[t].next \notin stored
    BY <2>2 DEF KnownOK, Knows, FreshOK
  <2>6. Live' = Live \cup {loc[t].next}
    BY <2>4, <2>5 DEF Live, Found, Held, JwtValid, StoreKey
  <2> QED
    BY <2>2, <2>5, <2>6 DEF Promise!Next, Promise!Issue, Live
<1> QED
  BY <1>4, <1>5

\* A token is found in one stretch of time, whatever the backend and the interleaving of its
\* commands: the legacy authorization implements the promise of a token store.
THEOREM ImplementsPromise == Spec => KeepsPromise
<1>1. Init => Promise!Init
  BY DEF Init, Promise!Init, Found, Held
<1>2. Inv /\ [Next]_vars => [Promise!Next]_(Promise!promise)
  BY NextPromise
<1> QED
  BY <1>1, <1>2, Invariance, PTL DEF Spec, KeepsPromise, Promise!Spec
=============================================================================
