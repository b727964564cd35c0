----------------------------- MODULE LegacyAuth -----------------------------
(***************************************************************************)
(* Authorization without the shared service: the handlers of               *)
(* src/handlers/{auth,session}.go over a token cache and a session cache.  *)
(* The configuration names the cache: memory, file, redis or database.     *)
(*                                                                         *)
(* A cache operation under the mutex of its process, or in one statement,  *)
(* is one step; the Redis cache has neither, so there a step is one        *)
(* command. A handler makes several operations.                            *)
(***************************************************************************)
EXTENDS Naturals, FiniteSets

CONSTANTS
  Users,        \* accounts of the storage
  Profiles,     \* their players' profiles
  Owner,        \* Owner[p]: the account a profile belongs to
  Clients,      \* client tokens
  Tokens,       \* access tokens (JWTs) that can be issued
  Servers,      \* server ids of join sessions
  Joins,        \* join calls that can be made
  Ips,          \* client addresses
  Threads,      \* requests served at a time
  Settings,     \* pairs of a cache type and the BOUNDs of a behaviour under it: the
                \* tokens and joins it may make, failing cache operations, restarts
  None

ASSUME OwnerAssumption == Owner \in [Profiles -> Users]
ASSUME SettingsAssumption ==
  Settings \subseteq {"memory", "file", "redis", "database"} \X
    [tokens : SUBSET Tokens, joins : SUBSET Joins, faults : Nat, crashes : Nat]
\* What a JWT carries, and a join session.
Claims == [owner : Users, profile : Profiles \cup {None}, client : Clients]
Session == [join : Joins, profile : Profiles, ip : Ips, age : 0 .. 2]

ASSUME NoneAssumption ==
  None \notin UNION {Users, Profiles, Clients, Tokens, Servers, Joins, Ips, Claims, Session}

VARIABLES
  backend,      \* the configured cache type
  claims,       \* claims[k]: owner, profile and client token of an issued JWT
  expired,      \* JWTs whose three days are over
  entries,      \* keys of the token entries in the cache
  index,        \* index[u]: the cache's list of the tokens of u
  sessions,     \* sessions[s]: the join session stored under s
  pc, loc,      \* per request: next step, local variables
  cleaner,      \* the cleanup routine: next step and local variables
  budget,       \* BOUND: what is left of the chosen budget
  given,        \* tokens some client has been handed
  stored,       \* tokens that have been in the cache
  deleted,      \* tokens an Invalidate or a Refresh has deleted
  signedOut,    \* tokens handed out before a Signout that has returned
  spared,       \* tokens a failed operation left undeleted
  dropped,      \* tokens that were live when a list deletion took their id
  answered,     \* joins HasJoined has answered for
  kept,         \* joins whose deletion failed
  joined        \* joins made

cache == <<entries, index>>
history == <<given, stored, deleted, signedOut, spared, dropped, answered, kept, joined>>
vars == <<backend, claims, expired, entries, index, sessions, pc, loc, cleaner,
          budget, history>>

Idle == [token |-> None, next |-> None, user |-> None, ids |-> {}, before |-> {},
         server |-> None, join |-> None, want |-> None]

\* (A slip: every cache deletes as the memory cache does.)
BareKey(k) == <<"bare", k>>

(***************************************************************************)
(* Keys. A token is stored and looked up under "user:tokenID". The memory  *)
(* cache deletes under the bare access token, or the bare id of its list;  *)
(* the file cache deletes all tokens of a user under "yggdrasil-token-" +  *)
(* access token. Lists hold ids (memory, redis) or access tokens (file);   *)
(* the database needs no list.                                             *)
(***************************************************************************)
StoreKey(k) == <<"user:id", k>>

DeleteKey(k) == IF backend = "memory" THEN <<"bare", k>> ELSE StoreKey(k)
SignoutKey(k) == IF backend \in {"memory", "file"} THEN <<"bare", k>> ELSE StoreKey(k)
Key == {"user:id", "bare"} \X Tokens

Held(k) == StoreKey(k) \in entries

\* ValidateJWT
JwtValid(k) == claims[k] # None /\ k \notin expired

\* Get of any cache, then Token.IsValid
Found(k) == JwtValid(k) /\ Held(k)

ProfilesOf(u) == {p \in Profiles : Owner[p] = u}

\* (A slip: no age is too old.)
EndlessSessions == 3

\* The time after which a session entry of the cache is too old, in steps of age:
\* 0 within 30 seconds, 1 within 120, 2 beyond.
SessionLimit == IF backend = "memory" THEN 2 ELSE 1

\* A cache operation fails; the memory cache's never do.
Fault ==
  /\ backend # "memory"
  /\ budget.faults > 0
  /\ budget' = [budget EXCEPT !.faults = @ - 1]
NoFault == UNCHANGED budget

Goto(t, l) == pc' = [pc EXCEPT ![t] = l]
Return(t) == pc' = [pc EXCEPT ![t] = "idle"] /\ loc' = [loc EXCEPT ![t] = Idle]

(***************************************************************************)
(* Authenticate (handlers/auth.go:44) and the second half of Refresh: a    *)
(* new JWT, then the cache's Store, then the answer.                       *)
(***************************************************************************)
\* (A slip: the JWT may repeat an earlier one.)
MintAgain(t, k, c) ==
  /\ claims' = [claims EXCEPT ![k] = c]
  /\ pc' = [pc EXCEPT ![t] = "store"]

Mint(t, k, c) ==
  /\ claims[k] = None
  /\ claims' = [claims EXCEPT ![k] = c]
  /\ pc' = [pc EXCEPT ![t] = "store"]

\* The sole profile is selected, or the one whose name was the login.
Selected(u, login) ==
  IF login # None THEN login
  ELSE IF Cardinality(ProfilesOf(u)) = 1 THEN CHOOSE p \in ProfilesOf(u) : TRUE ELSE None

\* BOUND: a call that may issue a token starts only while a token is left for it.
TokenLeft == Cardinality({k \in budget.tokens : claims[k] = None}) >
         Cardinality({t \in Threads : loc[t].want # None})

Authenticate(t) ==
  /\ pc[t] = "idle"
  /\ TokenLeft
  /\ \E u \in Users, c \in Clients, k \in budget.tokens : \E login \in ProfilesOf(u) \cup {None} :
       /\ Mint(t, k, [owner |-> u, profile |-> Selected(u, login), client |-> c])
       /\ loc' = [loc EXCEPT ![t].next = k]
  /\ UNCHANGED <<backend, expired, cache, sessions, cleaner, budget, history>>

\* Store under the lock of the process: the entry, then the list.
Enter(k) == entries' = entries \cup {StoreKey(k)} /\ stored' = stored \cup {k}
Enlist(k) == index' = [index EXCEPT ![claims[k].owner] = @ \cup {k}]
Hand(k) == given' = given \cup {k}

MemoryStore(k) == backend = "memory" /\ Enter(k) /\ Enlist(k) /\ Hand(k) /\ NoFault

\* A list that could not be written is as it was, or cut off, which counts as empty.
ListFails(k) == Fault /\ index' \in {index, [index EXCEPT ![claims[k].owner] = {}]}

\* The list may not be written after the entry has been: then the call fails.
FileStore(k) ==
  /\ backend = "file"
  /\ Enter(k)
  /\ \/ Enlist(k) /\ Hand(k) /\ NoFault
     \/ ListFails(k) /\ UNCHANGED given

DatabaseStore(k) ==
  backend = "database" /\ Enter(k) /\ Hand(k) /\ NoFault /\ UNCHANGED index

Store(t) ==
  LET k == loc[t].next IN
  /\ pc[t] = "store"
  /\ backend # "redis"
  /\ \/ JwtValid(k) /\ (MemoryStore(k) \/ FileStore(k) \/ DatabaseStore(k))
     \/ /\ Fault \/ (~JwtValid(k) /\ NoFault)
        /\ UNCHANGED <<cache, given, stored>>
  /\ Return(t)
  /\ UNCHANGED <<backend, claims, expired, sessions, cleaner, deleted, signedOut, spared,
                 dropped, answered, kept, joined>>

\* Store of the Redis cache: SET with the token's time to live, then SADD.
RedisSet(t) ==
  LET k == loc[t].next IN
  /\ pc[t] = "store"
  /\ backend = "redis"
  /\ \/ /\ JwtValid(k)
        /\ Enter(k)
        /\ Goto(t, "sadd")
        /\ NoFault
        /\ UNCHANGED loc
     \/ /\ Fault \/ (~JwtValid(k) /\ NoFault)
        /\ Return(t)
        /\ UNCHANGED <<entries, stored>>
  /\ UNCHANGED <<backend, claims, expired, index, sessions, cleaner, given, deleted,
                 signedOut, spared, dropped, answered, kept, joined>>

RedisSAdd(t) ==
  LET k == loc[t].next IN
  /\ pc[t] = "sadd"
  /\ \/ Enlist(k) /\ Hand(k) /\ NoFault
     \/ Fault /\ UNCHANGED <<index, given>>
  /\ Return(t)
  /\ UNCHANGED <<backend, claims, expired, entries, sessions, cleaner, stored, deleted,
                 signedOut, spared, dropped, answered, kept, joined>>

(***************************************************************************)
(* Delete of one token, for Refresh and Invalidate. Both ignore its error. *)
(* An expired JWT is refused before the cache is touched.                  *)
(***************************************************************************)
StartDelete == IF backend = "redis" THEN "srem" ELSE "delete"

\* What follows Delete: nothing for Invalidate (want = None); Refresh checks the
\* profile it was asked to select, and issues the successor.
AfterDelete(t) ==
  LET k == loc[t].token
      c == claims[k]
      want == loc[t].want
  IN
  \/ want = None /\ Return(t) /\ UNCHANGED claims
  \/ /\ want # None
     /\ want # "same" => Owner[want] = c.owner
     /\ \E new \in budget.tokens :
          /\ Mint(t, new, [c EXCEPT !.profile = IF want = "same" THEN c.profile ELSE want])
          /\ loc' = [loc EXCEPT ![t] = [Idle EXCEPT !.next = new]]
  \/ /\ want \in Profiles /\ Owner[want] # c.owner
     /\ Return(t)
     /\ UNCHANGED claims

Remove(k) == entries' = entries \ {DeleteKey(k)} /\ deleted' = deleted \cup {k} /\ UNCHANGED spared
Spare(k) == Fault /\ spared' = spared \cup {k} /\ UNCHANGED <<entries, deleted>>

MemoryDelete(k) == backend = "memory" /\ Remove(k) /\ NoFault /\ UNCHANGED index

Delist(k) == index' = [index EXCEPT ![claims[k].owner] = @ \ {k}]

\* The list first, whose error is ignored, then the entry.
FileDelete(k) ==
  /\ backend = "file"
  /\ JwtValid(k)
  /\ \/ /\ Delist(k)
        /\ (Remove(k) /\ NoFault) \/ Spare(k)
     \/ Remove(k) /\ ListFails(k)

DatabaseDelete(k) == backend = "database" /\ JwtValid(k) /\ Remove(k) /\ NoFault /\ UNCHANGED index

Delete(t) ==
  LET k == loc[t].token IN
  /\ pc[t] = "delete"
  /\ \/ MemoryDelete(k) \/ FileDelete(k) \/ DatabaseDelete(k)
     \/ ~JwtValid(k) /\ NoFault /\ UNCHANGED <<cache, deleted, spared>>
     \/ Spare(k) /\ UNCHANGED index
  /\ AfterDelete(t)
  /\ UNCHANGED <<backend, expired, sessions, cleaner, given, stored, signedOut, dropped,
                 answered, kept, joined>>

\* The list of u loses ids, those of tokens that are still stored among them.
Unlist(u, ks) ==
  /\ index' = [index EXCEPT ![u] = @ \ ks]
  /\ dropped' = dropped \cup {k \in ks \cap index[u] : Held(k)}

\* Delete of the Redis cache: SREM, whose result is ignored, then DEL.
RedisSRem(t) ==
  LET k == loc[t].token IN
  /\ pc[t] = "srem"
  /\ \/ /\ JwtValid(k)
        /\ \/ Unlist(claims[k].owner, {k}) /\ NoFault
           \/ Fault /\ UNCHANGED <<index, dropped>>
        /\ Goto(t, "del")
        /\ UNCHANGED <<claims, loc>>
     \/ /\ ~JwtValid(k)
        /\ AfterDelete(t)
        /\ NoFault /\ UNCHANGED <<index, dropped>>
  /\ UNCHANGED <<backend, expired, entries, sessions, cleaner, given, stored, deleted,
                 signedOut, spared, answered, kept, joined>>

RedisDel(t) ==
  LET k == loc[t].token IN
  /\ pc[t] = "del"
  /\ (Remove(k) /\ NoFault) \/ Spare(k)
  /\ AfterDelete(t)
  /\ UNCHANGED <<backend, expired, index, sessions, cleaner, given, stored, signedOut,
                 dropped, answered, kept, joined>>

(***************************************************************************)
(* Refresh (handlers/auth.go:156), Validate (:290), Invalidate (:322)      *)
(***************************************************************************)
\* The token as the handler gets it; a client token, if sent, must match.
Accepted(k, c) == Found(k) /\ c \in {None, claims[k].client}

Refresh(t) ==
  /\ pc[t] = "idle"
  /\ TokenLeft
  /\ \E k \in given, c \in Clients \cup {None}, p \in Profiles \cup {"same"} :
       /\ Accepted(k, c)
       /\ loc' = [loc EXCEPT ![t] = [Idle EXCEPT !.token = k, !.want = p]]
  /\ Goto(t, StartDelete)
  /\ UNCHANGED <<backend, claims, expired, cache, sessions, cleaner, budget, history>>

Invalidate(t) ==
  /\ pc[t] = "idle"
  /\ \E k \in given : loc' = [loc EXCEPT ![t].token = k]
  /\ Goto(t, StartDelete)
  /\ UNCHANGED <<backend, claims, expired, cache, sessions, cleaner, budget, history>>

(***************************************************************************)
(* Signout (handlers/auth.go:343): the password, then DeleteUserTokens,    *)
(* whose error is ignored.                                                 *)
(***************************************************************************)
Signout(t) ==
  /\ pc[t] = "idle"
  /\ \E u \in Users :
       loc' = [loc EXCEPT ![t].user = u, ![t].before = {k \in given : claims[k].owner = u}]
  /\ Goto(t, IF backend = "redis" THEN "smembers" ELSE "purge")
  /\ UNCHANGED <<backend, claims, expired, cache, sessions, cleaner, budget, history>>

\* The tokens DeleteUserTokens goes through: those of the list, or the rows of the user.
Listed(u) ==
  IF backend = "database" THEN {k \in Tokens : claims[k] # None /\ claims[k].owner = u}
  ELSE index[u]

Purge(t) ==
  LET u == loc[t].user IN
  /\ pc[t] = "purge"
  /\ \/ /\ entries' = entries \ {SignoutKey(k) : k \in Listed(u)}
        /\ index' = [index EXCEPT ![u] = {}]
        /\ signedOut' = signedOut \cup loc[t].before
        /\ NoFault /\ UNCHANGED spared
     \/ /\ Fault
        /\ spared' = spared \cup loc[t].before
        /\ UNCHANGED <<cache, signedOut>>
  /\ Return(t)
  /\ UNCHANGED <<backend, claims, expired, sessions, cleaner, given, stored, deleted,
                 dropped, answered, kept, joined>>

\* DeleteUserTokens of the Redis cache: SMEMBERS, a DEL per id, a DEL of the list.
RedisSMembers(t) ==
  /\ pc[t] = "smembers"
  /\ \/ /\ loc' = [loc EXCEPT ![t].ids = index[loc[t].user]]
        /\ Goto(t, "purgeOne")
        /\ NoFault /\ UNCHANGED spared
     \/ /\ Fault
        /\ spared' = spared \cup loc[t].before
        /\ Return(t)
  /\ UNCHANGED <<backend, claims, expired, cache, sessions, cleaner, given, stored,
                 deleted, signedOut, dropped, answered, kept, joined>>

RedisPurgeOne(t) ==
  /\ pc[t] = "purgeOne"
  /\ \E k \in loc[t].ids :
       /\ loc' = [loc EXCEPT ![t].ids = @ \ {k}]
       /\ \/ entries' = entries \ {StoreKey(k)} /\ NoFault /\ UNCHANGED spared
          \/ Fault /\ spared' = spared \cup {k} /\ UNCHANGED entries
  /\ UNCHANGED <<backend, claims, expired, index, sessions, pc, cleaner, given, stored,
                 deleted, signedOut, dropped, answered, kept, joined>>

RedisPurgeList(t) ==
  /\ pc[t] = "purgeOne" /\ loc[t].ids = {}
  /\ \/ Unlist(loc[t].user, index[loc[t].user]) /\ NoFault
     \/ Fault /\ UNCHANGED <<index, dropped>>
  /\ signedOut' = signedOut \cup loc[t].before
  /\ Return(t)
  /\ UNCHANGED <<backend, claims, expired, entries, sessions, cleaner, given, stored,
                 deleted, spared, answered, kept, joined>>

(***************************************************************************)
(* Join (handlers/session.go:44): the JWT and its profile; the token cache *)
(* is not asked. Then Store of the session cache, under the server id.     *)
(***************************************************************************)
StoreSession(s, session) == sessions' = [sessions EXCEPT ![s] = session]

Join(t) ==
  /\ pc[t] = "idle"
  /\ \E k \in given, s \in Servers, ip \in Ips, j \in budget.joins \ joined :
       /\ JwtValid(k)
       /\ claims[k].profile # None
       /\ \/ /\ StoreSession(s, [join |-> j, profile |-> claims[k].profile, ip |-> ip, age |-> 0])
             /\ joined' = joined \cup {j}
             /\ NoFault
          \/ Fault /\ UNCHANGED <<sessions, joined>>
  /\ UNCHANGED <<backend, claims, expired, cache, pc, loc, cleaner, given, stored,
                 deleted, signedOut, spared, dropped, answered, kept>>

(***************************************************************************)
(* HasJoined (handlers/session.go:97): Get of the session and the checks,  *)
(* then Delete of whatever is stored under the server id by then, whose    *)
(* error is ignored, then the answer.                                      *)
(***************************************************************************)
\* Get of the session cache, then Session.IsValid.
SessionFound(s) ==
  /\ sessions[s] # None
  /\ sessions[s].age < SessionLimit
  /\ sessions[s].age = 0

DeleteSession(s) == sessions' = [sessions EXCEPT ![s] = None]

HasJoined(t) ==
  /\ pc[t] = "idle"
  /\ \E s \in Servers, p \in Profiles, ip \in Ips \cup {None} :
       /\ SessionFound(s)
       /\ sessions[s].profile = p
       /\ ip \in {None, sessions[s].ip}
       /\ loc' = [loc EXCEPT ![t].server = s, ![t].join = sessions[s].join]
  /\ Goto(t, "answer")
  /\ UNCHANGED <<backend, claims, expired, cache, sessions, cleaner, budget, history>>

\* (A slip: the session is not deleted.)
AnswerOnly(t) ==
  /\ pc[t] = "answer"
  /\ answered' = answered \cup {loc[t].join}
  /\ Return(t)
  /\ UNCHANGED <<backend, claims, expired, cache, sessions, cleaner, budget, given, stored,
                 deleted, signedOut, spared, dropped, kept, joined>>

Answer(t) ==
  LET s == loc[t].server
      j == loc[t].join
  IN
  /\ pc[t] = "answer"
  /\ \/ DeleteSession(s) /\ NoFault /\ UNCHANGED kept
     \/ Fault /\ kept' = kept \cup {j} /\ UNCHANGED sessions
  /\ answered' = answered \cup {j}
  /\ Return(t)
  /\ UNCHANGED <<backend, claims, expired, cache, cleaner, given, stored, deleted,
                 signedOut, spared, dropped, joined>>

(***************************************************************************)
(* CleanupExpired of both caches, every five minutes (main.go:287). The    *)
(* memory cache looks for its full keys in lists of bare ids, so its lists *)
(* stay; the file cache and the database drop what has expired.            *)
(***************************************************************************)
CleanIdle == [at |-> "idle", user |-> None, ids |-> {}]

Unexpired == {e \in entries : e[2] \notin expired}

CleanSessions ==
  sessions' = [s \in Servers |->
    IF backend # "redis" /\ sessions[s] # None /\ sessions[s].age >= SessionLimit
    THEN None ELSE sessions[s]]

Cleanup ==
  /\ cleaner.at = "idle"
  /\ backend # "redis"
  /\ entries' = Unexpired
  /\ CleanSessions
  /\ UNCHANGED <<backend, claims, expired, index, pc, loc, cleaner, budget, history>>

\* The Redis cache only tidies the lists. KEYS finds some of them, in any order; each is
\* read with SMEMBERS.
RedisList ==
  /\ cleaner.at = "idle"
  /\ backend = "redis"
  /\ \E u \in Users :
       /\ index[u] # {}
       /\ cleaner' = [at |-> "exists", user |-> u, ids |-> index[u]]
  /\ UNCHANGED <<backend, claims, expired, cache, sessions, pc, loc, budget, history>>

\* EXISTS, then SREM when it is zero, and also when EXISTS failed.
RedisExists ==
  LET u == cleaner.user IN
  /\ cleaner.at = "exists"
  /\ \E k \in cleaner.ids :
       /\ cleaner' = [cleaner EXCEPT !.ids = @ \ {k}]
       /\ \/ Unlist(u, {k} \ {x \in Tokens : Held(x)}) /\ NoFault
          \/ Unlist(u, {k}) /\ Fault
  /\ UNCHANGED <<backend, claims, expired, entries, sessions, pc, loc, given, stored,
                 deleted, signedOut, spared, answered, kept, joined>>

\* SCARD, whose failure counts as zero, and DEL of the list in a step of its own.
RedisCard ==
  /\ cleaner.at = "exists" /\ cleaner.ids = {}
  /\ \/ /\ cleaner' = IF index[cleaner.user] = {} THEN [cleaner EXCEPT !.at = "drop"] ELSE CleanIdle
        /\ NoFault
     \/ /\ Fault
        /\ cleaner' = [cleaner EXCEPT !.at = "drop"]
  /\ UNCHANGED <<backend, claims, expired, cache, sessions, pc, loc, history>>

RedisDrop ==
  /\ cleaner.at = "drop"
  /\ Unlist(cleaner.user, index[cleaner.user])
  /\ cleaner' = CleanIdle
  /\ UNCHANGED <<backend, claims, expired, entries, sessions, pc, loc, budget, given, stored,
                 deleted, signedOut, spared, answered, kept, joined>>

(***************************************************************************)
(* Time and restarts. Redis removes a key when its time to live is over.   *)
(* A restart ends the requests of a node and empties the memory cache;     *)
(* several nodes may share Redis or a database, and then one restarts.     *)
(***************************************************************************)
Expire(k) ==
  /\ JwtValid(k)
  /\ expired' = expired \cup {k}
  /\ entries' = IF backend = "redis" THEN entries \ {StoreKey(k)} ELSE entries
  /\ UNCHANGED <<backend, claims, index, sessions, pc, loc, cleaner, budget, history>>

Age(s) ==
  /\ sessions[s] # None
  /\ sessions[s].age < SessionLimit
  /\ IF backend = "redis" THEN DeleteSession(s) ELSE sessions' = [sessions EXCEPT ![s].age = @ + 1]
  /\ UNCHANGED <<backend, claims, expired, cache, pc, loc, cleaner, budget, history>>

Restart ==
  /\ budget.crashes > 0
  /\ budget' = [budget EXCEPT !.crashes = @ - 1]
  /\ \E ts \in SUBSET Threads :
       /\ backend \in {"memory", "file"} => ts = Threads
       /\ pc' = [t \in Threads |-> IF t \in ts THEN "idle" ELSE pc[t]]
       /\ loc' = [t \in Threads |-> IF t \in ts THEN Idle ELSE loc[t]]
  /\ cleaner' = CleanIdle
  /\ IF backend = "memory"
     THEN /\ entries' = {}
          /\ index' = [u \in Users |-> {}]
          /\ sessions' = [s \in Servers |-> None]
     ELSE UNCHANGED <<cache, sessions>>
  /\ UNCHANGED <<backend, claims, expired, history>>

Init ==
  /\ \E s \in Settings : backend = s[1] /\ budget = s[2]
  /\ claims = [k \in Tokens |-> None]
  /\ expired = {}
  /\ entries = {}
  /\ index = [u \in Users |-> {}]
  /\ sessions = [s \in Servers |-> None]
  /\ pc = [t \in Threads |-> "idle"]
  /\ loc = [t \in Threads |-> Idle]
  /\ cleaner = CleanIdle
  /\ given = {} /\ stored = {} /\ deleted = {} /\ signedOut = {} /\ spared = {} /\ dropped = {}
  /\ answered = {} /\ kept = {} /\ joined = {}

Request(t) ==
  \/ Authenticate(t) \/ Store(t) \/ RedisSet(t) \/ RedisSAdd(t)
  \/ Refresh(t) \/ Invalidate(t) \/ Delete(t) \/ RedisSRem(t) \/ RedisDel(t)
  \/ Signout(t) \/ Purge(t) \/ RedisSMembers(t) \/ RedisPurgeOne(t) \/ RedisPurgeList(t)
  \/ Join(t) \/ HasJoined(t) \/ Answer(t)

CleanerStep == Cleanup \/ RedisList \/ RedisExists \/ RedisCard \/ RedisDrop

Next ==
  \/ \E t \in Threads : Request(t)
  \/ CleanerStep
  \/ \E k \in Tokens : Expire(k)
  \/ \E s \in Servers : Age(s)
  \/ Restart

Spec == Init /\ [][Next]_vars

-----------------------------------------------------------------------------
Local == [token : Tokens \cup {None}, next : Tokens \cup {None}, user : Users \cup {None},
          ids : SUBSET Tokens, before : SUBSET Tokens, server : Servers \cup {None},
          join : Joins \cup {None}, want : Profiles \cup {None, "same"}]
Step == {"idle", "store", "sadd", "delete", "srem", "del", "purge", "smembers", "purgeOne", "answer"}

\* Types of the caches, of the requests' variables and of the history.
TypeOK ==
  /\ backend \in {"memory", "file", "redis", "database"}
  /\ claims \in [Tokens -> Claims \cup {None}]
  /\ expired \subseteq Tokens
  /\ entries \subseteq Key
  /\ index \in [Users -> SUBSET Tokens]
  /\ sessions \in [Servers -> Session \cup {None}]
  /\ pc \in [Threads -> Step]
  /\ loc \in [Threads -> Local]
  /\ cleaner \in [at : {"idle", "exists", "drop"}, user : Users \cup {None},
                  ids : SUBSET Tokens]
  /\ budget \in [tokens : SUBSET Tokens, joins : SUBSET Joins, faults : Nat, crashes : Nat]
  /\ given \subseteq Tokens /\ stored \subseteq Tokens /\ deleted \subseteq Tokens
  /\ signedOut \subseteq Tokens /\ spared \subseteq Tokens /\ dropped \subseteq Tokens
  /\ answered \subseteq Joins /\ kept \subseteq Joins /\ joined \subseteq Joins

(***************************************************************************)
(* A token that was invalidated or refreshed is not found again, and a     *)
(* token handed out before a Signout that has returned is not found again, *)
(* except, for each backend, for the reasons named here: the memory cache  *)
(* deletes under keys it does not store under, the file cache does so when *)
(* it deletes all tokens of a user, the error of a failed deletion is      *)
(* ignored (auth.go:217, 339, 366), and a Redis list may have lost the id  *)
(* of a token that is still stored: to a deletion of the list beside the   *)
(* Store, to a Delete that got no further than its SREM, or to a cleanup   *)
(* whose EXISTS failed (redis/token_cache.go:207, 144, 250, 258).          *)
(***************************************************************************)
RevokedIsGone ==
  /\ \A k \in deleted : Found(k) => backend = "memory" \/ k \in spared
  /\ \A k \in signedOut : Found(k) => backend \in {"memory", "file"} \/ k \in spared \cup dropped

(***************************************************************************)
(* A join HasJoined has answered for is no longer stored, so only calls    *)
(* that had read it before can answer for it again (session.go:180: "one   *)
(* time use"), except when its deletion failed.                            *)
(***************************************************************************)
AnsweredIsGone ==
  \A s \in Servers : sessions[s] # None => sessions[s].join \notin answered \ kept

(***************************************************************************)
(* Whatever the backend, with its commands interleaved, restarts and       *)
(* failures, a token is found in one stretch of time only: what was not    *)
(* found any more is not found again (LegacyAuth implements TokenPromise). *)
(***************************************************************************)
Promise == INSTANCE TokenPromise WITH live <- {k \in Tokens : Found(k)}, seen <- stored

KeepsPromise == Promise!Spec
=============================================================================
