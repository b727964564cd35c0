----------------------------- MODULE SharedAuth -----------------------------
(***************************************************************************)
(* The runtime of src/sharedauth: every client call is one READ COMMITTED  *)
(* transaction on the BlessingSkin database, and several server nodes run  *)
(* such transactions at the same time.  One action is one SQL statement    *)
(* (or a few that nothing can come between); pc[t] names the statement     *)
(* that transaction t executes next.  The environment is the BlessingSkin  *)
(* site that edits users and players under the generation triggers, the    *)
(* operator who opens and closes the gate and resolves blocked identities, *)
(* the clock, and failures.                                                *)
(*                                                                         *)
(* A player's identity row is keyed by pid: UNIQUE(player_id) and          *)
(* UNIQUE(uuid) make pid, identity_id and UUID one-to-one while a player   *)
(* has a row, so a pid also stands for its UUID.                           *)
(***************************************************************************)
EXTENDS RowStore, Integers, FiniteSets

CONSTANTS
    Uid, Pid,            \* accounts and players of BlessingSkin
    Hash,                \* token hashes
    Server, Ip, Client,  \* server ids, client addresses, client tokens
    Name, Email,         \* player names and account e-mails: the two kinds of login
    Password,
    Permission,          \* account permissions, -1 is banned
    Verified,            \* the values of the verified flag
    None,                \* an argument or value that is absent
    RequireVerification, \* the policy of SharedAuthPolicy
    Watermark,           \* player_high_watermark of the state row
    TokenLimit, TokenTTL, SessionTTL, CleanupBatch,
    Calls,               \* the client calls this instance makes
    Environment,         \* the outside actors this instance has
    InitialUsers, InitialPlayers, InitialIdentities,
    MaxTime, MaxGeneration  \* bounds of the clock and of the generations

VARIABLES
    now,    \* UTC_TIMESTAMP(6)
    pc,     \* pc[t]: the next statement of t
    call,   \* call[t]: the arguments of t's call
    loc     \* loc[t]: the Go variables of t's call

vars == <<store, now, pc, call, loc>>
local == <<now, call>>

-----------------------------------------------------------------------------
(* Keys and rows.                                                          *)

Gate == <<"state", 1>>
User(u) == <<"user", u>>
Subject(u) == <<"subject", u>>
Token(h) == <<"token", h>>
Player(p) == <<"player", p>>
Identity(p) == <<"identity", p>>
Session(s) == <<"session", s>>

Row == {Gate}
    \cup {User(u) : u \in Uid} \cup {Subject(u) : u \in Uid}
    \cup {Token(h) : h \in Hash}
    \cup {Player(p) : p \in Pid} \cup {Identity(p) : p \in Pid}
    \cup {Session(s) : s \in Server}

UserRow == [password: Password, permission: Permission, verified: Verified, email: Email]
PlayerRow == [owner: Uid, name: Name]
IdentityState == {"active", "blocked", "retired"}
TokenRow == [owner: Uid, generation: Nat, client: Client, identity: Pid \cup {None},
             created: Nat, expires: Nat]
SessionRow == [token: Hash, ip: Ip, expires: Nat]

Call == [op: {"authenticate", "refresh", "validate", "invalidate", "signout", "join",
              "hasJoined", "cleanup"},
         token: Hash \cup {None}, client: Client \cup {None},
         login: Name \cup Email \cup {None}, password: Password \cup {None},
         selected: Pid \cup {None}, server: Server \cup {None}, ip: Ip \cup {None}]

NoCall == [op |-> "cleanup", token |-> None, client |-> None, login |-> None,
           password |-> None, selected |-> None, server |-> None, ip |-> None]

\* What the handlers check before they begin: the arguments an operation needs are there.
WellFormed(c) ==
    /\ c.op \in {"refresh", "validate", "invalidate", "join"} => c.token \in Hash
    /\ c.op \in {"authenticate", "signout"} =>
          c.login \in Name \cup Email /\ c.password \in Password
    /\ c.op = "authenticate" => c.client \in Client
    /\ c.op = "join" => c.selected \in Pid /\ c.server \in Server /\ c.ip \in Ip
    /\ c.op = "hasJoined" => c.login \in Name /\ c.server \in Server

Local == [uid: Uid \cup {None}, token: Hash \cup {None}, identity: Pid \cup {None},
          profiles: SUBSET Pid]
NoLocal == [uid |-> None, token |-> None, identity |-> None, profiles |-> {}]

ASSUME SharedAuthAssumption ==
    /\ Pid \subseteq Nat \ {0} /\ Watermark \in Nat
    /\ Verified \subseteq BOOLEAN
    /\ Permission \subseteq Int /\ RequireVerification \in BOOLEAN
    /\ TokenLimit \in Nat \ {0} /\ CleanupBatch \in Nat \ {0}
    /\ TokenTTL \in Nat \ {0} /\ SessionTTL \in Nat \ {0}
    /\ MaxTime \in Nat /\ MaxGeneration \in Nat \ {0}
    /\ Calls \subseteq Call /\ \A c \in Calls : WellFormed(c)
    /\ None \notin Uid \cup Pid \cup Hash \cup Client \cup Name \cup Email \cup Password
                   \cup Server \cup Ip
    /\ Name \cap Email = {}
    /\ NoRow \notin UserRow \cup PlayerRow \cup IdentityState \cup TokenRow \cup SessionRow
                    \cup Nat \cup {"active", "staged"}
    /\ InitialUsers \in [Uid -> UserRow]
    /\ InitialPlayers \in [Pid -> PlayerRow \cup {NoRow}]
    /\ InitialIdentities \in [Pid -> IdentityState \cup {NoRow}]

Exists(r) == db[r] # NoRow
Active(p) == db[Identity(p)] = "active"

-----------------------------------------------------------------------------
(* Conditions of the code.                                                 *)

Op(t) == call[t].op
Authorizes(t) == Op(t) \in {"validate", "refresh", "join", "hasJoined"}

\* sharedAccountPolicy.Allowed
Allowed(user) == user.permission # -1 /\ (RequireVerification => user.verified)

MatchesClient(stored, supplied) == supplied = None \/ supplied = stored

\* uniquePlayerName: exactly one player has the name, and it is p.
UniquePlayerName(n, p) == {q \in Pid : Exists(Player(q)) /\ db[Player(q)].name = n} = {p}

\* loginOwner: an e-mail of exactly one account, or the owner of a unique name.
LoginOwner(login, u) ==
    IF login \in Email
    THEN {v \in Uid : Exists(User(v)) /\ db[User(v)].email = login} = {u}
    ELSE \E p \in Pid : UniquePlayerName(login, p) /\ db[Player(p)].owner = u

\* The S oldest members: subsets of n members (all, if fewer) none of which is
\* younger than one left out.  Ties are broken by hash order, any way round here.
Oldest(S, n, age) ==
    {X \in SUBSET S :
        /\ Cardinality(X) = IF Cardinality(S) < n THEN Cardinality(S) ELSE n
        /\ \A x \in X, y \in S \ X : age[x] <= age[y]}

\* (A slip: the generation as committed before t's own INSERT.)
CommittedGeneration(t) == db[Subject(loc[t].uid)]

\* The subject's generation as t reads it, own INSERT included.
Generation(t) == View(t, Subject(loc[t].uid))

\* lockEvictionCandidates: WHERE user_id AND generation AND expires_at>now.
EvictionCandidates(t) ==
    {h \in Hash : /\ Exists(Token(h))
                  /\ db[Token(h)].owner = loc[t].uid
                  /\ db[Token(h)].generation = Generation(t)
                  /\ now < db[Token(h)].expires}

\* (Slips: one victim too few; the newest instead of the oldest.)
TooFewVictims(t) ==
    LET mine == {h \in Hash : Token(h) \in DOMAIN seen[t]}
        n    == Cardinality(mine)
        created == [h \in mine |-> seen[t][Token(h)].created]
    IN  Oldest(mine, IF n < TokenLimit THEN 0 ELSE n - TokenLimit, created)

NewestVictims(t) ==
    LET mine == {h \in Hash : Token(h) \in DOMAIN seen[t]}
        n    == Cardinality(mine)
        youth == [h \in mine |-> 0 - seen[t][Token(h)].created]
    IN  Oldest(mine, IF n < TokenLimit THEN 0 ELSE n - TokenLimit + 1, youth)

\* hashes[:len(hashes)-limit+1] of the locked candidates, if there are limit or more.
Victims(t) ==
    LET mine == {h \in Hash : Token(h) \in DOMAIN seen[t]}
        n    == Cardinality(mine)
        created == [h \in mine |-> seen[t][Token(h)].created]
    IN  Oldest(mine, IF n < TokenLimit THEN 0 ELSE n - TokenLimit + 1, created)

ExpiredTokens == {h \in Hash : Exists(Token(h)) /\ db[Token(h)].expires <= now}

\* (A slip: any session counts as expired.)
SessionPresent(s) == Exists(Session(s))

SessionExpired(s) == Exists(Session(s)) /\ db[Session(s)].expires <= now
ExpiredSessions == {s \in Server : SessionExpired(s)}

PlayersOf(u) == {p \in Pid : Exists(Player(p)) /\ db[Player(p)].owner = u}

\* ensureIdentity inside loginProfiles: only a player above the watermark with no row.
Provisioned(t) == {p \in PlayersOf(loc[t].uid) : ~Exists(Identity(p)) /\ p > Watermark}

\* Cleanup's choice: at most CleanupBatch rows of a table, oldest expiry first.
OldestTokens ==
    LET expires == [h \in ExpiredTokens |-> db[Token(h)].expires]
    IN  Oldest(ExpiredTokens, CleanupBatch, expires)
OldestSessions ==
    LET expires == [s \in ExpiredSessions |-> db[Session(s)].expires]
    IN  Oldest(ExpiredSessions, CleanupBatch, expires)

-----------------------------------------------------------------------------
(* Locking reads.                                                          *)

\* (A slip: a plain SELECT where a lock is needed.)
NoLock(t) == {}

GateLock(t) == {Gate}
UserLock(t) == {User(loc[t].uid)}
SubjectLock(t) == {Subject(loc[t].uid)}
TokenLock(t) == {Token(loc[t].token)}
PlayerLock(t) == {Player(seen[t][Token(loc[t].token)].identity)}
SelectedLock(t) ==
    IF loc[t].identity = None /\ Active(call[t].selected) THEN {Player(call[t].selected)} ELSE {}
ProfileLocks(t) == {Player(p) : p \in PlayersOf(loc[t].uid)}
VictimLocks(t) == {Token(h) : h \in EvictionCandidates(t)}
SessionLock(t) == {Session(call[t].server)}

\* The row of the session as t's INSERT finds it.
Taken(t) == View(t, Session(call[t].server)) # NoRow

\* The rows the next statement of t locks, shared and exclusively.
SharesAt(t) ==
    CASE pc[t] = "begin"         -> GateLock(t)
      [] pc[t] = "lockUser"      -> UserLock(t)
      [] pc[t] = "lockPlayer"    -> PlayerLock(t)
      [] pc[t] = "select"        -> SelectedLock(t)
      [] pc[t] = "loginProfiles" -> ProfileLocks(t)
      [] pc[t] = "insertSession" /\ Taken(t) -> SessionLock(t)
      [] pc[t] = "lockSession"   -> SessionLock(t)
      [] OTHER                   -> {}

LocksAt(t) ==
    CASE pc[t] \in {"lockGeneration", "ensureSubject", "bump"} -> SubjectLock(t)
      [] pc[t] = "lockToken"      -> TokenLock(t)
      [] pc[t] = "lockVictims"    -> VictimLocks(t)
      [] pc[t] = "loginProfiles"  -> {Identity(p) : p \in Provisioned(t)}
      [] pc[t] \in {"clearSession", "compareSession"} -> SessionLock(t)
      [] pc[t] = "insertSession" /\ ~Taken(t) -> SessionLock(t)
      [] pc[t] = "deleteTokens"   -> {Token(h) : h \in UNION OldestTokens}
      [] pc[t] = "deleteSessions" -> {Session(s) : s \in UNION OldestSessions}
      [] OTHER                    -> {}

-----------------------------------------------------------------------------
(* Control.                                                                *)

Goto(t, label) == pc' = [pc EXCEPT ![t] = label]

\* A failed check returns an error, and the deferred Rollback runs next.
Check(t, ok, label) == Goto(t, IF ok THEN label ELSE "fail")

Return(t) ==
    /\ Goto(t, "idle")
    /\ call' = [call EXCEPT ![t] = NoCall]
    /\ loc' = [loc EXCEPT ![t] = NoLocal]

Start(t, c) ==
    /\ pc[t] = "idle"
    /\ call' = [call EXCEPT ![t] = c]
    /\ loc' = [loc EXCEPT ![t].token = c.token]
    /\ Goto(t, IF c.op \in {"authenticate", "signout"} THEN "resolve" ELSE "begin")
    /\ UNCHANGED <<store, now>>

\* credentialSnapshot, outside any transaction: the account of the login ...
Resolve(t) ==
    /\ pc[t] = "resolve"
    /\ \/ \E u \in Uid : /\ LoginOwner(call[t].login, u)
                       /\ loc' = [loc EXCEPT ![t].uid = u]
          /\ Goto(t, "verify") /\ UNCHANGED call
       \/ (\A u \in Uid : ~LoginOwner(call[t].login, u)) /\ Return(t)
    /\ UNCHANGED <<store, now>>

\* ... and its row, with the expensive password check.
Verify(t) ==
    LET user == db[User(loc[t].uid)]
    IN  /\ pc[t] = "verify"
        /\ IF user # NoRow /\ Allowed(user) /\ user.password = call[t].password
           THEN Goto(t, "begin") /\ UNCHANGED <<call, loc>>
           ELSE Return(t)
        /\ UNCHANGED <<store, now>>

\* transact: BEGIN, lock the state row, require the active phase.
Begin(t) ==
    /\ pc[t] = "begin"
    /\ Statement(t, SharesAt(t), {}, NoWrites)
    /\ Check(t, db[Gate] = "active",
             CASE Op(t) \in {"authenticate", "signout"} -> "lockUser"
               [] Op(t) = "hasJoined" -> "findSession"
               [] Op(t) = "cleanup"   -> "deleteTokens"
               [] OTHER               -> "findOwner")
    /\ UNCHANGED <<local, loc>>

\* COMMIT; an acknowledgement that is lost (ErrCommitUnknown) changes no row.
Commit(t) == pc[t] = "commit" /\ CommitTx(t) /\ Return(t) /\ UNCHANGED now

\* (A slip: the deferred Rollback is forgotten and the connection keeps its locks.)
Leak(t) == pc[t] = "fail" /\ Return(t) /\ UNCHANGED <<store, now>>

Rollback(t) == pc[t] = "fail" /\ RollbackTx(t) /\ Return(t) /\ UNCHANGED now

-----------------------------------------------------------------------------
(* authorize, and the parts of it that Invalidate repeats.                 *)

FindOwner(t) ==
    LET token == db[Token(loc[t].token)]
    IN  /\ pc[t] = "findOwner"
        /\ IF token # NoRow
           THEN loc' = [loc EXCEPT ![t].uid = token.owner] /\ Goto(t, "lockUser")
           ELSE UNCHANGED loc /\ Check(t, Op(t) = "invalidate", "commit")
        /\ UNCHANGED <<store, local>>

\* (A slip: the hash verified outside the transaction is not compared again.)
StillAllowed(t, user) == user # NoRow /\ Allowed(user)

\* The hash verified outside the transaction is still the account's (a password stands
\* for its hash: one restored in between is accepted here and, re-hashed, not in the code).
CredentialsHold(t, user) ==
    user # NoRow /\ user.password = call[t].password /\ Allowed(user)

\* lockUser with its callers' checks; Invalidate accepts any user, and none.
LockUser(t) ==
    LET user == db[User(loc[t].uid)]
    IN  /\ pc[t] = "lockUser"
        /\ Statement(t, SharesAt(t), {}, NoWrites)
        /\ \/ Op(t) = "invalidate" /\ Goto(t, "lockGeneration")
           \/ /\ Authorizes(t)
              /\ Check(t, user # NoRow /\ Allowed(user), "lockGeneration")
           \/ /\ Op(t) \in {"authenticate", "signout"}
              /\ Check(t, CredentialsHold(t, user), "checkLogin")
        /\ UNCHANGED <<local, loc>>

LockGeneration(t) ==
    /\ pc[t] = "lockGeneration"
    /\ Statement(t, {}, LocksAt(t), NoWrites)
    /\ Check(t, Exists(Subject(loc[t].uid)), "lockToken")
    /\ UNCHANGED <<local, loc>>

\* (A slip: the generation is not compared.)
AnyGeneration(t, token) ==
    token.owner = loc[t].uid /\ MatchesClient(token.client, call[t].client)

\* The token row must still be the caller's: same owner, current generation, client.
TokenAccepted(t, token) ==
    /\ token.owner = loc[t].uid
    /\ token.generation = Generation(t)
    /\ MatchesClient(token.client, call[t].client)

LockToken(t) ==
    LET token == db[Token(loc[t].token)]
    IN  /\ pc[t] = "lockToken"
        /\ Authorizes(t)
        /\ Statement(t, {}, LocksAt(t), NoWrites)
        /\ Check(t, token # NoRow /\ TokenAccepted(t, token),
                 IF token = NoRow \/ token.identity = None THEN "checkExpiry" ELSE "lockPlayer")
        /\ UNCHANGED <<local, loc>>

\* A bound token needs its player, owned by the token's owner, and an active identity.
LockPlayer(t) ==
    LET p == seen[t][Token(loc[t].token)].identity
    IN  /\ pc[t] = "lockPlayer"
        /\ Statement(t, SharesAt(t), {}, NoWrites)
        /\ loc' = [loc EXCEPT ![t].identity = p]
        /\ Check(t, Exists(Player(p)) /\ Active(p) /\ db[Player(p)].owner = loc[t].uid,
                 "checkExpiry")
        /\ UNCHANGED local

CheckExpiry(t) ==
    /\ pc[t] = "checkExpiry"
    /\ Check(t, now < seen[t][Token(loc[t].token)].expires,
             CASE Op(t) = "validate" -> "commit"
               [] Op(t) = "refresh"  -> IF call[t].selected = None THEN "deleteOld" ELSE "select"
               [] Op(t) = "join"     -> "clearSession"
               [] OTHER              -> "checkName")
    /\ UNCHANGED <<store, local, loc>>

\* Invalidate checks the client only, and deletes.
DeleteInvalidated(t) ==
    LET token == db[Token(loc[t].token)]
        ok    == token = NoRow \/ MatchesClient(token.client, call[t].client)
    IN  /\ pc[t] = "lockToken"
        /\ Op(t) = "invalidate"
        /\ Statement(t, {}, LocksAt(t),
                     IF token # NoRow /\ ok THEN Drop({Token(loc[t].token)}) ELSE NoWrites)
        /\ Check(t, ok, "commit")
        /\ UNCHANGED <<local, loc>>

-----------------------------------------------------------------------------
(* Refresh: bind a profile if one is selected, then replace the token.     *)

Select(t) ==
    LET sel == call[t].selected
        own == loc[t].identity = None /\ Active(sel) /\ Exists(Player(sel))
                 /\ db[Player(sel)].owner = loc[t].uid
    IN  /\ pc[t] = "select"
        /\ Statement(t, SharesAt(t), {}, NoWrites)
        /\ Check(t, own \/ loc[t].identity = sel, "deleteOld")
        /\ loc' = [loc EXCEPT ![t].identity = sel]
        /\ UNCHANGED local

DeleteOld(t) ==
    /\ pc[t] = "deleteOld"
    /\ Statement(t, {}, {}, Drop({Token(loc[t].token)}))
    /\ Goto(t, "issue")
    /\ UNCHANGED <<local, loc>>

\* issueToken: the new row.  Refresh keeps owner, generation and client.
NewToken(t) ==
    [owner |-> loc[t].uid, generation |-> Generation(t),
     client |-> IF Op(t) = "refresh" THEN seen[t][Token(loc[t].token)].client
                ELSE call[t].client,
     identity |-> loc[t].identity, created |-> now, expires |-> now + TokenTTL]

\* (A slip: the old hash, deleted a statement before, is drawn again.)
UnusedHashes(t) == {h \in Hash : View(t, Token(h)) = NoRow}

\* Candidates that neither collide with a stored hash nor repeat the old one.
FreshHashes(t) == {h \in Hash \ {loc[t].token} : View(t, Token(h)) = NoRow}

\* issueToken, and Authenticate's eviction after it.
Issue(t) ==
    /\ pc[t] = "issue"
    /\ \/ \E h \in FreshHashes(t),
             old \in IF Op(t) = "authenticate" THEN Victims(t) ELSE {{}} :
              /\ Statement(t, {}, {}, Over(Put(Token(h), NewToken(t)),
                                          Drop({Token(v) : v \in old})))
              /\ Goto(t, "commit")
       \/ FreshHashes(t) = {} /\ Goto(t, "fail") /\ UNCHANGED store
    /\ UNCHANGED <<local, loc>>

-----------------------------------------------------------------------------
(* Authenticate and Signout.                                               *)

\* checkLoginOwner: the login must still resolve to the locked account.
CheckLogin(t) ==
    /\ pc[t] = "checkLogin"
    /\ Check(t, LoginOwner(call[t].login, loc[t].uid),
             IF Op(t) = "signout" THEN "bump" ELSE "ensureSubject")
    /\ UNCHANGED <<store, local, loc>>

\* INSERT generation 1 ON DUPLICATE KEY UPDATE generation=generation, then lockGeneration.
EnsureSubject(t) ==
    LET s == Subject(loc[t].uid)
    IN  /\ pc[t] = "ensureSubject"
        /\ Statement(t, {}, LocksAt(t), IF Exists(s) THEN NoWrites ELSE Put(s, 1))
        /\ Goto(t, "lockVictims")
        /\ UNCHANGED <<local, loc>>

LockVictims(t) ==
    /\ pc[t] = "lockVictims"
    /\ Statement(t, {}, LocksAt(t), NoWrites)
    /\ Goto(t, "loginProfiles")
    /\ UNCHANGED <<local, loc>>

\* The account's players, with their active identities; missing ones are created.
LoginProfiles(t) ==
    LET new  == Provisioned(t)
        mine == {p \in PlayersOf(loc[t].uid) : Active(p)}
    IN  /\ pc[t] = "loginProfiles"
        /\ Statement(t, SharesAt(t), LocksAt(t), [r \in {Identity(p) : p \in new} |-> "active"])
        /\ loc' = [loc EXCEPT ![t].profiles = mine \cup new]
        /\ Goto(t, "bind")
        /\ UNCHANGED local

\* An e-mail login is bound to the only profile, a name login to the named player's.
BindLogin(t) ==
    LET login    == call[t].login
        profiles == loc[t].profiles
        Named(p) == UniquePlayerName(login, p) /\ db[Player(p)].owner = loc[t].uid
    IN  /\ pc[t] = "bind"
        /\ \/ /\ login \in Email
              /\ loc' = [loc EXCEPT ![t].profiles = {},
                            ![t].identity = IF \E p \in profiles : profiles = {p}
                                            THEN CHOOSE p \in profiles : TRUE ELSE None]
              /\ Goto(t, "issue")
           \/ /\ login \notin Email
              /\ \E p \in profiles : /\ Named(p)
                                     /\ loc' = [loc EXCEPT ![t].profiles = {},
                                                          ![t].identity = p]
              /\ Goto(t, "issue")
           \/ /\ login \notin Email /\ \A p \in profiles : ~Named(p)
              /\ Goto(t, "fail") /\ UNCHANGED loc
        /\ UNCHANGED <<store, local>>

\* (A slip: ON DUPLICATE KEY UPDATE generation = 1.)
FirstGeneration(u) == 1

NextGeneration(u) == IF Exists(Subject(u)) THEN db[Subject(u)] + 1 ELSE 1

\* Signout revokes by generation; the bound of the model is an SQL error here.
Bump(t) ==
    LET u == loc[t].uid
    IN  /\ pc[t] = "bump"
        /\ \/ /\ NextGeneration(u) <= MaxGeneration
              /\ Statement(t, {}, LocksAt(t), Put(Subject(u), NextGeneration(u)))
              /\ Goto(t, "commit")
           \/ /\ NextGeneration(u) > MaxGeneration
              /\ Goto(t, "fail") /\ UNCHANGED store
        /\ UNCHANGED <<local, loc>>

-----------------------------------------------------------------------------
(* Join and HasJoined.                                                     *)

NewSession(t) == [token |-> loc[t].token, ip |-> call[t].ip, expires |-> now + SessionTTL]

\* The selected profile must be the token's.  DELETE the session if it has expired: the
\* statement waits for the row, but keeps no lock on one that has not expired.
ClearSession(t) ==
    LET s == Session(call[t].server)
    IN  /\ pc[t] = "clearSession"
        /\ \/ /\ loc[t].identity # None /\ loc[t].identity = call[t].selected
              /\ CanLock(t, LocksAt(t))
              /\ IF SessionExpired(call[t].server) THEN Statement(t, {}, {}, Drop({s}))
                                                  ELSE UNCHANGED store
              /\ Goto(t, "insertSession")
           \/ /\ loc[t].identity = None \/ loc[t].identity # call[t].selected
              /\ Goto(t, "fail") /\ UNCHANGED store
        /\ UNCHANGED <<local, loc>>

\* INSERT; on a duplicate key InnoDB leaves a shared lock on the existing row.
InsertSession(t) ==
    LET s == Session(call[t].server)
    IN  /\ pc[t] = "insertSession"
        /\ \/ /\ ~Taken(t)
              /\ Statement(t, {}, LocksAt(t), Put(s, NewSession(t)))
              /\ Goto(t, "commit")
           \/ /\ Taken(t)
              /\ Statement(t, SharesAt(t), {}, NoWrites)
              /\ Goto(t, "compareSession")
        /\ UNCHANGED <<local, loc>>

\* SELECT ... FOR UPDATE of the existing binding: only an identical one is accepted.
CompareSession(t) ==
    LET s == Session(call[t].server)
    IN  /\ pc[t] = "compareSession"
        /\ Statement(t, {}, LocksAt(t), NoWrites)
        /\ Check(t, Exists(s) /\ db[s].token = loc[t].token /\ db[s].ip = call[t].ip, "commit")
        /\ UNCHANGED <<local, loc>>

\* (A slip: the first read of the session locks it, before the user and the subject.)
FindSessionForShare(t) ==
    LET s == Session(call[t].server)
    IN  /\ pc[t] = "findSession"
        /\ Statement(t, SessionLock(t), {}, NoWrites)
        /\ Check(t, Exists(s), "findOwner")
        /\ loc' = [loc EXCEPT ![t].token = IF Exists(s) THEN db[s].token ELSE None]
        /\ UNCHANGED local

\* HasJoined starts from a plain read of the session's token ...
FindSession(t) ==
    LET s == Session(call[t].server)
    IN  /\ pc[t] = "findSession"
        /\ Check(t, Exists(s), "findOwner")
        /\ loc' = [loc EXCEPT ![t].token = IF Exists(s) THEN db[s].token ELSE None]
        /\ UNCHANGED <<store, local>>

\* ... authorizes it, requires the name to be the bound player's ...
CheckName(t) ==
    /\ pc[t] = "checkName"
    /\ Check(t, loc[t].identity # None /\ UniquePlayerName(call[t].login, loc[t].identity),
             "lockSession")
    /\ UNCHANGED <<store, local, loc>>

\* (A slip: the token of the locked session is not compared with the authorized one.)
SessionOpen(t, s) == s # NoRow /\ now < s.expires /\ call[t].ip \in {None, s.ip}

SessionAccepted(t, s) ==
    /\ s # NoRow /\ s.token = loc[t].token
    /\ now < s.expires /\ now < seen[t][Token(loc[t].token)].expires
    /\ call[t].ip \in {None, s.ip}

\* ... and reads the session again under a lock.
LockSession(t) ==
    LET s == db[Session(call[t].server)]
    IN  /\ pc[t] = "lockSession"
        /\ Statement(t, SharesAt(t), {}, NoWrites)
        /\ Check(t, SessionAccepted(t, s), "commit")
        /\ UNCHANGED <<local, loc>>

-----------------------------------------------------------------------------
(* CleanupExpired: at most CleanupBatch rows of each table, oldest first.  *)

DeleteTokens(t) ==
    /\ pc[t] = "deleteTokens"
    /\ \E X \in OldestTokens : Statement(t, {}, {}, Drop({Token(h) : h \in X}))
    /\ Goto(t, "deleteSessions")
    /\ UNCHANGED <<local, loc>>

DeleteSessions(t) ==
    /\ pc[t] = "deleteSessions"
    /\ \E X \in OldestSessions : Statement(t, {}, {}, Drop({Session(s) : s \in X}))
    /\ Goto(t, "commit")
    /\ UNCHANGED <<local, loc>>

-----------------------------------------------------------------------------
(* Failures.  A lost connection, a timeout or a refused COMMIT ends a      *)
(* transaction with a rollback; InnoDB does the same to a deadlock victim. *)

SqlError(t) ==
    /\ "errors" \in Environment
    /\ \/ pc[t] \in {"resolve", "verify"} /\ Return(t)
       \/ pc[t] \notin {"idle", "resolve", "verify", "fail"}
             /\ Goto(t, "fail") /\ UNCHANGED <<call, loc>>
    /\ UNCHANGED <<store, now>>

WaitsFor(t, o) ==
    /\ o # t
    /\ SharesAt(t) \cap excl[o] # {} \/ LocksAt(t) \cap DOMAIN seen[o] # {}

\* Every member waits for one member and is waited for by one.
Deadlock(C) == \A t \in C : (\E o \in C : WaitsFor(t, o)) /\ (\E o \in C : WaitsFor(o, t))

AbortVictim(t) ==
    /\ \E C \in SUBSET Tx : t \in C /\ Deadlock(C)
    /\ Goto(t, "fail")
    /\ UNCHANGED <<store, local, loc>>

-----------------------------------------------------------------------------
(* The BlessingSkin site.                                                  *)

\* An account edit; the trigger of 006 bumps the generation, of a password or a permission.
UpdateUser(u, row) ==
    LET old     == db[User(u)]
        revokes == old.password # row.password \/ old.permission # row.permission
    IN  /\ "users" \in Environment
        /\ Exists(User(u)) /\ row # old
        /\ revokes => NextGeneration(u) <= MaxGeneration
        /\ AutoCommit(Over(Put(User(u), row),
                           IF revokes THEN Put(Subject(u), NextGeneration(u)) ELSE NoWrites))
        /\ UNCHANGED <<local, pc, loc>>

\* The trigger of 007.
DeleteUser(u) ==
    /\ "users" \in Environment
    /\ Exists(User(u))
    /\ NextGeneration(u) <= MaxGeneration
    /\ AutoCommit(Over(Drop({User(u)}), Put(Subject(u), NextGeneration(u))))
    /\ UNCHANGED <<local, pc, loc>>

\* A player is renamed, transferred, deleted or created; a pid is not used again.
SetPlayer(p, row) ==
    /\ "players" \in Environment
    /\ row # db[Player(p)]
    /\ ~Exists(Player(p)) => ~Exists(Identity(p))
    /\ row # NoRow => Exists(User(row.owner))
    /\ AutoCommit(Put(Player(p), row))
    /\ UNCHANGED <<local, pc, loc>>

-----------------------------------------------------------------------------
(* The operator: the gate, and resolution plans, which keep it locked.     *)

Deactivate ==
    /\ "gate" \in Environment /\ db[Gate] = "active"
    /\ AutoCommit(Put(Gate, "staged"))
    /\ UNCHANGED <<local, pc, loc>>

\* Both commands that open the gate also verify the rows of their plan; here the gate may
\* be opened whenever it is staged, so every state they allow is reached, and more.
Activate ==
    /\ "gate" \in Environment /\ db[Gate] = "staged"
    /\ AutoCommit(Put(Gate, "active"))
    /\ UNCHANGED <<local, pc, loc>>

\* (A slip: references are not looked for.)
MaybeReferenced(p) == TRUE

\* ensureNoLiveReferences: no token (nor, through its token, a session) uses p's identity.
Unreferenced(p) == \A h \in Hash : Exists(Token(h)) => db[Token(h)].identity # p

\* A reviewed blocked identity becomes active, or is blocked again.
Reidentify(p, from, to) ==
    /\ "resolution" \in Environment /\ db[Gate] = "staged"
    /\ InitialIdentities[p] = "blocked"
    /\ db[Identity(p)] = from
    /\ Unreferenced(p)
    /\ AutoCommit(Over(Put(Identity(p), to), Put(Gate, db[Gate])))
    /\ UNCHANGED <<local, pc, loc>>

ResolveIdentity(p) == Reidentify(p, "blocked", "active")
RollbackIdentity(p) == Reidentify(p, "active", "blocked")

Tick ==
    /\ "time" \in Environment /\ now < MaxTime
    /\ now' = now + 1
    /\ UNCHANGED <<store, pc, call, loc>>

-----------------------------------------------------------------------------
Init ==
    /\ StoreInit([r \in Row |->
           CASE r = Gate            -> "active"
             [] r[1] = "user"       -> InitialUsers[r[2]]
             [] r[1] = "player"     -> InitialPlayers[r[2]]
             [] r[1] = "identity"   -> InitialIdentities[r[2]]
             [] OTHER               -> NoRow])
    /\ now = 0
    /\ pc = [t \in Tx |-> "idle"]
    /\ call = [t \in Tx |-> NoCall]
    /\ loc = [t \in Tx |-> NoLocal]

Authorize(t) ==
    FindOwner(t) \/ LockUser(t) \/ LockGeneration(t) \/ LockToken(t) \/ LockPlayer(t) \/ CheckExpiry(t)
AuthenticateOrSignout(t) ==
    Resolve(t) \/ Verify(t) \/ CheckLogin(t) \/ EnsureSubject(t) \/ LockVictims(t)
        \/ LoginProfiles(t) \/ BindLogin(t) \/ Issue(t) \/ Bump(t)
RefreshOrInvalidate(t) == Select(t) \/ DeleteOld(t) \/ DeleteInvalidated(t)
JoinOrHasJoined(t) ==
    ClearSession(t) \/ InsertSession(t) \/ CompareSession(t) \/ FindSession(t) \/ CheckName(t)
        \/ LockSession(t)
Cleanup(t) == DeleteTokens(t) \/ DeleteSessions(t)

\* The steps a transaction takes of its own accord.
Step(t) ==
    Begin(t) \/ Authorize(t) \/ AuthenticateOrSignout(t) \/ RefreshOrInvalidate(t)
        \/ JoinOrHasJoined(t) \/ Cleanup(t) \/ Commit(t) \/ Rollback(t)

Next ==
    \/ \E t \in Tx : (\E c \in Calls : Start(t, c)) \/ Step(t) \/ SqlError(t) \/ AbortVictim(t)
    \/ \E u \in Uid : DeleteUser(u) \/ \E row \in UserRow : UpdateUser(u, row)
    \/ \E p \in Pid : \/ ResolveIdentity(p) \/ RollbackIdentity(p)
                      \/ \E row \in PlayerRow \cup {NoRow} : SetPlayer(p, row)
    \/ Deactivate \/ Activate \/ Tick

Spec == Init /\ [][Next]_vars

\* InnoDB grants locks in the order of the requests and ends deadlocks at once, so a
\* statement that is possible again and again is executed.
Fairness ==
    /\ \A t \in Tx : SF_vars(Step(t))
    /\ WF_vars(\E t \in Tx : AbortVictim(t))

FairSpec == Spec /\ Fairness

-----------------------------------------------------------------------------
(* Properties.                                                             *)

Values(r) ==
    CASE r = Gate            -> {"active", "staged"}
      [] r[1] = "user"       -> UserRow
      [] r[1] = "subject"    -> Nat \ {0}
      [] r[1] = "token"      -> TokenRow
      [] r[1] = "player"     -> PlayerRow
      [] r[1] = "identity"   -> IdentityState
      [] r[1] = "session"    -> SessionRow

Rows(f) == DOMAIN f \subseteq Row /\ \A r \in DOMAIN f : f[r] \in Values(r) \cup {NoRow}

StoreTypeOK ==
    /\ StoreShape
    /\ DOMAIN db = Row /\ Rows(db)
    /\ \A t \in Tx : Rows(seen[t]) /\ Rows(buf[t])

\* Every row has the type of its table, in the committed data, in the buffered writes and in
\* what a transaction has read; every Go variable has its type.
TypeOK ==
    /\ StoreTypeOK
    /\ now \in Nat
    /\ DOMAIN pc = Tx /\ call \in [Tx -> Call] /\ loc \in [Tx -> Local]

Stored == {h \in Hash : Exists(Token(h))}

\* The token has its owner's generation: it is not revoked.
Current(h) ==
    /\ Exists(Token(h)) /\ Exists(Subject(db[Token(h)].owner))
    /\ db[Token(h)].generation = db[Subject(db[Token(h)].owner)]

Live(h) == Current(h) /\ now < db[Token(h)].expires
LiveOf(u) == {h \in Hash : Live(h) /\ db[Token(h)].owner = u}

Owns(u, p) == Exists(Player(p)) /\ db[Player(p)].owner = u
Commits(t) == pc[t] = "commit" /\ pc'[t] = "idle"

\* No check of authorize (auth.go:288) is stale when it counts: as long as a Validate,
\* Refresh, Join or HasJoined that passed can commit, the token it authorized is still the
\* caller's and not revoked, the account is still allowed, and the player the token is bound
\* to is still the account's and has an active identity, whatever the site and other nodes do.
AuthorizedAtCommit ==
    \A t \in Tx : pc[t] = "commit" /\ Authorizes(t) =>
        LET h == loc[t].token
            u == loc[t].uid
            p == loc[t].identity
        IN  /\ Current(h) /\ db[Token(h)].owner = u
            /\ MatchesClient(db[Token(h)].client, call[t].client)
            /\ Exists(User(u)) /\ Allowed(db[User(u)])
            /\ db[Token(h)].identity \in {None, p}
            /\ p # None => Owns(u, p) /\ Active(p)

\* The password was checked outside the transaction (authenticate.go:28-34, auth.go:135-141);
\* when Authenticate or Signout can commit it is still the account's password, the account
\* is allowed, and a name login is bound to a player of the account that has that name.
LoginHolds ==
    \A t \in Tx : pc[t] = "commit" /\ Op(t) \in {"authenticate", "signout"} =>
        LET u == loc[t].uid
            p == loc[t].identity
        IN  /\ Exists(User(u)) /\ Allowed(db[User(u)])
            /\ db[User(u)].password = call[t].password
            /\ p # None => Owns(u, p) /\ View(t, Identity(p)) = "active"
            /\ Op(t) = "authenticate" /\ call[t].login \in Name =>
                  p # None /\ db[Player(p)].name = call[t].login

\* A Refresh that commits takes the old token, which was still stored, out of use and stores
\* exactly one other for the same account, generation and client, with the same binding or,
\* for an unbound token, the selected profile (auth.go:33-92): of two Refreshes of one token
\* at most one succeeds.
RefreshReplaces ==
    [][\A t \in Tx : Commits(t) /\ Op(t) = "refresh" =>
        LET old == loc[t].token
        IN  /\ old \in Stored
            /\ \E new \in Hash \ Stored :
                  LET was == db[Token(old)]
                      is  == db'[Token(new)]
                  IN  /\ Stored' = (Stored \ {old}) \cup {new}
                      /\ is.owner = was.owner /\ is.client = was.client
                      /\ is.generation = was.generation
                      /\ is.identity = IF was.identity = None THEN call[t].selected
                                                             ELSE was.identity]_vars

\* A live token disappears only by its own Refresh or Invalidate, or because its owner logs in
\* at the limit; then every live token of the owner that stays is at least as new
\* (lockEvictionCandidates, authenticate.go:119-142).
EvictsOldest ==
    [][\A h \in Hash : Live(h) /\ h \notin Stored' =>
        \E t \in Tx :
            /\ Commits(t)
            /\ \/ Op(t) \in {"refresh", "invalidate"} /\ loc[t].token = h
               \/ /\ Op(t) = "authenticate" /\ loc[t].uid = db[Token(h)].owner
                  /\ Cardinality(LiveOf(loc[t].uid)) >= TokenLimit
                  /\ \A k \in LiveOf(loc[t].uid) :
                        k \in Stored' => db[Token(k)].created >= db[Token(h)].created]_vars

\* An account never has more than TokenLimit live tokens, although several nodes log it in and
\* refresh its tokens at once (the subject lock of authenticate.go:53-57).
TokenLimitHolds == \A u \in Uid : Cardinality(LiveOf(u)) <= TokenLimit

\* The account signs out, changes its password or permission, or is deleted.
Revokes(u) ==
    \/ \E t \in Tx : Commits(t) /\ Op(t) = "signout" /\ loc[t].uid = u
    \/ /\ Exists(User(u))
       /\ \/ db'[User(u)] = NoRow
          \/ db'[User(u)].password # db[User(u)].password
          \/ db'[User(u)].permission # db[User(u)].permission

\* Revocation is complete and final: it leaves none of the account's stored tokens current, one
\* being refreshed at that time included, and a token that is not current never is again
\* (auth.go:154, migrations 006 and 007); nor does a stored hash get another row.
RevokedForGood ==
    [][\A h \in Stored : /\ ~Current(h) \/ Revokes(db[Token(h)].owner) => ~Current(h)'
                         /\ h \in Stored' => db'[Token(h)] = db[Token(h)]]_vars

\* While the gate is closed no transaction is past its check of the phase (service.go:112-122):
\* closing it waits for the calls that passed, so what follows is quiet.
GateQuiet ==
    db[Gate] # "active" => \A t \in Tx : pc[t] \in {"idle", "resolve", "verify", "begin", "fail"}

\* A stored token, and one that is about to be, is bound to an active identity only, although
\* identities are blocked again by resolution rollbacks (resolutionplan/apply.go:160-256).
TokenIdentityActive ==
    \A h \in Hash :
        /\ Exists(Token(h)) /\ db[Token(h)].identity # None => Active(db[Token(h)].identity)
        /\ \A t \in Tx : LET token == View(t, Token(h))
                        IN  token # NoRow /\ token.identity # None =>
                                View(t, Identity(token.identity)) = "active"

\* An unexpired join session is neither overwritten, extended nor deleted (auth.go:180-197).
SessionKept ==
    [][\A s \in Server : Exists(Session(s)) /\ now < db[Session(s)].expires =>
                             db'[Session(s)] = db[Session(s)]]_vars

\* When HasJoined can commit, the session is the one it authorized, from the address given,
\* and the player the token is bound to still has the name asked for (auth.go:202-248).
JoinedNow ==
    \A t \in Tx : pc[t] = "commit" /\ Op(t) = "hasJoined" =>
        LET s == db[Session(call[t].server)]
            p == db[Token(loc[t].token)].identity
        IN  /\ s # NoRow /\ s.token = loc[t].token /\ call[t].ip \in {None, s.ip}
            /\ p # None /\ db[Player(p)].name = call[t].login

\* The lock order (state, user, subject, token, player, identity, session) leaves one way to
\* deadlock: Joins of one server id that found its session taken (auth.go:184-190) and
\* hold the shared lock of a duplicate key while they ask for the exclusive one.
OnlyJoinsDeadlock ==
    \A C \in SUBSET Tx : Deadlock(C) => \A t \in C : pc[t] = "compareSession"

\* The tables as AuthPromise has them.
Promise == INSTANCE AuthPromise WITH
    gate <- db[Gate],
    user <- [u \in Uid |-> db[User(u)]],
    generation <- [u \in Uid |-> db[Subject(u)]],
    player <- [p \in Pid |-> db[Player(p)]],
    identity <- [p \in Pid |-> db[Identity(p)]],
    token <- [h \in Hash |-> db[Token(h)]],
    session <- [s \in Server |-> db[Session(s)]]

\* A call of many statements acts as one: when it commits, all it changes is what its operation
\* may change, on conditions that hold of the rows then, and not only when it read them
\* (transact, service.go:96-135, and the operations of auth.go and authenticate.go).
TakesEffectAtOnce == Promise!Spec

\* Every call returns: lock waits and deadlocks end.
CallsReturn == \A t \in Tx : pc[t] # "idle" ~> pc[t] = "idle"

=============================================================================
