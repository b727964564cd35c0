--------------------------- MODULE SharedAuthInv ---------------------------
(***************************************************************************)
(* What a transaction of SharedAuth knows at each statement: the inductive *)
(* invariants behind its properties, each a strengthening of the one       *)
(* before.                                                                 *)
(*                                                                         *)
(*   Inductive  what the checks it passed found in the rows it has locked; *)
(*              StoreInv carries that over to the committed rows.  Only    *)
(*              the state of an identity is known without a lock on its    *)
(*              row: it cannot change because the gate is locked.          *)
(*   Strong     the order of its locks, what its calls have read and what  *)
(*              they may write.                                            *)
(*   Limited    how many live tokens its account has, or will have.        *)
(*   Exact      what its operation writes, no more and no less.            *)
(***************************************************************************)
EXTENDS SharedAuth

Outside == {"idle", "resolve", "verify", "begin", "fail"}
Unauthorized == Outside \cup {"findSession", "findOwner", "lockUser"}

\* Which operations reach which statement.
Route(t) ==
    /\ pc[t] \in {"resolve", "verify", "checkLogin"} => Op(t) \in {"authenticate", "signout"}
    /\ pc[t] \in {"ensureSubject", "lockVictims", "loginProfiles", "bind"} =>
          Op(t) = "authenticate"
    /\ pc[t] = "bump" => Op(t) = "signout"
    /\ pc[t] = "issue" => Op(t) \in {"authenticate", "refresh"}
    /\ pc[t] \in {"select", "deleteOld"} => Op(t) = "refresh"
    /\ pc[t] = "select" => call[t].selected # None
    /\ pc[t] \in {"clearSession", "insertSession", "compareSession"} => Op(t) = "join"
    /\ pc[t] \in {"findSession", "checkName", "lockSession"} => Op(t) = "hasJoined"
    /\ pc[t] \in {"deleteTokens", "deleteSessions"} => Op(t) = "cleanup"
    /\ pc[t] \in {"lockPlayer", "checkExpiry"} => Authorizes(t)
    /\ pc[t] \in {"findOwner", "lockGeneration", "lockToken"} =>
          Authorizes(t) \/ Op(t) = "invalidate"
    /\ pc[t] = "lockUser" => Op(t) # "cleanup"

\* Which Go variables have been set.
Arguments(t) ==
    /\ WellFormed(call[t])
    /\ pc[t] = "idle" => loc[t] = NoLocal
    /\ Op(t) \in {"authenticate", "signout"} /\ pc[t] \notin {"idle", "resolve"} =>
          loc[t].uid \in Uid
    /\ pc[t] \in {"lockUser", "lockGeneration", "lockToken"} => loc[t].uid \in Uid
    /\ pc[t] \in {"findOwner", "lockGeneration", "lockToken"} => loc[t].token \in Hash
    /\ pc[t] = "lockUser" /\ Op(t) \notin {"authenticate", "signout"} => loc[t].token \in Hash
    /\ pc[t] \in {"begin", "findSession"} /\ Op(t) \in {"refresh", "validate", "invalidate", "join"}
          => loc[t].token \in Hash

GateRead(t) == Gate \in DOMAIN seen[t] /\ seen[t][Gate] = "active"

UserRead(t) ==
    LET r == User(loc[t].uid)
    IN  loc[t].uid \in Uid /\ r \in DOMAIN seen[t] /\ seen[t][r] # NoRow /\ Allowed(seen[t][r])

SubjectRead(t) ==
    LET r == Subject(loc[t].uid)
    IN  r \in DOMAIN seen[t] /\ seen[t][r] # NoRow

TokenRead(t) ==
    LET r     == Token(loc[t].token)
        token == seen[t][r]
    IN  /\ loc[t].token \in Hash /\ r \in DOMAIN seen[t] /\ token # NoRow
        /\ token.owner = loc[t].uid
        /\ token.generation = seen[t][Subject(loc[t].uid)]
        /\ MatchesClient(token.client, call[t].client)

PlayerRead(t) ==
    LET p == loc[t].identity
        r == Player(p)
    IN  /\ seen[t][Token(loc[t].token)].identity \in {None, p}
        /\ p # None => /\ p \in Pid /\ Active(p)
                       /\ r \in DOMAIN seen[t] /\ seen[t][r] # NoRow
                       /\ seen[t][r].owner = loc[t].uid

\* Authenticate's subject: its own INSERT, or a row it has locked.
SubjectEnsured(t) ==
    LET r == Subject(loc[t].uid)
    IN  r \in DOMAIN seen[t] /\ (r \in DOMAIN buf[t] \/ seen[t][r] # NoRow)

\* What has been written: nothing before BEGIN, no generation by an authorized call, no
\* deletion of a subject, and only active identities.
WritesOf(t) ==
    /\ pc[t] \in {"idle", "resolve", "verify", "begin"} => DOMAIN buf[t] = {}
    /\ Authorizes(t) => \A u \in Uid : Subject(u) \notin DOMAIN buf[t]
    /\ \A u \in Uid : Subject(u) \in DOMAIN buf[t] => buf[t][Subject(u)] # NoRow
    /\ \A p \in Pid : Identity(p) \in DOMAIN buf[t] => buf[t][Identity(p)] = "active"

Knows(t) ==
    /\ Route(t) /\ Arguments(t)
    /\ pc[t] \notin Outside => GateRead(t)
    /\ Authorizes(t) /\ pc[t] \in (Unauthorized \ {"fail"}) \cup {"lockGeneration", "lockToken", "lockPlayer"}
          => loc[t].identity = None
    /\ Authorizes(t) /\ pc[t] \notin Unauthorized =>
          /\ UserRead(t)
          /\ pc[t] # "lockGeneration" => SubjectRead(t)
          /\ pc[t] \notin {"lockGeneration", "lockToken"} => TokenRead(t)
          /\ pc[t] \notin {"lockGeneration", "lockToken", "lockPlayer"} => PlayerRead(t)
          /\ pc[t] = "lockPlayer" => seen[t][Token(loc[t].token)].identity # None
    /\ pc[t] \in {"lockVictims", "loginProfiles", "bind", "issue"} /\ Op(t) = "authenticate"
          => SubjectEnsured(t)
    /\ WritesOf(t)

\* The checks a transaction has passed still hold of the rows it has locked, at every
\* statement of every operation (transact, authorize and their callers): what is known
\* is what the lock order of service.go:112, auth.go:296-334 makes permanent.
Inductive == TypeOK /\ StoreInv /\ \A t \in Tx : Knows(t)
-----------------------------------------------------------------------------
(* What the other properties need besides: which rows a transaction may    *)
(* have locked at each statement, what it read in them, what it wrote.     *)

SubjectRows == {Subject(u) : u \in Uid}
TokenRows == {Token(h) : h \in Hash}
IdentityRows == {Identity(p) : p \in Pid}
SessionRows == {Session(s) : s \in Server}

\* The rows of the site and the operator, which client calls only read.
SiteRows == {Gate} \cup {User(u) : u \in Uid} \cup {Player(p) : p \in Pid}

\* The statements up to the one that locks the first row of a kind.
BeforeSubject ==
    {"idle", "resolve", "verify", "begin", "findSession", "findOwner", "lockUser", "checkLogin",
     "lockGeneration", "ensureSubject", "bump", "deleteTokens"}
BeforeToken == BeforeSubject \cup {"lockToken", "lockVictims"}
BeforeIdentity == BeforeToken \cup {"loginProfiles"}
BeforeSession ==
    BeforeIdentity \cup {"lockPlayer", "checkExpiry", "select", "deleteOld", "bind", "issue",
                         "clearSession", "checkName", "lockSession", "deleteSessions"}

\* Rows are locked in the order state, user, subject, token, player, identity, session, and
\* only a Join that deleted an expired session holds one when it asks for it again.  Nobody
\* locks a row of the site exclusively, nor shares a subject.
LockOrder(t) ==
    /\ excl[t] \cap SiteRows = {}
    /\ DOMAIN seen[t] \cap SubjectRows \subseteq excl[t]
    /\ pc[t] \in BeforeSubject => DOMAIN seen[t] \cap SubjectRows = {}
    /\ pc[t] \in BeforeToken => DOMAIN seen[t] \cap TokenRows = {}
    /\ pc[t] \in BeforeIdentity => DOMAIN seen[t] \cap IdentityRows = {}
    /\ pc[t] \in BeforeSession => DOMAIN seen[t] \cap SessionRows = {}
    /\ pc[t] = "insertSession" =>
          \A s \in Server : LET r == Session(s)
                            IN  r \in DOMAIN seen[t] =>
                                    s = call[t].server /\ r \in DOMAIN buf[t] /\ buf[t][r] = NoRow

\* A profile of the account that a login may be bound to.
ProfileRead(t, p) ==
    LET r == Player(p)
    IN  /\ p \in Pid /\ r \in DOMAIN seen[t] /\ seen[t][r] # NoRow
        /\ seen[t][r].owner = loc[t].uid
        /\ View(t, Identity(p)) = "active"

\* What Authenticate and Signout have read; no token is written before the one issued.
LoginRead(t) ==
    Op(t) \in {"authenticate", "signout"} =>
        LET p == loc[t].identity
        IN  /\ pc[t] \in {"checkLogin", "ensureSubject", "lockVictims", "loginProfiles", "bind",
                          "issue", "bump", "commit"} =>
                  UserRead(t) /\ seen[t][User(loc[t].uid)].password = call[t].password
            /\ Op(t) = "signout" \/ pc[t] \notin {"issue", "commit", "fail"} => p = None
            /\ pc[t] \notin {"commit", "fail"} => DOMAIN buf[t] \cap TokenRows = {}
            /\ pc[t] = "bind" => \A q \in loc[t].profiles : ProfileRead(t, q)
            /\ Op(t) = "authenticate" /\ pc[t] \in {"issue", "commit"} =>
                  /\ p # None => ProfileRead(t, p)
                  /\ call[t].login \in Name =>
                        p # None /\ seen[t][Player(p)].name = call[t].login

\* The identity a token keeps or, unbound, gets.
Bound(t) ==
    LET p == seen[t][Token(loc[t].token)].identity
    IN  IF p = None THEN call[t].selected ELSE p

SessionRead(t) ==
    LET r == Session(call[t].server)
    IN  /\ call[t].server \in Server /\ r \in DOMAIN seen[t] /\ seen[t][r] # NoRow
        /\ seen[t][r].token = loc[t].token
        /\ call[t].ip \in {None, seen[t][r].ip}

\* What the callers of authorize have read.
BindingRead(t) ==
    LET p == loc[t].identity
    IN  /\ Authorizes(t) /\ pc[t] \in {"checkExpiry", "select", "checkName", "lockSession"} =>
              seen[t][Token(loc[t].token)].identity = p
        /\ Op(t) = "refresh" /\ pc[t] \in {"deleteOld", "issue"} => p = Bound(t)
        /\ Op(t) = "hasJoined" /\ pc[t] \in {"lockSession", "commit"} =>
              p # None /\ seen[t][Player(p)].name = call[t].login
        /\ Op(t) = "hasJoined" /\ pc[t] = "commit" =>
              seen[t][Token(loc[t].token)].identity = p /\ SessionRead(t)

\* A token that t is about to store belongs to a subject that t has locked.
Issued(t, token) ==
    /\ Subject(token.owner) \in excl[t] /\ token.generation = View(t, Subject(token.owner))
    /\ token.identity # None => View(t, Identity(token.identity)) = "active"
    /\ token.expires = token.created + TokenTTL

\* What a transaction may write: generations that grow, tokens under unused hashes and with
\* the subject's generation, and sessions in the place of none or an expired one.
HasWritten(t) ==
    /\ DOMAIN buf[t] # {} => GateRead(t)
    /\ \A u \in Uid : LET r == Subject(u)
                      IN  r \in DOMAIN buf[t] => seen[t][r] = NoRow \/ buf[t][r] > seen[t][r]
    /\ \A h \in Hash : LET r == Token(h)
                       IN  r \in DOMAIN buf[t] /\ buf[t][r] # NoRow =>
                               /\ pc[t] \in {"commit", "fail"}
                               /\ seen[t][r] = NoRow /\ Issued(t, buf[t][r])
    /\ \A s \in Server : LET r == Session(s)
                         IN  r \in DOMAIN buf[t] => seen[t][r] = NoRow \/ seen[t][r].expires <= now
    /\ Op(t) = "signout" /\ pc[t] = "commit" => Subject(loc[t].uid) \in DOMAIN buf[t]

\* A Refresh writes two rows: it drops the token and stores its successor.
RefreshWrites(t) ==
    LET old == Token(loc[t].token)
    IN  Op(t) = "refresh" =>
            /\ pc[t] \notin {"issue", "commit", "fail"} => DOMAIN buf[t] = {}
            /\ pc[t] = "issue" => DOMAIN buf[t] = {old} /\ buf[t][old] = NoRow
            /\ pc[t] = "commit" =>
                  \E h \in Hash \ {loc[t].token} :
                      LET new == Token(h)
                      IN  /\ DOMAIN buf[t] = {old, new} /\ buf[t][old] = NoRow
                          /\ buf[t][new] # NoRow
                          /\ buf[t][new].owner = loc[t].uid
                          /\ buf[t][new].client = seen[t][old].client
                          /\ buf[t][new].generation = seen[t][old].generation
                          /\ buf[t][new].identity = Bound(t)

\* Every stored token belongs to a subject whose generation has not been below the token's,
\* has the time to live it was issued with, and is bound to an active identity only.
TokensKept ==
    \A h \in Stored :
        LET token == db[Token(h)]
        IN  /\ Exists(Subject(token.owner)) /\ token.generation <= db[Subject(token.owner)]
            /\ token.identity # None => Active(token.identity)
            /\ token.expires = token.created + TokenTTL

KnowsMore(t) ==
    LockOrder(t) /\ LoginRead(t) /\ BindingRead(t) /\ HasWritten(t) /\ RefreshWrites(t)

\* What a transaction has locked, read and written besides: the locks are taken in one order,
\* logins and joins keep what they checked, and each kind of row is written in one way only
\* (auth.go:33-248, authenticate.go:28-160).
Strong == Inductive /\ TokensKept /\ \A t \in Tx : KnowsMore(t)

-----------------------------------------------------------------------------
(* The limit on live tokens.                                               *)

\* The tokens that t holds.
Mine(t) == {h \in Hash : Token(h) \in DOMAIN seen[t] /\ seen[t][Token(h)] # NoRow}

\* The choice of Victims, once its candidates are locked.
Evicted(t) ==
    LET n       == Cardinality(Mine(t))
        created == [h \in Mine(t) |-> seen[t][Token(h)].created]
    IN  Oldest(Mine(t), IF n < TokenLimit THEN 0 ELSE n - TokenLimit + 1, created)

\* Authenticate has locked every live token of the account, and keeps all but the oldest.
LoginFits(t) ==
    LET u == loc[t].uid
    IN  Op(t) = "authenticate" =>
            /\ pc[t] \in {"lockVictims", "loginProfiles", "bind", "issue", "commit"} =>
                  /\ Subject(u) \in excl[t]
                  /\ Subject(u) \in DOMAIN buf[t] => seen[t][Subject(u)] = NoRow
            /\ pc[t] \in {"loginProfiles", "bind", "issue", "commit"} =>
                  /\ LiveOf(u) \subseteq Mine(t) /\ Cardinality(Mine(t)) <= TokenLimit
                  /\ \A h \in Mine(t) : /\ seen[t][Token(h)].owner = u
                                        /\ seen[t][Token(h)].generation = Generation(t)
            /\ pc[t] \in {"loginProfiles", "bind", "issue"} =>
                  \A h \in Hash : Token(h) \in DOMAIN seen[t] => h \in Mine(t)
            /\ pc[t] = "commit" =>
                  \E new \in Hash \ Mine(t), X \in Evicted(t) :
                      /\ \A h \in Hash : Token(h) \in DOMAIN buf[t] => h \in X \cup {new}
                      /\ \A h \in X : Token(h) \in DOMAIN buf[t] /\ buf[t][Token(h)] = NoRow
                      /\ buf[t][Token(new)] # NoRow => buf[t][Token(new)].owner = u

\* A Refresh that has checked the expiry leaves room for one token in the place of its own.
RefreshFits(t) ==
    Op(t) = "refresh" =>
        /\ pc[t] \notin Unauthorized \cup {"lockGeneration"} => Subject(loc[t].uid) \in excl[t]
        /\ pc[t] \in {"select", "deleteOld", "issue", "commit"} =>
              Cardinality(LiveOf(loc[t].uid) \cup {loc[t].token}) <= TokenLimit

\* What the other operations drop: an Invalidate its own token, Cleanup expired ones.
OthersDrop(t) ==
    pc[t] # "fail" =>
        \A h \in Hash :
            Token(h) \in DOMAIN buf[t] =>
                /\ Op(t) \in {"refresh", "invalidate", "authenticate", "cleanup"}
                /\ buf[t][Token(h)] # NoRow => Op(t) \in {"refresh", "authenticate"}
                /\ Op(t) = "invalidate" => h = loc[t].token
                /\ Op(t) = "cleanup" => seen[t][Token(h)] # NoRow /\ seen[t][Token(h)].expires <= now

\* The tokens are finitely many, as many of an account as its logins and refreshes left room
\* for, whatever the clock and other nodes do meanwhile (authenticate.go:53-57, 119-142).
Limited ==
    /\ Strong /\ IsFiniteSet(Stored) /\ TokenLimitHolds
    /\ \A t \in Tx : LoginFits(t) /\ RefreshFits(t) /\ OthersDrop(t)

-----------------------------------------------------------------------------
(* What each operation does to the tables when it commits.                 *)

\* Authenticate registers the account and its new players, stores a token and evicts another.
LoginWrites(t) ==
    LET u == loc[t].uid
        s == Subject(u)
    IN  Op(t) = "authenticate" =>
            /\ DOMAIN buf[t] \subseteq {s} \cup IdentityRows \cup TokenRows
            /\ s \in DOMAIN buf[t] => seen[t][s] = NoRow /\ buf[t][s] = 1
            /\ \A p \in Pid : LET r == Identity(p)
                              IN  r \in DOMAIN buf[t] =>
                                      /\ p > Watermark /\ seen[t][r] = NoRow
                                      /\ Player(p) \in DOMAIN seen[t] /\ seen[t][Player(p)] # NoRow
                                      /\ seen[t][Player(p)].owner = u
            /\ pc[t] = "commit" =>
                  /\ SubjectEnsured(t)
                  /\ \E new \in Hash \ Mine(t), X \in Evicted(t), at \in 0 .. now :
                        /\ \A h \in Hash : Token(h) \in DOMAIN buf[t] <=> h \in X \cup {new}
                        /\ \A h \in X : buf[t][Token(h)] = NoRow
                        /\ buf[t][Token(new)] =
                              [owner |-> u, generation |-> Generation(t),
                               client |-> call[t].client, identity |-> loc[t].identity,
                               created |-> at, expires |-> at + TokenTTL]

\* Refresh binds its token as the call asks.
RefreshBinds(t) ==
    Op(t) = "refresh" /\ pc[t] \in {"deleteOld", "issue", "commit"} =>
        loc[t].identity = Bound(t) /\ call[t].selected \in {None, loc[t].identity}

InvalidateWrites(t) ==
    LET r == Token(loc[t].token)
    IN  Op(t) = "invalidate" =>
            /\ DOMAIN buf[t] \subseteq {r}
            /\ r \in DOMAIN buf[t] =>
                  /\ pc[t] = "commit" /\ buf[t][r] = NoRow /\ seen[t][r] # NoRow
                  /\ MatchesClient(seen[t][r].client, call[t].client)

SignoutWrites(t) ==
    LET r == Subject(loc[t].uid)
    IN  Op(t) = "signout" =>
            /\ DOMAIN buf[t] \subseteq {r}
            /\ r \in DOMAIN buf[t] =>
                  /\ pc[t] = "commit"
                  /\ buf[t][r] = IF seen[t][r] = NoRow THEN 1 ELSE seen[t][r] + 1

\* Join writes its server's session, for the profile that its token is bound to.
JoinWrites(t) ==
    LET r == Session(call[t].server)
        p == seen[t][Token(loc[t].token)].identity
    IN  Op(t) = "join" =>
            /\ DOMAIN buf[t] \subseteq IF pc[t] \in {"insertSession", "commit"} THEN {r} ELSE {}
            /\ pc[t] \in {"clearSession", "insertSession", "compareSession", "commit"} =>
                  loc[t].identity = p
            /\ pc[t] \in {"insertSession", "compareSession", "commit"} => p = call[t].selected
            /\ pc[t] = "commit" /\ r \in DOMAIN buf[t] =>
                  \E at \in 0 .. now :
                      buf[t][r] = [token |-> loc[t].token, ip |-> call[t].ip,
                                   expires |-> at + SessionTTL]

\* Cleanup drops a few expired rows of two tables.
CleanupWrites(t) ==
    Op(t) = "cleanup" =>
        \E X \in SUBSET Hash, Y \in SUBSET Server :
            /\ DOMAIN buf[t] = {Token(h) : h \in X} \cup {Session(s) : s \in Y}
            /\ Cardinality(X) <= CleanupBatch /\ Cardinality(Y) <= CleanupBatch
            /\ pc[t] \notin {"deleteSessions", "commit"} => X = {}
            /\ pc[t] # "commit" => Y = {}
            /\ \A r \in DOMAIN buf[t] :
                  buf[t][r] = NoRow /\ seen[t][r] # NoRow /\ seen[t][r].expires <= now

WritesExactly(t) ==
    /\ pc[t] # "idle" => call[t] \in Calls
    /\ pc[t] # "idle" /\ Op(t) \in {"refresh", "validate", "invalidate", "join"} =>
          loc[t].token = call[t].token
    /\ \A h \in Hash : Token(h) \in DOMAIN buf[t] /\ buf[t][Token(h)] # NoRow =>
                           buf[t][Token(h)].created <= now
    /\ pc[t] # "fail" =>
          /\ Op(t) \in {"validate", "hasJoined"} => DOMAIN buf[t] = {}
          /\ LoginWrites(t) /\ RefreshBinds(t) /\ InvalidateWrites(t) /\ SignoutWrites(t)
          /\ JoinWrites(t) /\ CleanupWrites(t)

\* A transaction has written what its operation promises, no more and no less
\* (auth.go:33-197, authenticate.go:28-160, cleanup.go:14-40).
Exact ==
    /\ Limited /\ IsFiniteSet({s \in Server : Exists(Session(s))})
    /\ \A t \in Tx : WritesExactly(t)
================================================================================
