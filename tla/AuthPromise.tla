---------------------------- MODULE AuthPromise ----------------------------
(***************************************************************************)
(* What src/sharedauth promises the site and its players: a client call    *)
(* that changes rows changes them in one step, in a state in which all its *)
(* conditions hold together, and no other call changes any.  Of the time a *)
(* call takes, only the moment at that the row it stores was made shows.   *)
(* The site, the operator and the clock move in steps of their own.  How   *)
(* the calls come by this, statement by statement and lock by lock, is     *)
(* SharedAuth.                                                             *)
(***************************************************************************)
EXTENDS Integers, FiniteSets

CONSTANTS
    Uid, Pid, Hash, Server, Name, None, NoRow, UserRow, PlayerRow,
    Calls,               \* the client calls, as in SharedAuth
    RequireVerification, Watermark, TokenLimit, TokenTTL, SessionTTL, CleanupBatch,
    InitialUsers, InitialPlayers, InitialIdentities

VARIABLES
    gate, user, generation, player, identity, token, session,  \* the tables
    now                                                        \* the clock

site == <<gate, user, player>>
tables == <<site, generation, identity, token, session, now>>

Init ==
    /\ gate = "active" /\ now = 0
    /\ user = InitialUsers /\ player = InitialPlayers /\ identity = InitialIdentities
    /\ generation = [u \in Uid |-> NoRow]
    /\ token = [h \in Hash |-> NoRow]
    /\ session = [s \in Server |-> NoRow]

-----------------------------------------------------------------------------
(* Conditions.                                                             *)

Allowed(u) ==
    user[u] # NoRow /\ user[u].permission # -1 /\ (RequireVerification => user[u].verified)

Owns(u, p) == player[p] # NoRow /\ player[p].owner = u

\* The tokens of an account that are not revoked, and those not expired either.
CurrentOf(u) ==
    {h \in Hash : token[h] # NoRow /\ token[h].owner = u /\ token[h].generation = generation[u]}
LiveOf(u) == {h \in CurrentOf(u) : now < token[h].expires}

\* The account of the token may use it, from this client, as the player it is bound to.
Authorized(h, client) ==
    LET u == token[h].owner
        p == token[h].identity
    IN  /\ token[h] # NoRow /\ h \in CurrentOf(u)
        /\ Allowed(u) /\ client \in {None, token[h].client}
        /\ p # None => Owns(u, p) /\ identity[p] = "active"

NextGeneration(u) == [generation EXCEPT ![u] = IF generation[u] = NoRow THEN 1 ELSE generation[u] + 1]
Without(table, S) == [x \in DOMAIN table |-> IF x \in S THEN NoRow ELSE table[x]]

-----------------------------------------------------------------------------
(* Client calls.                                                           *)

\* Authenticate stores one token, bound to a player that is the account's own, may evict one
\* in its place, if it is the oldest and the account is at its limit, and registers the
\* account and its new players.
Login(c) ==
    \E u \in Uid, h \in Hash : \E old \in SUBSET CurrentOf(u) :
      \E p \in Pid \cup {None}, new \in SUBSET Pid, at \in 0 .. now :
        /\ Allowed(u) /\ user[u].password = c.password
        /\ generation' = IF generation[u] = NoRow THEN NextGeneration(u) ELSE generation
        /\ \A q \in new : Owns(u, q) /\ identity[q] = NoRow /\ q > Watermark
        /\ identity' = [q \in Pid |-> IF q \in new THEN "active" ELSE identity[q]]
        /\ p # None => Owns(u, p) /\ identity'[p] = "active"
        /\ c.login \in Name => p # None /\ player[p].name = c.login
        /\ token[h] = NoRow
        /\ token' = [Without(token, old) EXCEPT ![h] =
                       [owner |-> u, generation |-> generation'[u], client |-> c.client,
                        identity |-> p, created |-> at, expires |-> at + TokenTTL]]
        /\ old # {} => Cardinality(old) = 1 /\ Cardinality(CurrentOf(u)) >= TokenLimit
        /\ \A k \in old, j \in LiveOf(u) \ old : token[k].created <= token[j].created
        /\ Cardinality(LiveOf(u)') <= TokenLimit
        /\ UNCHANGED <<site, session, now>>

\* Refresh stores one token in the place of another.
Refresh(c) ==
    LET was == token[c.token]
        p   == IF was.identity = None THEN c.selected ELSE was.identity
    IN  /\ Authorized(c.token, c.client)
        /\ c.selected \in {None, p}
        /\ p # None => Owns(was.owner, p) /\ identity[p] = "active"
        /\ \E h \in Hash, at \in 0 .. now :
              /\ token[h] = NoRow
              /\ token' = [Without(token, {c.token}) EXCEPT ![h] =
                             [owner |-> was.owner, generation |-> was.generation,
                              client |-> was.client, identity |-> p,
                              created |-> at, expires |-> at + TokenTTL]]
        /\ UNCHANGED <<site, generation, identity, session, now>>

\* Invalidate takes a token of the caller's client, whoever owns it and revoked or not.
Invalidate(c) ==
    /\ token[c.token] # NoRow /\ c.client \in {None, token[c.token].client}
    /\ token' = Without(token, {c.token})
    /\ UNCHANGED <<site, generation, identity, session, now>>

Signout(c) ==
    /\ \E u \in Uid : /\ Allowed(u) /\ user[u].password = c.password
                      /\ generation' = NextGeneration(u)
    /\ UNCHANGED <<site, identity, token, session, now>>

\* Join takes a server id that is free, or whose session has expired.
Join(c) ==
    /\ Authorized(c.token, c.client) /\ token[c.token].identity = c.selected
    /\ session[c.server] = NoRow \/ session[c.server].expires <= now
    /\ \E at \in 0 .. now :
          session' = [session EXCEPT ![c.server] =
                        [token |-> c.token, ip |-> c.ip, expires |-> at + SessionTTL]]
    /\ UNCHANGED <<site, generation, identity, token, now>>

\* CleanupExpired takes a few of the expired rows.
Cleanup ==
    \E X \in SUBSET {h \in Hash : token[h] # NoRow /\ token[h].expires <= now},
       Y \in SUBSET {s \in Server : session[s] # NoRow /\ session[s].expires <= now} :
        /\ Cardinality(X) <= CleanupBatch /\ Cardinality(Y) <= CleanupBatch
        /\ token' = Without(token, X) /\ session' = Without(session, Y)
        /\ UNCHANGED <<site, generation, identity, now>>

\* Calls change rows while the gate is open.
Effect(c) ==
    /\ gate = "active"
    /\ \/ c.op = "authenticate" /\ Login(c)
       \/ c.op = "refresh" /\ Refresh(c)
       \/ c.op = "invalidate" /\ Invalidate(c)
       \/ c.op = "signout" /\ Signout(c)
       \/ c.op = "join" /\ Join(c)
       \/ c.op = "cleanup" /\ Cleanup

-----------------------------------------------------------------------------
(* The site, the operator and the clock.                                   *)

\* An account is edited or deleted; a new password or permission, or none, revokes.
EditUser(u, row) ==
    LET kept == row # NoRow /\ row.password = user[u].password /\ row.permission = user[u].permission
    IN  /\ user[u] # NoRow
        /\ user' = [user EXCEPT ![u] = row]
        /\ generation' = IF kept THEN generation ELSE NextGeneration(u)
        /\ UNCHANGED <<gate, player, identity, token, session, now>>

EditPlayer(p, row) ==
    /\ player[p] = NoRow => identity[p] = NoRow
    /\ row # NoRow => user[row.owner] # NoRow
    /\ player' = [player EXCEPT ![p] = row]
    /\ UNCHANGED <<gate, user, generation, identity, token, session, now>>

Toggle ==
    /\ gate' = IF gate = "active" THEN "staged" ELSE "active"
    /\ UNCHANGED <<user, player, generation, identity, token, session, now>>

\* A resolution plan, with the gate closed, changes an identity that no token is bound to.
Resolve(p) ==
    /\ gate = "staged"
    /\ \A h \in Hash : token[h] # NoRow => token[h].identity # p
    /\ \/ identity[p] = "blocked" /\ identity' = [identity EXCEPT ![p] = "active"]
       \/ identity[p] = "active" /\ identity' = [identity EXCEPT ![p] = "blocked"]
    /\ UNCHANGED <<site, generation, token, session, now>>

Tick == now' = now + 1 /\ UNCHANGED <<site, generation, identity, token, session>>

Next ==
    \/ \E c \in Calls : Effect(c)
    \/ \E u \in Uid, row \in UserRow \cup {NoRow} : EditUser(u, row)
    \/ \E p \in Pid : Resolve(p) \/ \E row \in PlayerRow \cup {NoRow} : EditPlayer(p, row)
    \/ Toggle \/ Tick

Spec == Init /\ [][Next]_tables
=============================================================================
