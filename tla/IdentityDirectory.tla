--------------------------- MODULE IdentityDirectory ---------------------------
(***************************************************************************)
(* The identity directory of src/sharedauth: EnsureIdentity, the lookups   *)
(* of profiles.go and the part of Authenticate that lists a login's        *)
(* profiles.  Several nodes resolve players at once; whichever meets a new *)
(* player above the watermark first gives it a random UUID, the others     *)
(* adopt that one.  One action is one SQL statement; the gate row, which   *)
(* SharedAuth has, stays active here, so every identity a call meets is    *)
(* what earlier calls have made of the initial ones.                       *)
(***************************************************************************)
EXTENDS RowStore, Integers, FiniteSets

CONSTANTS
    Uid, Pid, Name,      \* accounts, players and player names of BlessingSkin
    Uuid,                \* the UUIDs that exist or may be drawn
    None,                \* an argument or value that is absent
    Watermark,           \* player_high_watermark of the state row
    Calls,               \* the calls this instance makes
    Errors,              \* whether statements fail in this instance
    Edits,               \* Edits[p]: the rows that the site gives player p
    InitialPlayers, InitialIdentities,
    Reserved             \* UUIDs of reserved identities: they have no player

VARIABLES
    pc,        \* pc[t]: the next statement of t
    call,      \* call[t]: the arguments of t's call
    loc,       \* loc[t]: the Go variables of t's call
    published  \* history: published[p] are the UUIDs that callers were told of p

vars == <<store, pc, call, loc, published>>

-----------------------------------------------------------------------------
(* Rows: a player, its identity under uq_identity_player, and the key of   *)
(* uq_identity_uuid, whose value is the player or None if it is reserved.  *)

Player(p) == <<"player", p>>
Identity(p) == <<"identity", p>>
UuidKey(x) == <<"uuid", x>>
Row == {Player(p) : p \in Pid} \cup {Identity(p) : p \in Pid} \cup {UuidKey(x) : x \in Uuid}

PlayerRow == [owner: Uid, name: Name]
IdentityRow == [state: {"active", "blocked", "retired"}, uuid: Uuid \cup {None}]
ActiveRow(x) == [state |-> "active", uuid |-> x]

\* name and names: ResolveIdentityByName, ResolveIdentitiesByNames; login: loginProfiles.
Call == [op: {"ensure", "uuid", "name", "names", "login"}, pid: Pid \cup {None},
         uuid: Uuid \cup {None}, names: SUBSET Name, uid: Uid \cup {None}]
NoCall == [op |-> "names", pid |-> None, uuid |-> None, names |-> {}, uid |-> None]

WellFormed(c) ==
    /\ c.op = "ensure" => c.pid \in Pid
    /\ c.op = "uuid" => c.uuid \in Uuid
    /\ c.op = "name" => \E n \in Name : c.names = {n}
    /\ c.op = "login" => c.uid \in Uid

\* unread names, players to visit with the row their name led to, the player being visited,
\* its attempts and candidate UUID, what has been found, and what is answered of it.
Local == [names: SUBSET Name, todo: SUBSET Pid, candidate: [Pid -> PlayerRow \cup {NoRow}],
          at: Pid \cup {None}, attempt: 0 .. 2, uuid: Uuid \cup {None},
          found: [Pid -> Uuid \cup {None}], answer: SUBSET Pid]
NoLocal == [names |-> {}, todo |-> {}, candidate |-> [p \in Pid |-> NoRow], at |-> None,
            attempt |-> 0, uuid |-> None, found |-> [p \in Pid |-> None], answer |-> {}]

ASSUME DirectoryAssumption ==
    /\ Pid \subseteq Nat \ {0} /\ Watermark \in Nat
    /\ Calls \subseteq Call /\ \A c \in Calls : WellFormed(c)
    /\ None \notin Uid \cup Pid \cup Name \cup Uuid
    /\ NoRow \notin PlayerRow \cup IdentityRow \cup Pid \cup {None}
    /\ Errors \in BOOLEAN
    /\ Edits \in [Pid -> SUBSET (PlayerRow \cup {NoRow})]
    /\ InitialPlayers \in [Pid -> PlayerRow \cup {NoRow}]
    /\ InitialIdentities \in [Pid -> IdentityRow \cup {NoRow}]
    /\ Reserved \subseteq Uuid
    /\ \A p \in Pid : InitialIdentities[p] # NoRow =>
          LET identity == InitialIdentities[p]
          IN  /\ identity.state = "blocked" <=> identity.uuid = None
              /\ identity.uuid \notin Reserved
              /\ \A q \in Pid \ {p} : InitialIdentities[q] # NoRow /\ identity.uuid # None
                                          => InitialIdentities[q].uuid # identity.uuid

Exists(r) == db[r] # NoRow
Op(t) == call[t].op

-----------------------------------------------------------------------------
(* Conditions and keys.                                                    *)

\* uniquePlayerName: exactly one player has the name, and it is p.
UniquePlayerName(n, p) == {q \in Pid : Exists(Player(q)) /\ db[Player(q)].name = n} = {p}

\* (A slip: players that the migration left without an identity get one.)
AnyPlayer(p) == p > 0
Newer(p) == p > Watermark

\* readIdentity's row, own INSERTs included.
Stored(t) == View(t, Identity(loc[t].at))

\* (A slip: after a duplicate key the own candidate is taken for the committed UUID.)
OwnCandidate(t) == loc[t].uuid
Existing(t) == Stored(t).uuid

PidTaken(t) == Stored(t) # NoRow

\* (A slip: a unique key on active identities only, which gives retired and reserved UUIDs back.)
ActiveUuid(t) == \E p \in Pid : View(t, Identity(p)) = ActiveRow(loc[t].uuid)
UuidTaken(t) == View(t, UuidKey(loc[t].uuid)) # NoRow

\* The third candidate was not free either.
LastAttempt(t) == loc[t].attempt = 2

PlayersOf(u) == {p \in Pid : Exists(Player(p)) /\ db[Player(p)].owner = u}

\* (A slip: players are visited in the order of the names.)
AnyOf(S) == S
Smallest(S) == {p \in S : \A q \in S : p <= q}

\* (A slip: a plain SELECT where a lock is needed.)
NoLock(t) == {}
PlayerLock(t) == {Player(loc[t].at)}

\* The duplicate that an INSERT meets, locked for share; else the keys it writes.
Duplicate(t) ==
    IF PidTaken(t) THEN {Identity(loc[t].at)}
    ELSE IF UuidTaken(t) THEN {UuidKey(loc[t].uuid)} ELSE {}
NewKeys(t) ==
    IF Duplicate(t) = {} THEN {Identity(loc[t].at), UuidKey(loc[t].uuid)} ELSE {}

SharesAt(t) ==
    CASE pc[t] = "lockPlayer"   -> PlayerLock(t)
      [] pc[t] = "lockProfiles" -> {Player(p) : p \in PlayersOf(call[t].uid)}
      [] pc[t] = "insert"       -> Duplicate(t)
      [] OTHER                  -> {}
LocksAt(t) == IF pc[t] = "insert" THEN NewKeys(t) ELSE {}

-----------------------------------------------------------------------------
(* Control.                                                                *)

Goto(t, label) == pc' = [pc EXCEPT ![t] = label]
Become(t, l) == loc' = [loc EXCEPT ![t] = l]

Return(t) ==
    /\ Goto(t, "idle")
    /\ call' = [call EXCEPT ![t] = NoCall]
    /\ loc' = [loc EXCEPT ![t] = NoLocal]

Fail(t) == Goto(t, "fail") /\ UNCHANGED loc

\* The next player of a batch or a login in pid order, or the end of its loop.
Advance(t, l) ==
    \/ /\ l.todo = {}
       /\ IF Op(t) = "names"
          THEN Become(t, [l EXCEPT !.at = None, !.names = call[t].names]) /\ Goto(t, "answer")
          ELSE Become(t, [l EXCEPT !.at = None, !.answer = {p \in Pid : l.found[p] # None}])
               /\ Goto(t, "commit")
    \/ \E p \in Smallest(l.todo) :
          /\ Become(t, [l EXCEPT !.at = p, !.todo = l.todo \ {p}])
          /\ Goto(t, IF Op(t) = "login" THEN "read" ELSE "lockPlayer")

\* A conflict, or a player that is gone, is skipped in a batch and an error elsewhere.
Skip(t) == IF Op(t) = "names" THEN Advance(t, loc[t]) ELSE Fail(t)

\* The visited player has UUID x.
Found(t, x) ==
    LET l == [loc[t] EXCEPT !.found[loc[t].at] = x]
    IN  IF Op(t) \in {"names", "login"} THEN Advance(t, l)
        ELSE Become(t, [l EXCEPT !.answer = {loc[t].at}]) /\ Goto(t, "commit")

\* newUUID: any candidate, those in use included.
Draw(t, attempt) ==
    /\ \E x \in Uuid : Become(t, [loc[t] EXCEPT !.uuid = x, !.attempt = attempt])
    /\ Goto(t, "insert")

Start(t, c) ==
    /\ pc[t] = "idle"
    /\ call' = [call EXCEPT ![t] = c]
    /\ Become(t, [NoLocal EXCEPT !.at = c.pid, !.names = c.names])
    /\ Goto(t, CASE c.op = "ensure" -> "lockPlayer"
                 [] c.op = "uuid"   -> "findUuid"
                 [] c.op = "login"  -> "lockProfiles"
                 [] OTHER           -> "findNames")
    /\ UNCHANGED <<store, published>>

\* The answer reaches the caller, or its acknowledgement is lost (ErrCommitUnknown).
Commit(t) ==
    /\ pc[t] = "commit" /\ CommitTx(t) /\ Return(t)
    /\ \/ published' = [p \in Pid |-> IF p \in loc[t].answer
                                      THEN published[p] \cup {loc[t].found[p]} ELSE published[p]]
       \/ Errors /\ UNCHANGED published

Rollback(t) == pc[t] = "fail" /\ RollbackTx(t) /\ Return(t) /\ UNCHANGED published

-----------------------------------------------------------------------------
(* Statements.                                                             *)

\* ResolveIdentityByUUID: the player of an active UUID, read without a lock.
FindUuid(t) ==
    /\ pc[t] = "findUuid"
    /\ IF \E p \in Pid : db[Identity(p)] = ActiveRow(call[t].uuid)
       THEN /\ \E p \in Pid : /\ db[Identity(p)] = ActiveRow(call[t].uuid)
                              /\ Become(t, [loc[t] EXCEPT !.at = p])
            /\ Goto(t, "lockPlayer")
       ELSE Fail(t)
    /\ UNCHANGED <<store, call, published>>

\* The name lookups: one name after the other, without a lock.
FindName(t) ==
    /\ pc[t] = "findNames"
    /\ \/ loc[t].names = {} /\ Advance(t, loc[t])
       \/ \E n \in loc[t].names :
            LET rest  == [loc[t] EXCEPT !.names = @ \ {n}]
                named == {p \in Pid : UniquePlayerName(n, p)}
            IN  \/ /\ named = {} /\ Op(t) = "name" /\ Fail(t)
                \/ /\ named \subseteq loc[t].todo /\ (named = {} => Op(t) = "names")
                   /\ Become(t, rest) /\ UNCHANGED pc
                \/ \E p \in named \ loc[t].todo :
                      /\ Become(t, [rest EXCEPT !.todo = @ \cup {p}, !.candidate[p] = db[Player(p)],
                                                !.candidate[p].name = n])
                      /\ UNCHANGED pc
    /\ UNCHANGED <<store, call, published>>

LockPlayer(t) ==
    /\ pc[t] = "lockPlayer"
    /\ Statement(t, SharesAt(t), {}, NoWrites)
    /\ IF Exists(Player(loc[t].at))
       THEN /\ Goto(t, CASE Op(t) = "ensure" -> "ensure" [] Op(t) = "uuid" -> "read"
                         [] OTHER -> "recheck")
            /\ UNCHANGED loc
       ELSE Skip(t)
    /\ UNCHANGED <<call, published>>

\* The name is resolved again under the lock: same player, same owner.
Recheck(t) ==
    LET candidate == loc[t].candidate[loc[t].at]
    IN  /\ pc[t] = "recheck"
        /\ IF /\ UniquePlayerName(candidate.name, loc[t].at)
              /\ candidate.owner = db[Player(loc[t].at)].owner
           THEN Goto(t, "ensure") /\ UNCHANGED loc
           ELSE Skip(t)
        /\ UNCHANGED <<store, call, published>>

LockProfiles(t) ==
    /\ pc[t] = "lockProfiles"
    /\ Statement(t, SharesAt(t), {}, NoWrites)
    /\ Advance(t, [loc[t] EXCEPT !.todo = PlayersOf(call[t].uid)])
    /\ UNCHANGED <<call, published>>

\* A login leaves a player out that cannot have an identity; a UUID lookup fails.
Read(t) ==
    /\ pc[t] = "read"
    /\ \/ /\ Stored(t) # NoRow /\ Stored(t).state = "active" /\ Found(t, Stored(t).uuid)
       \/ /\ Op(t) = "login" /\ Stored(t) = NoRow /\ Newer(loc[t].at)
          /\ Goto(t, "ensure") /\ UNCHANGED loc
       \/ /\ Op(t) = "login" /\ Advance(t, loc[t])
          /\ IF Stored(t) = NoRow THEN ~Newer(loc[t].at) ELSE Stored(t).state # "active"
       \/ /\ Op(t) = "uuid" /\ (Stored(t) # NoRow => Stored(t).state # "active") /\ Fail(t)
    /\ UNCHANGED <<store, call, published>>

\* ensureIdentity up to its first INSERT.
Ensure(t) ==
    /\ pc[t] = "ensure"
    /\ \/ /\ Stored(t) # NoRow /\ Stored(t).state = "active" /\ Found(t, Stored(t).uuid)
       \/ /\ Skip(t)
          /\ IF Stored(t) = NoRow THEN ~Newer(loc[t].at) ELSE Stored(t).state # "active"
       \/ Stored(t) = NoRow /\ Newer(loc[t].at) /\ Draw(t, 0)
    /\ UNCHANGED <<store, call, published>>

Insert(t) ==
    LET p == loc[t].at
        x == loc[t].uuid
    IN  /\ pc[t] = "insert"
        /\ \/ /\ Duplicate(t) # {}
              /\ Statement(t, SharesAt(t), {}, NoWrites)
              /\ Goto(t, "adopt") /\ UNCHANGED loc
           \/ /\ Duplicate(t) = {}
              /\ Statement(t, {}, LocksAt(t), Over(Put(Identity(p), ActiveRow(x)), Put(UuidKey(x), p)))
              /\ Found(t, x)
        /\ UNCHANGED <<call, published>>

\* After a duplicate key: another node's identity of this player, or a new candidate.
Adopt(t) ==
    /\ pc[t] = "adopt"
    /\ \/ Stored(t) # NoRow /\ Stored(t).state = "active" /\ Found(t, Existing(t))
       \/ Stored(t) # NoRow /\ Stored(t).state # "active" /\ Skip(t)
       \/ Stored(t) = NoRow /\ ~LastAttempt(t) /\ Draw(t, loc[t].attempt + 1)
       \/ Stored(t) = NoRow /\ LastAttempt(t) /\ Skip(t)
    /\ UNCHANGED <<store, call, published>>

\* The batch's answer: each name is looked up once more.
Answer(t) ==
    /\ pc[t] = "answer"
    /\ \/ loc[t].names = {} /\ Goto(t, "commit") /\ UNCHANGED loc
       \/ \E n \in loc[t].names :
            /\ UNCHANGED pc
            /\ Become(t, [loc[t] EXCEPT !.names = @ \ {n},
                   !.answer = @ \cup {p \in Pid : UniquePlayerName(n, p) /\ loc[t].found[p] # None}])
    /\ UNCHANGED <<store, call, published>>

-----------------------------------------------------------------------------
(* Failures and the site.                                                  *)

SqlError(t) ==
    /\ Errors /\ pc[t] \notin {"idle", "fail"}
    /\ Fail(t) /\ UNCHANGED <<store, call, published>>

WaitsFor(t, o) ==
    /\ o # t
    /\ SharesAt(t) \cap excl[o] # {} \/ LocksAt(t) \cap DOMAIN seen[o] # {}

\* Every member waits for one member and is waited for by one.
Deadlock(C) == \A t \in C : (\E o \in C : WaitsFor(t, o)) /\ (\E o \in C : WaitsFor(o, t))

AbortVictim(t) ==
    /\ \E C \in SUBSET Tx : t \in C /\ Deadlock(C)
    /\ Fail(t) /\ UNCHANGED <<store, call, published>>

\* A player is renamed, transferred, deleted or created; a pid is not used again.
SetPlayer(p, row) ==
    /\ row \in Edits[p]
    /\ row # db[Player(p)] /\ (~Exists(Player(p)) => ~Exists(Identity(p)))
    /\ AutoCommit(Put(Player(p), row))
    /\ UNCHANGED <<pc, call, loc, published>>

-----------------------------------------------------------------------------
UuidOwner(x) ==
    IF x \in Reserved THEN None
    ELSE IF \E p \in Pid : InitialIdentities[p] # NoRow /\ InitialIdentities[p].uuid = x
    THEN CHOOSE p \in Pid : InitialIdentities[p] # NoRow /\ InitialIdentities[p].uuid = x
    ELSE NoRow

Init ==
    /\ StoreInit([r \in Row |-> CASE r[1] = "player"   -> InitialPlayers[r[2]]
                                  [] r[1] = "identity" -> InitialIdentities[r[2]]
                                  [] OTHER             -> UuidOwner(r[2])])
    /\ pc = [t \in Tx |-> "idle"] /\ call = [t \in Tx |-> NoCall] /\ loc = [t \in Tx |-> NoLocal]
    /\ published = [p \in Pid |-> {}]

Step(t) ==
    \/ FindUuid(t) \/ FindName(t) \/ LockPlayer(t) \/ Recheck(t) \/ LockProfiles(t) \/ Read(t)
    \/ Ensure(t) \/ Insert(t) \/ Adopt(t) \/ Answer(t) \/ Commit(t) \/ Rollback(t)

Next ==
    \/ \E t \in Tx : (\E c \in Calls : Start(t, c)) \/ Step(t) \/ SqlError(t) \/ AbortVictim(t)
    \/ \E p \in Pid : \E row \in Edits[p] : SetPlayer(p, row)

Spec == Init /\ [][Next]_vars

-----------------------------------------------------------------------------
(* Properties.                                                             *)

Values(r) ==
    CASE r[1] = "player"   -> PlayerRow
      [] r[1] = "identity" -> IdentityRow
      [] r[1] = "uuid"     -> Pid \cup {None}

Rows(f) == DOMAIN f \subseteq Row /\ \A r \in DOMAIN f : f[r] \in Values(r) \cup {NoRow}

\* Rows, Go variables and answers have their types; no more than three candidates are drawn.
TypeOK ==
    /\ StoreShape /\ DOMAIN db = Row /\ Rows(db) /\ \A t \in Tx : Rows(seen[t]) /\ Rows(buf[t])
    /\ DOMAIN pc = Tx /\ call \in [Tx -> Call] /\ loc \in [Tx -> Local]
    /\ published \in [Pid -> SUBSET Uuid]

\* The UUID a caller was told is the player's for ever: nodes that met a new player at the same
\* time told the same one, and no rollback or lost answer took it back (service.go:198-232).
PublishedForGood ==
    \A p \in Pid : published[p] # {} =>
        \E x \in Uuid : published[p] = {x} /\ db[Identity(p)] = ActiveRow(x)

\* No UUID was told of two players, nor one that is reserved or a retired player's: a drawn UUID
\* that collides is drawn again (service.go:222-231).
OnePlayerPerUuid ==
    \A p \in Pid : /\ published[p] \cap Reserved = {}
                   /\ \A q \in Pid \ {p} : /\ published[p] \cap published[q] = {}
                                           /\ InitialIdentities[q] # NoRow =>
                                                InitialIdentities[q].uuid \notin published[p]

\* A player of the migrated site never gets a UUID by being looked up: without an active
\* identity from the migration none is told of it (service.go:203-205, 188).
MigrationDecides ==
    \A p \in Pid : (p <= Watermark \/ InitialIdentities[p] # NoRow) /\ published[p] # {} =>
        InitialIdentities[p] # NoRow /\ InitialIdentities[p].state = "active"

\* When a call can commit, each player it answers for exists and has the UUID found; it still has
\* one of the names asked for, the UUID asked for, or the owner that logs in (profiles.go:131-139).
AnswerHolds ==
    \A t \in Tx : pc[t] = "commit" => \A p \in loc[t].answer :
        /\ Exists(Player(p)) /\ View(t, Identity(p)) = ActiveRow(loc[t].found[p])
        /\ Op(t) \in {"name", "names"} => db[Player(p)].name \in call[t].names
        /\ Op(t) = "uuid" => loc[t].found[p] = call[t].uuid
        /\ Op(t) = "login" => db[Player(p)].owner = call[t].uid

\* Batches and logins insert identities in pid order, so they deadlock only if a drawn UUID is
\* one that another call has just drawn (profiles.go:73, authenticate.go:145).
OnlyCollisionsDeadlock ==
    \A C \in SUBSET Tx : C # {} /\ Deadlock(C) =>
        \E t, o \in C : WaitsFor(t, o) /\ UuidKey(loc[t].uuid) \in LocksAt(t) \cap DOMAIN seen[o]
-----------------------------------------------------------------------------
(* The inductive invariant: unique keys are written once, by the           *)
(* transaction that found them free, and stay.                             *)

\* Committed identities: the migration's are as it left them, the others are of newer players,
\* an active one has a UUID, and whoever has a UUID owns its key.
Permanent ==
    /\ \A p \in Pid : InitialIdentities[p] # NoRow => db[Identity(p)] = InitialIdentities[p]
    /\ \A x \in Reserved : db[UuidKey(x)] = None
    /\ \A p \in Pid : Exists(Identity(p)) =>
          LET identity == db[Identity(p)]
          IN  /\ InitialIdentities[p] # NoRow \/ Newer(p)
              /\ identity.state = "active" => identity.uuid \in Uuid
              /\ identity.uuid # None => db[UuidKey(identity.uuid)] = p

\* What t has inserted was free when t locked it: an active identity of a newer player and
\* the key of its UUID.
Inserted(t) ==
    /\ \A r \in DOMAIN buf[t] : seen[t][r] = NoRow
    /\ \A p \in Pid : Identity(p) \in DOMAIN buf[t] =>
          /\ Newer(p)
          /\ \E x \in Uuid : /\ buf[t][Identity(p)] = ActiveRow(x)
                             /\ UuidKey(x) \in DOMAIN buf[t] /\ buf[t][UuidKey(x)] = p
    /\ \A p \in Pid : Player(p) \notin DOMAIN buf[t]

\* Every UUID found is in t's view of the rows, and every answer has been found.
Sound(t) ==
    /\ \A p \in Pid : loc[t].found[p] # None =>
          View(t, Identity(p)) = ActiveRow(loc[t].found[p])
    /\ \A p \in loc[t].answer : loc[t].found[p] # None

\* A player is being visited, and only a newer one is allocated a candidate.
Visits(t) ==
    /\ pc[t] \in {"lockPlayer", "recheck", "read", "ensure", "insert", "adopt"} =>
          loc[t].at \in Pid
    /\ pc[t] \in {"insert", "adopt"} => Newer(loc[t].at) /\ loc[t].uuid \in Uuid

\* What PublishedForGood, OnePlayerPerUuid and MigrationDecides rest on: at every statement of
\* every call, what is found is stored and what is stored stays (service.go:177-232).
DirectoryInv ==
    /\ TypeOK /\ StoreInv /\ Permanent /\ PublishedForGood
    /\ \A t \in Tx : Inserted(t) /\ Sound(t) /\ Visits(t)
-----------------------------------------------------------------------------
(* What each call has made sure of, and in which order it inserts.         *)

\* The statements at which a player is being visited.
Visiting == {"lockPlayer", "recheck", "read", "ensure", "insert", "adopt"}

\* Which operations reach which statement.
Route(t) ==
    /\ pc[t] = "findUuid" => Op(t) = "uuid"
    /\ pc[t] \in {"findNames", "recheck"} => Op(t) \in {"name", "names"}
    /\ pc[t] = "lockProfiles" => Op(t) = "login"
    /\ pc[t] = "lockPlayer" => Op(t) # "login"
    /\ pc[t] = "read" => Op(t) \in {"uuid", "login"}
    /\ pc[t] \in {"ensure", "insert", "adopt"} => Op(t) # "uuid"

Locked(t, p) == Player(p) \in DOMAIN seen[t] /\ seen[t][Player(p)] # NoRow

\* The player is locked, and has what the call asks for.
Asked(t, p) ==
    /\ Locked(t, p)
    /\ Op(t) \in {"name", "names"} => seen[t][Player(p)].name \in call[t].names
    /\ Op(t) = "login" => seen[t][Player(p)].owner = call[t].uid

\* Names lead to candidates, a login to the players it has locked, a UUID to one identity; what
\* is found is of players that were asked for.
Asks(t) ==
    LET l == loc[t]
    IN  /\ l.names \subseteq call[t].names
        /\ \A p \in Pid : l.candidate[p] # NoRow => l.candidate[p].name \in call[t].names
        /\ Op(t) \in {"name", "names"} => \A p \in l.todo : l.candidate[p] # NoRow
        /\ Op(t) \in {"ensure", "uuid"} => l.todo = {}
        /\ Op(t) = "login" => \A p \in l.todo : Asked(t, p)
        /\ Op(t) = "uuid" => \A p \in Pid : l.found[p] \in {None, call[t].uuid}
        /\ \A p \in Pid : l.found[p] # None => Asked(t, p)

\* What is known of the player being visited.
Reached(t) ==
    LET p == loc[t].at
    IN  /\ (pc[t] = "lockPlayer" /\ Op(t) \in {"name", "names"}) \/ pc[t] = "recheck" =>
              loc[t].candidate[p] # NoRow
        /\ pc[t] = "recheck" => Locked(t, p)
        /\ pc[t] \in {"read", "ensure", "insert", "adopt"} => Asked(t, p)
        /\ pc[t] \in {"lockPlayer", "read"} /\ Op(t) = "uuid" =>
              db[Identity(p)] = ActiveRow(call[t].uuid)

\* Only what is inserted is locked exclusively, or locked without a row.
OwnLocks(t) ==
    /\ excl[t] = DOMAIN buf[t]
    /\ \A r \in DOMAIN seen[t] : seen[t][r] = NoRow => r \in DOMAIN buf[t]

\* Identities are inserted in pid order.
InOrder(t) ==
    LET l == loc[t]
    IN  /\ pc[t] \notin Visiting \cup {"answer", "commit", "fail"} => DOMAIN buf[t] = {}
        /\ pc[t] \in Visiting => \A q \in l.todo : l.at < q
        /\ \A p \in Pid : Identity(p) \in DOMAIN buf[t] =>
              (\A q \in l.todo : p < q) /\ (pc[t] \in Visiting => p < l.at)

\* What AnswerHolds and OnlyCollisionsDeadlock rest on: a call finds UUIDs of players only that
\* it has locked and checked, one after the other in pid order (profiles.go:36-139,
\* authenticate.go:144-179).
CallsInv ==
    /\ DirectoryInv
    /\ \A t \in Tx : Route(t) /\ Asks(t) /\ Reached(t) /\ OwnLocks(t) /\ InOrder(t)
================================================================================
