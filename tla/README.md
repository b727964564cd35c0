# A verification project for YggdrasilGo

YggdrasilGo is a Yggdrasil (Minecraft account) server. It runs beside a BlessingSkin site or on
its own files. With *shared authorization* switched on, several server nodes keep identities,
tokens and join sessions in the site's MySQL database, and an operator migrates the site to that
schema; without it, a node keeps tokens and sessions in one of four caches. These modules model
those parts, check them with TLC on small instances and prove their central invariants with TLAPS
for every instance.

Paths are relative to the repository root (the directory of `go.mod`), unless they say otherwise.

    tlc -config MCTokens.cfg MCSharedAuth        # one run
    tlapm MigrationProofs.tla                    # all proofs of a module

## 1. Inventory

| Part | State | Operations | What is hard about it |
|---|---|---|---|
| **Shared authorization** `src/sharedauth/{auth,authenticate,service,cleanup}.go` | rows of `ygg_go_*` tables; no state between calls in a node | Authenticate, Refresh, Validate, Invalidate, Signout, Join, HasJoined, CleanupExpired, EnsureIdentity, Ready | several nodes, READ COMMITTED, a fixed lock order, non-locking reads, a password check outside the transaction, deadlock victims, a lost COMMIT answer |
| **Identity directory** `src/sharedauth/profiles.go`, `service.go:80-91,177-237` | `ygg_go_identities` | ResolveIdentityByUUID / ByName / ByNames, EnsureIdentity | concurrent allocation, UUID collisions, players above and below the watermark, locks in pid order |
| **Schema and triggers** `src/sharedauth/migrations` | tables, two triggers on `users` | Upgrade, VerifyHooks, VerifyResolutionSchema | the triggers are what revokes tokens when the *site* changes an account |
| **Migration plans** `src/sharedauth/migrationplan` | plan file, `ygg_go_state`, staged identities | Snapshot, Build, Save, Apply, Verify, Activate, Deactivate | classification of legacy mappings; a frozen source that moves again once the gate is open |
| **Resolution plans** `src/sharedauth/resolutionplan` | blocked and retired identities | Build, Apply, Verify, Activate, Deactivate, Rollback | a rollback must not pull an identity from under a token |
| **Operator CLI** `cmd/shared-auth-migrate` | none | one command per plan function | order of commands |
| **Legacy handlers** `src/handlers/{auth,session}.go` | the caches below | the same client calls without shared authorization | read, delete and store in separate calls |
| **Token and session caches** `src/cache/{memory,file,redis,database}` | map, files, keys or rows | Store, Get, Delete, GetUserTokens, DeleteUserTokens, CleanupExpired | keys and indexes must agree; recursive read locks; Redis calls interleave |
| **User cache** `src/cache/user_cache.go` | sync.Map with expiry | Get, Set, Delete, cleanup | expiry races renewal |
| **BlessingSkin storage** `src/storage/blessing_skin` | two-way LRU cache over the `uuid` table, options, policy | GetOrCreateUUID, GetUUIDsByNames, UpdateUUIDMapping, lookups | check, then create; a cache that outlives a rename; names compared by collation in SQL and by bytes in Go |
| **File storage** `src/storage/file` | maps under one RWMutex, JSON files | users, players, textures | recursive read lock, files saved one at a time |
| **Rate limiter** `src/middleware/rate_limit.go` | last request per address | Allow, cleanup | boundary of the interval |
| Other handlers, middleware, utilities, configuration, start-up | none that changes | formatting, signing, wiring | nothing concurrent |

How they interact. A handler calls either the shared service (`h.shared != nil`) or the legacy
caches and storage, never both for one token. The shared service calls nothing but the database
and the account policy (`SharedAuthPolicy`, `src/storage/blessing_skin/storage.go:238`). The
site edits `users` and `players` without knowing of the service, except through the triggers of
migrations 006 and 007. The operator's commands meet the service in one row, `ygg_go_state`,
which every call locks for share and a command locks for update.

What makes each part correct:

- *shared authorization*: a call that succeeds was entitled to, at the moment it commits; a
  revoked token never works again; a refresh replaces a token exactly once; the token limit holds
  and the oldest go first; a live join session is not replaced; HasJoined answers for the session
  it authorized; every call returns;
- *identities*: one active identity per player, one player per UUID; tokens are bound to active
  identities of players of the account;
- *plans*: identities change only while no call runs; what was verified is what is activated;
- *legacy caches*: what was deleted is not found again, whichever backend is configured; a session
  is answered once;
- *storages*: memory and disk agree after a restart; a name keeps its UUID.

The hazards, with their lines and the properties that would catch them, are the `hazards` of
`PROJECT.json`; a hazard without a property has a note that says why.

## 2. Plan

| Step | Modules | State |
|---|---|---|
| shared authorization | `SharedAuth` over `RowStore`, invariant, proofs | done |
| identity directory | `IdentityDirectory` over `RowStore`, invariant, proofs | done |
| schema, plans, resolutions, operators | `Migration`, proofs | done |
| legacy authorization over its caches | `LegacyAuth`, which implements `TokenPromise`; proofs | done |
| legacy UUIDs and their LRU cache | `UuidDirectory`, invariant, proofs | done |
| file storage | `FileStore`, proofs | done |
| one atomic step per shared call | `AuthPromise`, implemented by SharedAuth at COMMIT; proofs | done |
| statements that lock several rows one at a time | `RowOrder` | not started |

The components meet in these places. `SharedAuth`, `IdentityDirectory` and `Migration` share the
state row and the identities: SharedAuth has the gate commands and the resolutions as environment
steps that need the locks the commands take, and Migration has the runtime's writes as
environment steps that need the gate open and unlocked. `LegacyAuth` uses of the storage only
which profiles an account has; `UuidDirectory` and `FileStore` are two storages behind the
same interface, of which a configuration uses one.

## 3. Modules

| Module | Contents |
|---|---|
| `RowStore` | the part of InnoDB the service relies on: committed rows, row locks, buffered writes. External code, modelled from its use. |
| `SharedAuth` | the service, the site, the operator and the clock; all properties |
| `AuthPromise` | what each shared call promises, as one step on the tables: the abstract specification |
| `SharedAuthInv` | what a transaction knows at each statement: `Inductive`, and its strengthenings `Strong`, `Limited` and `Exact` |
| `MCSharedAuth` | calls and initial rows of the TLC instances, five `.cfg` files |
| `IdentityDirectory` | `EnsureIdentity`, the lookups of profiles.go, the profiles of a login; its properties and its inductive invariants `DirectoryInv` and `CallsInv` |
| `MCIdentityDirectory` | calls and initial rows of its instances, three `.cfg` files |
| `Migration` | cmd/shared-auth-migrate: DDL, plan files, Apply, Activate and Deactivate, resolutions, with the site and the runtime beside them |
| `MCMigration` | a site with a duplicate name and a lost mapping |
| `LegacyAuth` | the handlers without shared authorization over the memory, file, Redis and database caches |
| `TokenPromise` | what a token store promises: the abstract specification |
| `MCLegacyAuth` | two requests and the cleanup routine, every cache |
| `UuidDirectory` | UUIDs of the BlessingSkin storage, two LRU caches per node; its properties and its inductive invariant `Provenance` |
| `MCUuidDirectory` | two nodes, three requests, two spellings of a name and another name, caches of one entry |
| `FileStore` | the file storage: lock, tables, files, crashes |
| `MCFileStore` | three requests, two accounts, two players, one texture |
| `RowStoreProofs` | each RowStore operation preserves `StoreInv` |
| `SharedAuthProofs` | each action preserves `Inductive`; the theorems about authorization |
| `SharedAuthRowsProofs` | each action preserves `Strong`, `Limited` and `Exact`; the theorems about logins, joins, revocation, refresh, deadlock and the token limit; SharedAuth implements AuthPromise |
| `IdentityDirectoryProofs` | each action preserves `DirectoryInv` and `CallsInv`; the theorems |
| `UuidDirectoryProofs` | the LRU cache keeps its promises; each action preserves `Provenance`; the theorems |
| `MigrationProofs`, `LegacyAuthProofs`, `FileStoreProofs` | the inductive invariant `Inv` of each specification; the theorems |

### RowStore

`db` holds the committed rows; `seen[t]` the keys transaction `t` has locked with the value it
read, `excl[t]` the keys locked exclusively, `buf[t]` its uncommitted writes. `Statement(t, sh, ex,
w)` share-locks `sh`, locks `ex` exclusively and writes `w`; it is enabled only when no other
transaction holds a conflicting lock, which is how waiting appears. A row that does not exist is
not locked, as under READ COMMITTED; an INSERT locks the key it makes. `CommitTx`, `RollbackTx`
and `AutoCommit` (a writer from outside) end or bypass a transaction.

### SharedAuth

One action is one SQL statement, or a few statements nothing can come between. `pc[t]` names the
statement that comes next, `call[t]` holds the arguments, `loc[t]` the Go variables that outlive a
statement. `transact` (service.go:93-131) is `Begin`, `Commit` and `Rollback`: the gate row is
locked for share, a failed check goes to `"fail"`, where the deferred rollback runs.

| Code | Actions |
|---|---|
| `authorize` auth.go:288-344 | FindOwner (no lock), LockUser, LockGeneration, LockToken, LockPlayer, CheckExpiry |
| `Validate` | Begin, authorize, Commit |
| `Refresh`, `issueToken` | authorize, Select when a profile is chosen, DeleteOld, Issue |
| `Invalidate` | FindOwner, LockUser, LockGeneration, LockToken, DeleteInvalidated |
| `Authenticate` authenticate.go | Resolve and Verify outside the transaction; LockUser, CheckLogin, EnsureSubject, LockVictims, LoginProfiles, BindLogin, Issue |
| `Signout` | Resolve, Verify, LockUser, CheckLogin, Bump |
| `Join` | authorize, ClearSession, InsertSession, CompareSession when the key is taken |
| `HasJoined` | FindSession (no lock), authorize, CheckName, LockSession |
| `CleanupExpired` | DeleteTokens, DeleteSessions |
| triggers 006, 007 and site edits | UpdateUser, DeleteUser, SetPlayer |
| resolution Apply, Rollback; gate commands | ResolveIdentity, RollbackIdentity, Activate, Deactivate |
| any statement failing | SqlError; a deadlock victim is AbortVictim |

Abstractions: a token hash stands for its access token, a password for its hash, a pid for the
player's identity id and UUID (unique keys make them one-to-one), the account policy is its two
conditions, names and e-mails are two disjoint sets of logins. Authenticate's UUID provisioning is
one statement with the players' locks. An operator command is one step that needs the locks the
command would take; `Activate` may open the gate whenever it is staged, which allows more than the
commands do. Some operators are marked *(A slip: ...)*: plausible mistakes no action uses, each
paired in `PROJECT.json` with the property that finds it when it replaces the real definition.

`AuthPromise` has no transactions, locks or statements: its variables are the gate, the tables and
the clock, and a client call is one step, `Effect(c)`. `Promise` in SharedAuth reads its tables off
`db`, row by row, and `TakesEffectAtOnce` is its specification of them. The COMMIT of `t` maps to
`Effect(call[t])`, or to no change where the call has nothing to write; every other statement maps
to no change; the site, the operator and the clock map to their own steps. What a call read long
before has to hold at that COMMIT, where AuthPromise asks for it again. Two things do not happen at
once, and the abstract steps say so: the row that is stored carries a moment `at` that may be past,
and the tokens to evict are chosen by the expiry of an earlier moment, so an expired one may go and
no live one may be lost that is newer than one that stays.

### IdentityDirectory

The rows are players, identities under `uq_identity_player`, and the keys of `uq_identity_uuid`.
`published` is a history variable: the UUIDs that callers were told of each player. A COMMIT whose
answer is lost stores the rows and publishes nothing.

| Code | Actions |
|---|---|
| `EnsureIdentity` service.go:80-91 | LockPlayer, Ensure, Insert, Adopt, Commit |
| `ensureIdentity` service.go:198-232 | Ensure (read, watermark, first candidate), Insert, Adopt (after a duplicate key: the other node's row, or the next of three candidates) |
| `ResolveIdentityByUUID` profiles.go:11-32 | FindUuid (no lock), LockPlayer, Read |
| `ResolveIdentityByName` profiles.go:36-43, 122-141 | FindName (no lock), LockPlayer, Recheck, `ensureIdentity` |
| `ResolveIdentitiesByNames` profiles.go:47-120 | FindName for each name, then per player in pid order LockPlayer, Recheck, `ensureIdentity`; Answer for each name |
| `loginProfiles` authenticate.go:144-179 | LockProfiles, then per player in pid order Read, `ensureIdentity` |
| edits of players by the site | SetPlayer |

Abstractions: the gate stays active here (SharedAuth has it), so the initial identities are what a
migration left: active, blocked, retired or reserved. A candidate is any member of `Uuid`, those in
use included. An INSERT takes its two unique keys in one step, and finds the duplicate of either;
names of a batch are read in any order, which covers every order of the argument. A login's
password check and account locks are SharedAuth's and left out. A deadlock that needs an INSERT to
be rolled back while two others wait for its key is not modelled.

### Migration

`objects` are the tables, the column and the triggers that exist; `state` is the row of
`ygg_go_state`, `identities` the rows by the action that inserted them, `references` the
identities that a token or join session refers to. `run[o]` is the command of operator `o` and
where it is. A DDL statement commits by itself, so each is a step (`Following` has their order)
and an error may end the command after any of them; what a command verifies outside its
transaction is a step; a transaction is one step per table it locks, and its writes appear with
the last one.

| Code | Actions |
|---|---|
| `Upgrade`, `UpgradeResolutionSchema`, `DowngradeResolutionSchema` migrations.go | an action of that name, then `Statement` until `done` |
| `ActivateResolutionSchema`, `DeactivateResolutionSchema` | VerifySchema, then an action of that name |
| dry-run: `ReadSnapshot`, `Build`, `Save` migrationplan | DryRun; `Build`, `playerReason` and the three sets of actions are the classification |
| `Apply` apply.go:26-110 | requireSnapshot, LockGate, Apply |
| `Activate` apply.go:201-248 | VerifyBeforeActivate, requireSnapshot, LockGate, Activate |
| `Deactivate` | Deactivate |
| resolutionplan: dry-run, Apply, Rollback | ResolutionDryRun; requireStaged, then Resolve or Rollback |
| resolutionplan: Activate, Deactivate | VerifyBeforeResolved, ActivateResolved; DeactivateResolved |
| an error, a timeout, the end of the process | Stop |
| the site; the runtime | EditPlayer, EditMapping; EnsureIdentity, Refer, Release |

Abstractions: a plan file is the id and the site snapshot it was built from (`Build` is a
function, and every write command confirms the digest); the check that a plan path is free and
the rename into place are one step for that reason. A resolution plan holds one pair of rows; the
code treats each pair of a larger plan alike in one transaction. Names carry a sort weight in
place of the collation. DDL runs in the maintenance window that src/sharedauth/README.md:40 asks
for: no other command runs beside it. Activate locks the site's tables before the state row and a
resolution locks them after it: a deadlock of the two ends one of them, which is a `Stop`.
`Verify` commands change nothing and `Downgrade` (migrations.go:363) has no caller.

What the code says of a second activation: apply.go:220 and migrationplan/README.md:19 ask for a
newly reviewed plan after a Deactivate, docs/shared-auth-deployment.md:36 and the README at :40
use the first one again. The code takes the same plan as long as the site and the rows are as it
says, and no other, because the state row keeps the id of the plan that was applied; once the
runtime has created an identity, neither passes, and the gate opens through a resolution plan
only.

### LegacyAuth

A cache operation under its process's mutex, or in one statement, is one step; each command of the
Redis cache is one. `claims` are the issued JWTs, `entries` the keys under which the cache holds
tokens, `index` its list per account, `sessions` the join sessions; the remaining variables are
histories that the properties speak of. `Settings` pairs each cache with its bounds.

| Code | Actions |
|---|---|
| Authenticate auth.go:44, second half of Refresh | Authenticate, Store; Redis: RedisSet, RedisSAdd |
| Refresh auth.go:190 | Refresh, Delete (Redis: RedisSRem, RedisDel), then Store |
| Invalidate, Signout | Invalidate, Delete; Signout, Purge (Redis: RedisSMembers, RedisPurgeOne, RedisPurgeList) |
| Join, HasJoined session.go | Join; HasJoined, Answer |
| CleanupExpired of the caches | Cleanup; Redis: RedisList, RedisExists, RedisCard, RedisDrop |
| time; the process | Expire, Age; Restart |

What the model brings out, and the exceptions in its properties name. The memory cache stores a
token under `user:tokenID` and deletes under the bare access token, so its deletions never find
anything; the file cache does the same when it deletes all tokens of a user, so there a signout
revokes nothing. Errors of Delete are ignored by the handlers (auth.go:217, 339, 366). In Redis, a
list that is deleted beside a Store loses the id of a token that stays valid. The file cache's list
may be left as it was or count as empty when it cannot be written (`ListFails`); a torn token entry
counts as absent. Left out: the seven days after which Redis drops a list that no Store has
refreshed (the EXPIRE of redis/token_cache.go:91 and its error), and operations no handler calls (GetUserTokens, GetUserTokenCount, the user cache).

`TokenPromise` says what remains true of every cache: a token becomes valid once, and what has
ended never comes back. LegacyAuth implements it with `live` the tokens a request would find and
`seen` those that have been stored.

### UuidDirectory

One action is one SQL statement with the cache operations around it. `rows` is the table
`uuid(id, name, uuid)`, which no unique key protects; `byName` and `byUuid` are the LRU caches of
each node, most recently used first. A single lookup is GetProfileByName or GetProfileByUUID, then
GetOrCreateUUID, FindOrGenerate, Create, GetNameByUUID, FindName, Answer; a batch is
GetProfilesByNames or GetUser, then BatchGet, BatchFind, BatchInsert, BatchAnswer. RenamePlayer,
UpdateUUIDMapping, CheckName and SaveName are a rename; AddPlayer and DeletePlayer are the site's;
Restart empties a node's caches, preloads them (or not, when the query fails) and loads the option
`ygg_uuid_algorithm` again, which each node does for itself and replaces by v3 when it cannot
(options.go:34, uuid.go:34). `Starts` has what the nodes may find when they first start: the
algorithm of each, the players, and the table, which is older than the nodes and may have several
rows of a name or of a UUID.

A name is a spelling. `Alike` is the collation of the tables (utf8mb4_unicode_ci,
docs/blessingskin.md:43) and decides every WHERE, IN and JOIN on a name (`RowsOf`); the caches, the
maps of the batch and version 3 have exact keys. So `asked`, the client's spelling, is a variable
of a lookup beside the player's name, and BatchFind compares twice: rows are met under the
collation, and a name is lacking unless a row has its very spelling.

The properties name what the code leaves open.

- A UUID is created under the spelling that was asked for (profiles.go:134), and a batch takes a
  row in another spelling for none (uuid.go:208). One node, version 3, nothing fails: `GET
  .../minecraft/steve` stores and answers v3("steve") for the player Steve, then `POST ["Steve"]`
  generates, stores and answers v3("Steve"). Both rows stay, and AnswersAgree says no more than
  that: two UUIDs of a name are both in the table, in two spellings.
- Two requests may create one name's UUID at once when UUIDs are random (uuid.go:96), or when two
  nodes have loaded different algorithms.
- A batch caches UUIDs before it inserts them and keeps them when the INSERT fails (uuid.go:238,
  243). This is visible even while nothing fails: between the two lines another request of the node
  answers with a UUID that is in no table, and another node, which does not see it, may create and
  answer a different one.
- No cache hears of a rename (uuid.go:172).
- What the table held before the nodes started is answered as it is.

Simplified: UUIDs in the table are written as the code writes them, and none is empty; random UUIDs
do not collide and version 3 is injective; the two Puts of a mapping, and the Puts of one loop, are
one step. Left out: GetUserProfiles, which no handler calls; the second lookup of profiles.go:221,
which is out of reach, as every name of a batch is found, cached or generated (the skip of
uuid.go:228 needs an error that GenerateUUID never returns). UpdateUUIDMapping has no caller in the
repository either; it is modelled because it is the storage's only way to keep a player's UUID over
a rename.

### FileStore

`users` and `players` are the tables in memory, `usersFile`, `playersFile`, `texturesFile` and
`meta` what the disk holds; `writer` and `holds` are the RWMutex: a writer that arrives closes it
to readers and waits for those inside. An operation is Lock, Announce, then its change
(CreateUser, UpdateUser, DeleteUser, CreateProfile, UpdateProfile, DeleteProfile, UploadTexture,
DeleteTexture or Refuse), Truncate and SaveUsers, SavePlayers or SaveMeta, or SaveFails; a lookup
is StartRead, GetPlayerTextures where the code nests one, EndRead. Crash loses the memory at any
write; Start, LoadUsers, LoadPlayers, LoadTextures read the files, and StartFails ends a start that
meets a torn one. The server itself calls the lookups and UploadTexture (main.go:211); the other
operations are the rest of the interface. Left out: `userProfiles`, from which nothing is answered,
and the images. DeleteTexture does not look at the error of os.Remove (textures.go:167, 170): it
may leave the metadata and report success, and `undeleted` remembers the texture. E-mails, UUIDs
and texture hashes are taken to be distinct keys.

## 4. Runs

| Run | Question | Bounds |
|---|---|---|
| `tokens` | Do authorization, replacement, eviction and revocation stay exact, and does each call act in one step, when two nodes log in, refresh, invalidate, sign out and clean up while the site changes the password or permission, deletes the account, and time passes? | 1 account, 3 hashes, limit 2, lifetime 2, clock to 2, 2 generations, 2 transactions |
| `sessions` | Can a live join session be replaced, or HasJoined answer for another one? | 1 player, 2 tokens, 2 addresses, 1 server, session lifetime 1, statement errors, renames |
| `gate` | Does closing the gate wait for calls, and can a token end up on a blocked identity? | 2 players, one of them blocked; logins by name and e-mail, choice of profile |
| `logins` | Do the checks made before the transaction hold at its COMMIT? | 2 accounts, one player that changes owner and name, verification required |
| `lookups` | Is an answer still true at COMMIT, when players change name and owner, go and come between the lookup and the lock? | 3 players (one migrated without a mapping), 3 names, 3 UUIDs (one reserved), 2 accounts, 2 transactions |
| `allocation` | Do several nodes that meet new players agree on their UUIDs, through collisions, errors and lost answers? | 2 new players and a retired one, 4 UUIDs, 2 transactions |
| `collisions` | Which allocations can deadlock? | 3 new players, overlapping batches and a login, 3 UUIDs, 2 transactions, no errors |
| `migration` | Can commands that interleave, stop half-way and meet the site and the runtime open an unguarded gate, open it over unreviewed rows, or take an identity from under a token? | 2 operators, 2 plan ids, 3 players (two names of one collation, one player without a mapping), 2 legacy rows, 2 edits of the site, 1 UUID the runtime draws |
| `legacy` | What does each cache keep of its promise when requests, cleanup, failures and restarts interleave? | 2 accounts, 2 tokens, 2 joins, 1 server id, 2 requests; per cache 1 failed operation and 1 restart (Redis: 2 tokens without faults; 1 token with both) |
| `uuids` | When do two nodes tell a name two UUIDs, and does a profile show its own textures? | 3 names of which 2 are alike, 6 UUIDs, caches of 1 entry, 3 requests at once; v3 on both nodes, v4 on both, or one of each; table empty, or with a UUID of two names and a name with two UUIDs; 3 lookups with a failed INSERT, 2 with a failed INSERT and a restart or a change by the site, or (one start) 2 with 2 changes |
| `files` | Does what was acknowledged survive crashes and failed writes, which requests can deadlock, and does every one return? | 2 accounts, 2 players, 2 names, 1 texture, 3 requests; 3 changes and a crash, or 2 changes, a failed write or removal and 2 crashes |
| `returns` | Which calls can deadlock, and does every call return? | 2 accounts, 2 players, 1 server, no clock; under fairness |

Why the bounds are enough to matter. Two transactions are what every race above needs: one that has
read and one that writes; the site, the operator and the clock are further actors that are not
transactions. Three hashes allow a refresh of one of two tokens at a limit of two, and a login
that must evict. A clock up to 2 reaches creation, the exact expiry instant and the time after.
Two generations are one revocation after the first login. `MaxGeneration` and `MaxTime` bound the
counters in the guards of Bump, the site's actions and Tick; the other constants are sets.
Hashes and nodes are interchangeable, hence the symmetry; `returns` and `files` check liveness and
use none.

The other runs are small for the same reason. Two operators are a command and one that undoes it;
the pair of rows of one legacy UUID is the smallest site with something to resolve, the second
plan id the smallest plan that is not the applied one, and two edits take a name away and give it
back. Two tokens are a refresh, two joins a session that is replaced; one failed operation and one
restart at every point are each a fault that the code has to survive alone. A cache of one entry
evicts at the second name; three names are two spellings of one and another one, and six UUIDs are
their version 3 ones and three random ones, one for each lookup. Of the initial tables, the empty
one is where everything is created, and one with a row of either kind of duplicate is where
nothing has to be. The third request at once is needed for one whose batch has cached and not
inserted, one that answers from that cache, and one on the other node that saves another UUID. In
`files`, three requests are the nested reader, the writer between its locks, and one that has to
wait for both. `edits`, `budget` and `Settings` bound the behaviours; every bound is named in the
module.

Every run checks for deadlock of the whole system as well, except `migration` and `uuids`, where a
behaviour ends when its edits, plans and calls are used up, and `files`, where a lookup deadlocks
with a writer: OnlyNestedReads says that nothing else does.

Properties, each about several actors or two points in time:

- `AuthorizedAtCommit`: none of authorize's checks is stale when its call can commit;
- `LoginHolds`: nor is the password, ban, verification or name check of a login;
- `RefreshReplaces`: of two refreshes of one token at most one succeeds, and nothing else changes;
- `EvictsOldest`, `TokenLimitHolds`: live tokens disappear only for the reasons the code has, the
  oldest first, and there are never more than the limit;
- `RevokedForGood`: revocation reaches tokens that are being refreshed at that moment, for ever;
- `SessionKept`, `JoinedNow`: join sessions;
- `GateQuiet`, `TokenIdentityActive`: the gate, and why a rollback may change identities behind it;
- `OnlyJoinsDeadlock`: the lock order leaves one deadlock, two Joins of one taken server id, in
  agreement with docs/shared-auth-design.md, which promises an order and not its absence;
- `TakesEffectAtOnce`: the calls that change tokens act as the one step of AuthPromise, which states
  all their conditions at the moment of COMMIT;
- `CallsReturn`: every call returns;
- `PublishedForGood`, `OnePlayerPerUuid`: allocation of UUIDs, over the whole history of answers;
- `MigrationDecides`: lookups leave migrated players to the migration;
- `AnswerHolds`: an answer is true when it is given: the player exists, has the UUID, and still has
  the name, the UUID or the owner that was asked for;
- `OnlyCollisionsDeadlock`: allocations deadlock only when a node draws the UUID another has just
  drawn; `collisions` reaches such deadlocks, which take three new players and a node that waits
  for a player of the other. Visiting players out of pid order would deadlock without a collision.

- `OpensOnReviewed`: the gate opens only over rows that are as a reviewed plan says, and over the
  site as it was reviewed, although site, runtime and operators go on between the checks;
- `GuardedGate`: while it is open, the triggers that revoke tokens are installed;
- `PlanKeepsUuids`: the classification decides every player once, loses no legacy UUID, and gives
  none to a player of another name;
- `AuditLinks`, `ReferencesActive`: resolutions and rollbacks in any order keep each resolved row
  with its player's identity and take none from under a token;
- `RevokedIsGone`, `AnsweredIsGone`: what was revoked or answered is gone, but for the reasons
  named; `KeepsPromise`: LegacyAuth implements TokenPromise;
- `CachedWasStored`, `AnswersAgree`, `TexturesOwn`: what caches say, what nodes tell, whose
  textures are shown, over spellings, failures, restarts and renames;
- `AcknowledgedHolds`, `NamesDistinct`: memory and disk of the file storage;
- `OnlyNestedReads`, `Returns`: the one deadlock of its lock, and that every request returns
  unless it is in it.

The runs show the code doing what these properties say; the exceptions a property names are
facts about the code, listed with each module in section 3. No run expects a violation.

**Fairness** (`FairSpec`). Strong fairness of each transaction's own steps: InnoDB queues lock
requests, so a statement that becomes possible again and again is granted; a goroutine that can
run does. Weak fairness of `AbortVictim`: InnoDB's detector ends a deadlock as soon as it forms.
Nothing is assumed of clients, the site or the operator: `Start` and the environment are not fair.

`FileStore` has weak fairness of each request's own steps, `Step(t)`: a goroutine that can run does,
and `sync.RWMutex` lets no waiter starve: a writer closes the lock to new readers, and lets the
waiting ones in before the next writer. Requests may start, fail and crash as they like. The other
specifications are safety only.

## 5. Proofs

`RowStoreProofs` shows that a statement, a commit, a rollback and an outside write preserve
`StoreInv`: what a transaction read under a lock is still the committed value, exclusive locks
exclude, and only exclusively locked keys are written.

`AuthorizedAtCommit` is not inductive: it speaks of transactions at COMMIT only, and of committed
rows. `Inductive` (SharedAuthInv) says for every statement what the checks so far found *in the
rows the transaction has locked* (`Knows`: GateRead, UserRead, SubjectRead, TokenRead, PlayerRead),
which calls reach it (`Route`), which Go variables are set (`Arguments`) and what can have been
written (`WritesOf`); `StoreInv` carries that over to the committed rows. One fact has no lock of
its own: the state of an identity is read without one, and stays because identities change only by
an operator who needs the gate row this transaction holds. A step of `t` needs `Knows(t)` for the
next statement; a step of anybody else keeps `Knows(t)` because it cannot write what `t` has locked.

`SharedAuthProofs` has one lemma per action (`...Keeps`) and the theorems

| Theorem | States |
|---|---|
| `InductiveInvariant` | `Spec => []Inductive` |
| `TypeCorrect` | `Spec => []TypeOK` |
| `GateIsQuiet` | `Spec => []GateQuiet` |
| `AuthorizationHolds` | `Spec => []AuthorizedAtCommit` |

for any number of transactions, accounts, players, tokens and calls and any bounds. The only
assumption is `SharedAuthAssumption`: types of the constants, `None` and `NoRow` are none of the
values, names are not e-mails, and calls have the arguments the handlers insist on. TLC evaluates
it, and checks `Inductive`, in the run `tokens`. The theorems of the next two modules assume the
same.

`Strong` (SharedAuthInv) is `Inductive` and three things more.

- `LockOrder`: before the statement that locks the first subject, token, identity or session, a
  transaction holds no row of that kind; the rows of the site and the gate are only shared, subjects
  only locked exclusively. One Join may ask for a session it holds: the one it has just deleted.
- `LoginRead`, `BindingRead`: what logins, refreshes and HasJoined have found in the rows they hold.
- `HasWritten`, `RefreshWrites`: what may be in a transaction's writes. A subject's generation only
  grows; a token is stored under a key without a row, with the subject locked and its generation; a
  session goes in the place of none or an expired one; a Refresh drops one token and stores one.

`TokensKept` says of the committed tokens that none is ahead of its subject and none is bound to a
blocked identity. The others keep `KnowsMore(t)` for the reason they keep `Knows(t)`; a COMMIT and
the triggers let generations grow, and a resolution blocks only identities that no row refers to.

| Theorem | States | Follows from |
|---|---|---|
| `StrongInvariant` | `Spec => []Strong` | one lemma per action (`...More`) |
| `LoginsHold` | `Spec => []LoginHolds` | LoginRead |
| `JoinsHold` | `Spec => []JoinedNow` | BindingRead, and `Inductive` for the authorization |
| `BindingsActive` | `Spec => []TokenIdentityActive` | TokensKept, HasWritten |
| `SessionsKept` | `Spec => SessionKept` | HasWritten: nobody writes over a session that lives |
| `RevocationFinal` | `Spec => RevokedForGood` | TokensKept and the growth of generations: a token behind its subject stays behind |
| `RefreshesReplace` | `Spec => RefreshReplaces` | RefreshWrites |
| `DeadlocksAreJoins` | `Spec => []OnlyJoinsDeadlock` | LockOrder |

The last one is an argument about every set of transactions that wait for each other: the kind of
row a member waits for is no earlier than that of the rows it holds, so all of them wait for one
kind; a transaction that waits for a kind holds no row of it, unless it is a Join in
`insertSession`; so all of them are.

`TokenLimitHolds` needs a count that survives until COMMIT. `Limited` keeps, for a login, that the
tokens it has locked include all the live ones of its account and are at most TokenLimit, and which
of them it drops (`LoginFits`); for a refresh, that the live tokens with its own are at most the
limit (`RefreshFits`); and that no other call stores a token (`OthersDrop`). What makes this stay
true is one lemma: a token that was not live becomes live only at a COMMIT that holds the lock of
its owner's subject (`LiveAfter`), so while a login or refresh holds that lock its account gains no
live token, whatever the clock and the other nodes do.

| Theorem | States |
|---|---|
| `LimitedInvariant` | `Spec => []Limited` |
| `LimitHolds` | `Spec => []TokenLimitHolds` |
| `EvictionsAreOldest` | `Spec => EvictsOldest`: a login that drops a live token has found TokenLimit of them, and drops one |

That SharedAuth implements AuthPromise needs to know of every operation exactly what it has
written. `Exact` adds to `Limited`, statement by statement: a login has stored one token, made its
subject and the identities of players it holds, and evicted what it chose (`LoginWrites`); an
Invalidate, a Signout, a Join and a Cleanup have written their one row or a few expired ones
(`InvalidateWrites`, `SignoutWrites`, `JoinWrites`, `CleanupWrites`); a refresh binds its token as
asked (`RefreshBinds`); a Validate and a HasJoined write nothing; and a call works on the token it
was given. `CallsTakeEffect` then goes through the operations at COMMIT. `Exact` gives the new
tables; the conditions are those of rows the transaction has locked, hence true of the committed
rows by `StoreInv` (`AuthorizedNow` and `LoginNow`, which AuthorizationHolds and LoginsHold also
rest on); the limit is that of `Limited` after the step. The generation of a login's token is
the subject's even when the login has made it. All other statements leave `db` alone.

| Theorem | States |
|---|---|
| `ExactInvariant` | `Spec => []Exact` |
| `CallsTakeEffect` | `Spec => TakesEffectAtOnce`: the initial states are those of AuthPromise, and every step is one of its steps or a stutter |

`Strong`, `Limited` and `Exact` were checked with TLC on the instances of all five SharedAuth runs
before they were proved, and `TakesEffectAtOnce` as well, so that TLC has seen every operation.

`IdentityDirectoryProofs` proves the identity directory the same way. `PublishedForGood` alone is
not inductive: a COMMIT publishes what Go variables hold and stores what the transaction has
buffered. `DirectoryInv` adds that what a call has found is in its view of the rows (`Sound`), that
what it has inserted was free when it locked the key and is an active identity together with the
key of its UUID (`Inserted`), and that committed identities and unique keys agree and never change
(`Permanent`). A COMMIT then writes only keys that had no row, so it changes nothing anybody was
told; `StoreInv` makes the free keys stay free until then.

| Theorem | States |
|---|---|
| `DirectoryInvariant` | `Spec => []DirectoryInv` |
| `UuidIsForGood` | `Spec => []PublishedForGood` |
| `UuidsAreApart` | `Spec => []OnePlayerPerUuid` |
| `MigratedPlayersKeepTheirs` | `Spec => []MigrationDecides` |

An answer and a deadlock are about what calls hold, not only about what is stored. `CallsInv` is
`DirectoryInv` and what each call has made sure of: it knows UUIDs of no player but those it has
locked and found to be the ones asked for (`Reached`, `Asks`); it writes nothing but new identities
with their keys, and locks nothing else exclusively (`OwnLocks`); and all it has inserted is of
players before the one it is visiting (`InOrder`). It needs `Route` (which statements a call
reaches) and `Locked` (the player a call works on is locked, and was there).

| Theorem | States | Follows from |
|---|---|---|
| `CallsInvariant` | `Spec => []CallsInv` | one lemma per action |
| `AnswersHold` | `Spec => []AnswerHolds` | Asks: the player and the name, UUID or owner are in rows the call holds for share |
| `DeadlocksAreCollisions` | `Spec => []OnlyCollisionsDeadlock` | OwnLocks, InOrder |

The last one holds for every set of calls that wait for each other. Nobody waits for a share lock,
since what is locked exclusively is not committed and hence not found. So every member waits to
insert; without a collision of UUIDs it waits for the identity key of the player it visits, which
the other inserted before it went on to a later player. Each member then waits for one that visits
a later player, and nobody can wait for the one whose player is the first: a contradiction.

`CallsInv` was checked with TLC on the instances of the runs `lookups`, `allocation` and
`collisions` before it was proved.

They assume `DirectoryAssumption` only: types of the constants, and of the rows a migration leaves
that a blocked identity has no UUID and that no two identities share one (the check and the unique
keys of 001_identities.sql). TLC evaluates it, and checks `DirectoryInv`, in the run `lookups`.

`MigrationProofs` proves `Inv`: types, `KnownOK`, `RowsOK`, GuardedGate, AuditLinks and
ReferencesActive. GuardedGate alone is not inductive: hooks and schema are verified before the
transaction that relies on them. `KnownOK` says what each command knows between two steps: DDL is
alone, the site is locked as the plan saw it, the hooks found are still there (no statement drops
one while another command runs), the plan is on file. AuditLinks needs `RowsOK`: a blocked or
resolved row was inserted as one, with the player of its key, so that two resolved rows of one
player would be one row; a rollback hence takes an identity from under its own audit link only.

`PlanKeepsUuids` is about one state, and what it needs of the behaviour is only that the site's
tables stay tables. Its proof goes through the cases of the classification: a player who keeps a
legacy UUID is alone with its name, its row is alone with that name and with that UUID
(`ReasonActive`); a UUID made from a name is no row's and no other player's (`ActiveIs`); what is
left of the legacy UUIDs is reserved by its first row, which exists because row ids are natural
numbers (`FirstRow`).

| Theorem | States |
|---|---|
| `Typed`, `GateStaysGuarded`, `AuditLinksHold`, `ReferencesStayActive` | `Spec => []` TypeOK, GuardedGate, AuditLinks, ReferencesActive |
| `OpensReviewed` | `Spec => OpensOnReviewed`, from `KnownOK` at the two steps that open the gate |
| `PlansKeepUuids` | `Spec => []PlanKeepsUuids`, for every site and every order of its tables |

`LegacyAuthProofs` proves `Inv`: types, `KnownOK` (what a request holds against the cache and the
histories), `JoinsOK`, `FreshOK` (the token a request is about to store was never stored, and no
other request is about to store it) and `RevokedOK`. The refinement needs FreshOK at a Store, which
is an Issue of the promise, and that no other step adds an entry.

| Theorem | States |
|---|---|
| `Typed`, `RevokedStayGone`, `AnsweredStayGone` | `Spec => []` TypeOK, RevokedIsGone, AnsweredIsGone |
| `ImplementsPromise` | `Spec => KeepsPromise`: initial states to initial states, each step to a step or a stutter |

`FileStoreProofs` proves `Inv`: types, `LocksOK` (who is inside the lock, and who waits, for each
step of a request), `ChangesOK` (the one writer's unsaved change accounts for every difference
between memory, disk and what was acknowledged), NamesDistinct and the acknowledged tables.

| Theorem | States |
|---|---|
| `Typed`, `NamesStayDistinct`, `AcknowledgedStays`, `OnlyNestedReadsDeadlock` | `Spec => []` TypeOK, NamesDistinct, AcknowledgedHolds, OnlyNestedReads |

`UuidDirectoryProofs` proves `Provenance`. AnswersAgree alone is not inductive: an answer repeats
what a cache or a request holds, which repeats what a row, a batch or a renamed row said. So
`Truthful` speaks of everything that is said (`Spoken`: cached, found, resolved or told): it was
stored or generated by a batch for a spelling of the name (`Like(Known)`), and if the name was
never renamed it *still* is a row or waits in a batch, or in one whose INSERT failed (`Held`), since
nothing deletes a row and only a rename changes one. What the caches hold is exact: it was stored
or generated in that very spelling. `Derived` says that a UUID is version 3 of its row's spelling,
or random, or of the first table, or that of the name a renamed row had; `Apart`, that a random
UUID has been drawn, so that nobody else draws it, and that two spellings share a UUID only through
renames or from the first table. Two UUIDs told of one name without a rename are then two rows or
batches that are Held; of one spelling they cannot both be version 3. Another's textures need two
names of one UUID. `LocalOf` has the local variables of each step, that the spelling asked for is
alike the player's name, and that what a batch has generated is finitely many mappings.

Two lemmas carry the weight. `PutKeeps`: a Put keeps the capacity and the keys apart, and adds its
own entry only. `PutEachKeeps` says so of a whole batch of Puts, a recursive function over the
batch: the function exists (`AfterExists`) and keeps this, because there is no least place where
it fails (`LeastOf`, from the well-foundedness of the natural numbers).

| Theorem | States | Follows from |
|---|---|---|
| `ProvenanceInvariant` | `Spec => []Provenance` | one lemma per action (`...Keeps`) |
| `TypeCorrect` | `Spec => []TypeOK`, with the capacity and the keys of the caches | PutEachKeeps, GetKeeps |
| `CacheHolds` | `Spec => []CachedWasStored` | Truthful |
| `NamesKeepUuids` | `Spec => []AnswersAgree`, for every collation, first table and choice of algorithms | Truthful, Derived |
| `TexturesHold` | `Spec => []TexturesOwn` | Apart, at Answer |

for any nodes, requests, names, collations, UUIDs, first tables and capacities. The proof corrected the property: AnswersAgree
used to excuse failed batches only, which two requests at once cannot refute; the attempt to prove
it led to the third request that the run `uuids` now has. `Provenance`, of which TypeOK and
TexturesOwn are parts, was checked there before it was proved.

Their assumptions are those of the specifications: types of the constants, `None` none of the
values, for FileStore disjoint kinds of keys and a default table with distinct names, and for
UuidDirectory finitely many names, a value of the collation and one version 3 UUID for each, and
types of what `Starts` offers. TLC evaluates them in the runs
`migration`, `legacy`, `files` and `uuids`.

Checked by TLC only: `CallsReturn` and `Returns`. Liveness under fairness is beyond the prover.

## 6. What is not modelled, and why

In the shared service: statements that lock several rows lock them in one step (RowOrder in the
plan); the locks InnoDB takes on foreign keys and on duplicate token hashes; per-statement
timeouts, which look like `SqlError`; the difference between a COMMIT that failed and one whose
answer was lost (the rows are the same; what the caller is told is not modelled); a change of the
verified flag, which bumps no generation, is modelled as the code has it, with only the user lock
to protect a running call. `Ready` changes nothing and is left out.

In the other modules: what section 3 lists under each as left out.

Other components are listed with their reasons in `PROJECT.json`. The rate limiter is a map of
timestamps under one mutex; the user cache has no caller; the factories of caches and storages and
the configuration are read once at the start. Response formatting, JSON, password hashing, RSA
signatures and metrics have no state that several actors change.
