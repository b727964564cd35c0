----------------------------- MODULE FileStore -----------------------------
(***************************************************************************)
(* The file storage (src/storage/file): accounts and players in memory     *)
(* under one read-write lock, each kind in a JSON file of its own that is  *)
(* written whole after every change, and a metadata file per texture.      *)
(*                                                                         *)
(* The server itself calls the lookups and UploadTexture; the other        *)
(* operations are the rest of the Storage interface. The map userProfiles  *)
(* is left out: no operation answers from it.                              *)
(***************************************************************************)
EXTENDS Naturals, FiniteSets

CONSTANTS
  Emails,          \* keys of users.json
  Uids,            \* account numbers
  Uuids,           \* keys of players.json
  Names,           \* player names
  Images,          \* textures: content and kind
  DefaultUsers,    \* the accounts and players of an empty data directory
  DefaultPlayers,
  Threads,         \* requests
  Bounds,          \* BOUND: changes, failing writes, crashes a behaviour may have
  None

Player == [uid : Uids, name : Names]
UserTable == [Emails -> Uids \cup {None}]
PlayerTable == [Uuids -> Player \cup {None}]

ASSUME DefaultAssumption ==
  /\ DefaultUsers \in UserTable
  /\ DefaultPlayers \in PlayerTable
  /\ \A x, y \in Uuids : x # y /\ DefaultPlayers[x] # None /\ DefaultPlayers[y] # None
                           => DefaultPlayers[x].name # DefaultPlayers[y].name
ASSUME KeysAssumption == Emails \cap Uuids = {} /\ (Emails \cup Uuids) \cap Images = {}
ASSUME NoneAssumption == None \notin Uids \cup Player \cup Uuids \cup Threads
ASSUME BoundsAssumption == Bounds \subseteq [changes : Nat, faults : Nat, crashes : Nat]

VARIABLES
  users, players,            \* the tables in memory
  usersFile, playersFile,    \* state and content of users.json and players.json
  texturesFile,              \* state of textures.json, whose list stays empty
  meta,                      \* meta[i]: the player a texture's metadata names
  torn,                      \* textures whose metadata is half written
  writer,                    \* the request that has closed the lock to readers
  holds,                     \* read locks held by each request
  pc, loc,                   \* per request: next step; the keys it changes, its table
  phase,                     \* of the process: down, what it loads next, up
  budget,                    \* what is left of the chosen bound
  open,                      \* history: keys whose last change was not acknowledged
  purged,                    \* history: players deleted with an account, not yet from the file
  undeleted,                 \* history: textures whose last deletion left the file behind
  acked                      \* history: the tables as the acknowledged changes left them

memory == <<users, players>>
disk == <<usersFile, playersFile, texturesFile, meta, torn>>
rwlock == <<writer, holds>>
history == <<open, purged, undeleted, acked>>
vars == <<memory, disk, rwlock, pc, loc, phase, budget, history>>

Idle == [keys |-> {}, table |-> "none", image |-> None, player |-> None]

Goto(t, l) == pc' = [pc EXCEPT ![t] = l]

(***************************************************************************)
(* sync.RWMutex. A writer that arrives closes the lock to new readers and  *)
(* waits for the readers inside; when it leaves, every reader that waits   *)
(* gets in before the next writer.                                         *)
(***************************************************************************)
RLock(t) ==
  IF writer = None
  THEN holds' = [holds EXCEPT ![t] = @ + 1] /\ Goto(t, "read")
  ELSE Goto(t, "wait") /\ UNCHANGED holds

Lock(t) ==
  /\ pc[t] = "idle"
  /\ phase = "up"
  /\ budget.changes > 0
  /\ budget' = [budget EXCEPT !.changes = @ - 1]
  /\ Goto(t, "lock")
  /\ UNCHANGED <<memory, disk, rwlock, loc, phase, history>>

Announce(t) ==
  /\ pc[t] = "lock"
  /\ writer = None
  /\ writer' = t
  /\ UNCHANGED <<memory, disk, holds, pc, loc, phase, budget, history>>

Inside(t) == pc[t] = "lock" /\ writer = t /\ \A r \in Threads : holds[r] = 0

\* (A slip: the readers that wait are not woken.)
Forget(t) ==
  /\ writer' = None
  /\ pc' = [pc EXCEPT ![t] = "idle"]
  /\ loc' = [loc EXCEPT ![t] = Idle]
  /\ UNCHANGED holds

\* The deferred Unlock, and the return.
Unlock(t) ==
  /\ writer' = None
  /\ holds' = [r \in Threads |-> IF pc[r] = "wait" THEN holds[r] + 1 ELSE holds[r]]
  /\ pc' = [r \in Threads |-> IF r = t THEN "idle" ELSE IF pc[r] = "wait" THEN "read" ELSE pc[r]]
  /\ loc' = [loc EXCEPT ![t] = Idle]

(***************************************************************************)
(* Lookups. GetProfileByUUID and GetProfileByName, when they find the      *)
(* player, call GetPlayerTextures, which takes the read lock again; every  *)
(* other lookup answers under one read lock.                               *)
(***************************************************************************)
StartRead(t) ==
  /\ pc[t] = "idle"
  /\ phase = "up"
  /\ RLock(t)
  /\ UNCHANGED <<memory, disk, writer, loc, phase, budget, history>>

GetPlayerTextures(t) ==
  /\ pc[t] = "read"
  /\ holds[t] = 1
  /\ \E x \in Uuids : players[x] # None
  /\ RLock(t)
  /\ UNCHANGED <<memory, disk, writer, loc, phase, budget, history>>

EndRead(t) ==
  /\ pc[t] = "read"
  /\ holds' = [holds EXCEPT ![t] = 0]
  /\ Goto(t, "idle")
  /\ UNCHANGED <<memory, disk, writer, loc, phase, budget, history>>

(***************************************************************************)
(* Changes. Under the lock: the checks, the change in memory, and the file *)
(* to write. From then on the keys are open until the change is            *)
(* acknowledged.                                                           *)
(***************************************************************************)
Change(t, keys, table) ==
  /\ Inside(t)
  /\ open' = open \cup keys
  /\ loc' = [loc EXCEPT ![t] = [Idle EXCEPT !.keys = keys, !.table = table]]
  /\ Goto(t, "save")
  /\ UNCHANGED <<disk, rwlock, phase, budget, purged, undeleted, acked>>

NameTaken(n, x) == \E y \in Uuids \ {x} : players[y] # None /\ players[y].name = n

\* (A slip: the new account goes into the wrong file.)
CreateUserMisfiled(t) ==
  \E e \in Emails, uid \in Uids :
    /\ users[e] = None
    /\ users' = [users EXCEPT ![e] = uid]
    /\ Change(t, {e}, "players")
    /\ UNCHANGED players

\* The uid is the number the caller gives, or 1.
CreateUser(t) ==
  \E e \in Emails, uid \in Uids :
    /\ users[e] = None
    /\ users' = [users EXCEPT ![e] = uid]
    /\ Change(t, {e}, "users")
    /\ UNCHANGED players

UpdateUser(t) ==
  \E e \in Emails, uid \in Uids :
    /\ users[e] # None
    /\ users' = [users EXCEPT ![e] = uid]
    /\ Change(t, {e}, "users")
    /\ UNCHANGED players

\* The players go with the account, but only users.json is written.
DeleteUser(t) ==
  \E e \in Emails :
    LET own == {x \in Uuids : players[x] # None /\ players[x].uid = users[e]} IN
    /\ users[e] # None
    /\ users' = [users EXCEPT ![e] = None]
    /\ players' = [x \in Uuids |-> IF x \in own THEN None ELSE players[x]]
    /\ Change(t, {e} \cup own, "users")

\* (A slip: the account may not exist.)
CreateProfileUnowned(t) ==
  \E e \in Emails, x \in Uuids, n \in Names :
    /\ ~NameTaken(n, x)
    /\ players[x] = None
    /\ players' = [players EXCEPT ![x] = [uid |-> users[e], name |-> n]]
    /\ Change(t, {x}, "players")
    /\ UNCHANGED users

CreateProfile(t) ==
  \E e \in Emails, x \in Uuids, n \in Names :
    /\ ~NameTaken(n, x)
    /\ players[x] = None
    /\ users[e] # None
    /\ players' = [players EXCEPT ![x] = [uid |-> users[e], name |-> n]]
    /\ Change(t, {x}, "players")
    /\ UNCHANGED users

\* (A slip: the new name is not compared with those of the other players.)
RenameUnchecked(t) ==
  \E x \in Uuids, n \in Names :
    /\ players[x] # None
    /\ players' = [players EXCEPT ![x].name = n]
    /\ Change(t, {x}, "players")
    /\ UNCHANGED users

UpdateProfile(t) ==
  \E x \in Uuids, n \in Names :
    /\ players[x] # None
    /\ ~NameTaken(n, x)
    /\ players' = [players EXCEPT ![x].name = n]
    /\ Change(t, {x}, "players")
    /\ UNCHANGED users

DeleteProfile(t) ==
  \E x \in Uuids :
    /\ players[x] # None
    /\ players' = [players EXCEPT ![x] = None]
    /\ Change(t, {x}, "players")
    /\ UNCHANGED users

\* (A slip: the early return leaves the lock.)
RefuseLocked(t) ==
  /\ Inside(t)
  /\ Goto(t, "idle")
  /\ UNCHANGED <<memory, disk, rwlock, loc, phase, budget, history>>

\* A failed check, or a texture that is not found.
Refuse(t) ==
  /\ Inside(t)
  /\ Unlock(t)
  /\ UNCHANGED <<memory, disk, phase, budget, history>>

(***************************************************************************)
(* Saving. os.WriteFile truncates the file, then writes it. When either    *)
(* fails the operation returns the error, and memory keeps the change.     *)
(***************************************************************************)
Fault == budget.faults > 0 /\ budget' = [budget EXCEPT !.faults = @ - 1]

Cut(file) == [file EXCEPT !.state = "torn"]
Written(data) == [state |-> "saved", data |-> data]

Truncate(t) ==
  /\ pc[t] = "save"
  /\ \/ loc[t].table = "users" /\ usersFile' = Cut(usersFile) /\ UNCHANGED playersFile
     \/ loc[t].table = "players" /\ playersFile' = Cut(playersFile) /\ UNCHANGED usersFile
  /\ Goto(t, "write")
  /\ UNCHANGED <<memory, texturesFile, meta, torn, rwlock, loc, phase, budget, history>>

SaveFails(t) ==
  /\ pc[t] \in {"save", "write"}
  /\ Fault
  /\ Unlock(t)
  /\ UNCHANGED <<memory, disk, phase, history>>

\* The tables as they are now for the keys of t's change.
Acknowledged(t) ==
  [users |-> [e \in Emails |-> IF e \in loc[t].keys THEN users[e] ELSE acked.users[e]],
   players |-> [x \in Uuids |-> IF x \in loc[t].keys THEN players[x] ELSE acked.players[x]],
   meta |-> acked.meta]

SaveUsers(t) ==
  /\ pc[t] = "write"
  /\ loc[t].table = "users"
  /\ usersFile' = Written(users)
  /\ open' = open \ loc[t].keys
  /\ purged' = purged \cup (loc[t].keys \cap Uuids)
  /\ acked' = Acknowledged(t)
  /\ Unlock(t)
  /\ UNCHANGED <<memory, playersFile, texturesFile, meta, torn, phase, budget, undeleted>>

SavePlayers(t) ==
  /\ pc[t] = "write"
  /\ loc[t].table = "players"
  /\ playersFile' = Written(players)
  /\ open' = open \ loc[t].keys
  /\ purged' = {x \in purged \ loc[t].keys : players[x] # None}
  /\ acked' = Acknowledged(t)
  /\ Unlock(t)
  /\ UNCHANGED <<memory, usersFile, texturesFile, meta, torn, phase, budget, undeleted>>

(***************************************************************************)
(* Textures. The metadata file is named after the content, so an upload of *)
(* the same image by another player takes it over. GetTexture and          *)
(* DeleteTexture skip metadata they cannot read, and take the first that   *)
(* names the player.                                                       *)
(***************************************************************************)
UploadTexture(t) ==
  \E x \in Uuids, i \in Images :
    /\ Inside(t)
    /\ torn' = torn \cup {i}
    /\ open' = open \cup {i}
    /\ loc' = [loc EXCEPT ![t] = [Idle EXCEPT !.table = "meta", !.image = i, !.player = x]]
    /\ Goto(t, "write")
    /\ UNCHANGED <<memory, usersFile, playersFile, texturesFile, meta, rwlock, phase, budget,
                   purged, undeleted, acked>>

SaveMeta(t) ==
  LET i == loc[t].image
      x == loc[t].player
  IN
  /\ pc[t] = "write"
  /\ loc[t].table = "meta"
  /\ meta' = [meta EXCEPT ![i] = x]
  /\ torn' = torn \ {i}
  /\ open' = open \ {i}
  /\ acked' = [acked EXCEPT !.meta[i] = x]
  /\ undeleted' = undeleted \ {i}
  /\ Unlock(t)
  /\ UNCHANGED <<memory, usersFile, playersFile, texturesFile, phase, budget, purged>>

\* Whether the file could be removed is not looked at (textures.go:170).
DeleteTexture(t) ==
  /\ Inside(t)
  /\ \E x \in Uuids, i \in Images \ torn :
       /\ meta[i] = x
       /\ \/ /\ meta' = [meta EXCEPT ![i] = None]
             /\ undeleted' = undeleted \ {i}
             /\ UNCHANGED budget
          \/ Fault /\ undeleted' = undeleted \cup {i} /\ UNCHANGED meta
       /\ acked' = [acked EXCEPT !.meta[i] = None]
       /\ open' = open \ {i}
  /\ Unlock(t)
  /\ UNCHANGED <<memory, usersFile, playersFile, texturesFile, torn, phase, purged>>

(***************************************************************************)
(* The process. NewStorage loads users.json, players.json, textures.json;  *)
(* a file that is missing is written with its defaults, one that cannot be *)
(* parsed ends the start.                                                  *)
(***************************************************************************)
NoUsers == [e \in Emails |-> None]
NoPlayers == [x \in Uuids |-> None]

Crash ==
  /\ phase # "down"
  /\ budget.crashes > 0
  /\ budget' = [budget EXCEPT !.crashes = @ - 1]
  /\ phase' = "down"
  /\ users' = NoUsers /\ players' = NoPlayers
  /\ writer' = None
  /\ holds' = [t \in Threads |-> 0]
  /\ pc' = [t \in Threads |-> "idle"]
  /\ loc' = [t \in Threads |-> Idle]
  /\ UNCHANGED <<disk, history>>

Start ==
  /\ phase = "down"
  /\ phase' = "users"
  /\ UNCHANGED <<memory, disk, rwlock, pc, loc, budget, history>>

StartFails ==
  /\ \/ phase = "users" /\ usersFile.state = "torn"
     \/ phase = "players" /\ playersFile.state = "torn"
     \/ phase = "textures" /\ texturesFile = "torn"
  /\ phase' = "down"
  /\ users' = NoUsers /\ players' = NoPlayers
  /\ UNCHANGED <<disk, rwlock, pc, loc, budget, history>>

LoadUsers ==
  /\ \/ /\ phase = "users" /\ usersFile.state = "saved"
        /\ users' = usersFile.data
        /\ phase' = "players"
        /\ UNCHANGED usersFile
     \/ /\ phase = "users" /\ usersFile.state = "missing"
        /\ users' = DefaultUsers
        /\ usersFile' = Cut(usersFile)
        /\ phase' = "defaultUsers"
     \/ /\ phase = "defaultUsers"
        /\ usersFile' = Written(users)
        /\ phase' = "players"
        /\ UNCHANGED users
  /\ UNCHANGED <<players, playersFile, texturesFile, meta, torn, rwlock, pc, loc, budget, history>>

LoadPlayers ==
  /\ \/ /\ phase = "players" /\ playersFile.state = "saved"
        /\ players' = playersFile.data
        /\ phase' = "textures"
        /\ UNCHANGED playersFile
     \/ /\ phase = "players" /\ playersFile.state = "missing"
        /\ players' = DefaultPlayers
        /\ playersFile' = Cut(playersFile)
        /\ phase' = "defaultPlayers"
     \/ /\ phase = "defaultPlayers"
        /\ playersFile' = Written(players)
        /\ phase' = "textures"
        /\ UNCHANGED players
  /\ UNCHANGED <<users, usersFile, texturesFile, meta, torn, rwlock, pc, loc, budget, history>>

LoadTextures ==
  /\ \/ phase = "textures" /\ texturesFile = "saved" /\ phase' = "up" /\ UNCHANGED texturesFile
     \/ /\ phase = "textures" /\ texturesFile = "missing"
        /\ phase' = "defaultTextures" /\ texturesFile' = "torn"
     \/ phase = "defaultTextures" /\ phase' = "up" /\ texturesFile' = "saved"
  /\ UNCHANGED <<memory, usersFile, playersFile, meta, torn, rwlock, pc, loc, budget, history>>

Init ==
  /\ users = NoUsers
  /\ players = NoPlayers
  /\ usersFile = [state |-> "missing", data |-> NoUsers]
  /\ playersFile = [state |-> "missing", data |-> NoPlayers]
  /\ texturesFile = "missing"
  /\ meta = [i \in Images |-> None]
  /\ torn = {}
  /\ writer = None
  /\ holds = [t \in Threads |-> 0]
  /\ pc = [t \in Threads |-> "idle"]
  /\ loc = [t \in Threads |-> Idle]
  /\ phase = "down"
  /\ budget \in Bounds
  /\ open = {}
  /\ purged = {}
  /\ undeleted = {}
  /\ acked = [users |-> DefaultUsers, players |-> DefaultPlayers, meta |-> [i \in Images |-> None]]

\* What a request that has begun does next.
Step(t) ==
  \/ Announce(t) \/ Refuse(t)
  \/ CreateUser(t) \/ UpdateUser(t) \/ DeleteUser(t)
  \/ CreateProfile(t) \/ UpdateProfile(t) \/ DeleteProfile(t)
  \/ Truncate(t) \/ SaveFails(t) \/ SaveUsers(t) \/ SavePlayers(t)
  \/ UploadTexture(t) \/ SaveMeta(t) \/ DeleteTexture(t)
  \/ GetPlayerTextures(t) \/ EndRead(t)

Next ==
  \/ \E t \in Threads : StartRead(t) \/ Lock(t) \/ Step(t)
  \/ Crash \/ Start \/ StartFails \/ LoadUsers \/ LoadPlayers \/ LoadTextures

\* A request that can go on is eventually scheduled.
Spec == Init /\ [][Next]_vars /\ \A t \in Threads : WF_vars(Step(t))
-----------------------------------------------------------------------------
File(table) == [state : {"missing", "torn", "saved"}, data : table]
Local == [keys : SUBSET (Emails \cup Uuids), table : {"none", "users", "players", "meta"},
          image : Images \cup {None}, player : Uuids \cup {None}]

\* Types of the tables, the files, the lock, the requests and the history.
TypeOK ==
  /\ users \in UserTable /\ players \in PlayerTable
  /\ usersFile \in File(UserTable) /\ playersFile \in File(PlayerTable)
  /\ texturesFile \in {"missing", "torn", "saved"}
  /\ meta \in [Images -> Uuids \cup {None}] /\ torn \subseteq Images
  /\ writer \in Threads \cup {None}
  /\ holds \in [Threads -> 0 .. 2]
  /\ pc \in [Threads -> {"idle", "lock", "save", "write", "read", "wait"}]
  /\ loc \in [Threads -> Local]
  /\ phase \in {"down", "users", "defaultUsers", "players", "defaultPlayers", "textures",
                "defaultTextures", "up"}
  /\ budget \in [changes : Nat, faults : Nat, crashes : Nat]
  /\ open \subseteq Emails \cup Uuids \cup Images /\ purged \subseteq Uuids /\ undeleted \subseteq Images
  /\ acked \in [users : UserTable, players : PlayerTable, meta : [Images -> Uuids \cup {None}]]

(***************************************************************************)
(* What an operation acknowledged holds from then on, over restarts and    *)
(* failed or interrupted saves of other operations: an account, a player   *)
(* or a texture's owner is as the last acknowledged change left it, unless *)
(* a later change of it failed or was cut off. The exceptions: the players *)
(* of a deleted account may come back with a restart until players.json is *)
(* next written (users.go:199), and a texture whose file could not be      *)
(* removed stays until its next change (textures.go:170).                  *)
(***************************************************************************)
AcknowledgedHolds ==
  phase = "up" =>
    /\ \A e \in Emails \ open : users[e] = acked.users[e]
    /\ \A x \in Uuids \ open : players[x] = acked.players[x] \/ x \in purged
    /\ \A i \in Images \ open : i \notin torn /\ (meta[i] = acked.meta[i] \/ i \in undeleted)

(***************************************************************************)
(* No two players have one name, in memory or in a players.json that can   *)
(* be read, whatever was deleted, renamed, lost and brought back.          *)
(***************************************************************************)
Distinct(table) ==
  \A x, y \in Uuids : x # y /\ table[x] # None /\ table[y] # None => table[x].name # table[y].name

NamesDistinct == Distinct(players) /\ Distinct(playersFile.data)

(***************************************************************************)
(* Requests that can only wait for each other are always there for one     *)
(* reason: a profile lookup that holds the read lock asks for it again     *)
(* (players.go:113, 163) after a writer has come in between.               *)
(***************************************************************************)
Blocked(t) ==
  \/ pc[t] = "wait"
  \/ pc[t] = "lock" /\ writer # None /\ ~Inside(t)

Stuck == (\E t \in Threads : pc[t] # "idle") /\ \A t \in Threads : pc[t] = "idle" \/ Blocked(t)

OnlyNestedReads ==
  Stuck => writer # None /\ \E r \in Threads : pc[r] = "wait" /\ holds[r] = 1

(***************************************************************************)
(* Every request returns, unless that deadlock holds it: readers do not    *)
(* keep a writer out for ever, nor writers a reader.                       *)
(***************************************************************************)
Deadlocked == writer # None /\ \E r \in Threads : pc[r] = "wait" /\ holds[r] = 1

Returns == \A t \in Threads : pc[t] # "idle" ~> (pc[t] = "idle" \/ Deadlocked)
=============================================================================
