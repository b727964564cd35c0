--------------------------- MODULE FileStoreProofs ---------------------------
(***************************************************************************)
(* What the file storage keeps, for any number of requests, accounts,      *)
(* players and textures, and for any number of changes, failed writes and  *)
(* crashes.                                                                *)
(***************************************************************************)
EXTENDS FileStore, TLAPS

-----------------------------------------------------------------------------
(* The inductive invariant.                                                *)

\* The lock: what a request holds at each step, and who is inside.
LocksOK ==
  /\ \A t \in Threads :
       /\ pc[t] \in {"idle", "lock", "save", "write"} => holds[t] = 0
       /\ pc[t] = "read" => holds[t] # 0
       /\ pc[t] = "wait" => holds[t] # 2 /\ writer # None
       /\ pc[t] \in {"save", "write"} => writer = t /\ \A r \in Threads : holds[r] = 0
       /\ pc[t] # "idle" => phase = "up"
  /\ writer # None => pc[writer] \in {"lock", "save", "write"}

\* A change on its way: what it writes; a deleted account's players are out of memory.
ChangesOK ==
  \A t \in Threads :
    /\ pc[t] = "save" => loc[t].table \in {"users", "players"}
    /\ pc[t] = "write" /\ loc[t].table = "meta" => loc[t].image \in Images /\ loc[t].player \in Uuids
    /\ pc[t] \in {"save", "write"} /\ loc[t].table = "users" =>
         \A x \in loc[t].keys \cap Uuids : players[x] = None
    /\ pc[t] \in {"save", "write"} /\ loc[t].table = "players" => loc[t].keys \subseteq Uuids

UsersLoaded == phase \notin {"down", "users"}
PlayersLoaded == phase \notin {"down", "users", "defaultUsers", "players"}

AsAckedUser(e, table) == e \in open \/ table[e] = acked.users[e]
AsAckedPlayer(x, table) == x \in open \/ x \in purged \/ table[x] = acked.players[x]

\* The tables and the files hold what was acknowledged of every key that is not open.
AckedOK ==
  /\ UsersLoaded => usersFile.state # "missing" /\ \A e \in Emails : AsAckedUser(e, users)
  /\ usersFile.state = "saved" => \A e \in Emails : AsAckedUser(e, usersFile.data)
  /\ usersFile.state = "missing" => acked.users = DefaultUsers
  /\ PlayersLoaded => playersFile.state # "missing" /\ \A x \in Uuids : AsAckedPlayer(x, players)
  /\ playersFile.state = "saved" => \A x \in Uuids : AsAckedPlayer(x, playersFile.data)
  /\ playersFile.state = "missing" => acked.players = DefaultPlayers
  /\ \A x \in purged : acked.players[x] = None
  /\ \A i \in Images \ open : i \notin torn /\ (meta[i] = acked.meta[i] \/ i \in undeleted)

Inv == TypeOK /\ LocksOK /\ ChangesOK /\ NamesDistinct /\ AckedOK


-----------------------------------------------------------------------------
(* Types.                                                                  *)

\* The variables of a request that does nothing.
LEMMA IdleTyped == Idle \in Local
BY DEF Idle, Local

\* The tables of a process that is down.
LEMMA EmptyTyped == NoUsers \in UserTable /\ NoPlayers \in PlayerTable
BY DEF NoUsers, NoPlayers, UserTable, PlayerTable

\* Leaving the lock keeps the types.
LEMMA UnlockTyped ==
  ASSUME TypeOK, LocksOK, NEW t \in Threads, Unlock(t)
  PROVE  /\ writer' \in Threads \cup {None} /\ holds' \in [Threads -> 0 .. 2]
         /\ pc' \in [Threads -> {"idle", "lock", "save", "write", "read", "wait"}]
         /\ loc' \in [Threads -> Local]
<1>1. ASSUME NEW r \in Threads PROVE holds'[r] \in 0 .. 2
  BY DEF Unlock, TypeOK, LocksOK
<1>2. ASSUME NEW r \in Threads
      PROVE  pc'[r] \in {"idle", "lock", "save", "write", "read", "wait"}
  BY DEF Unlock, TypeOK
<1> QED
  BY <1>1, <1>2, IdleTyped DEF Unlock, TypeOK

\* A change of some keys, for some file, keeps the types of the request and of the history.
LEMMA ChangeTyped ==
  ASSUME TypeOK, NEW t \in Threads, NEW keys \in SUBSET (Emails \cup Uuids),
         NEW table \in {"users", "players"}, Change(t, keys, table),
         users' \in UserTable, players' \in PlayerTable
  PROVE  TypeOK'
<1>1. [Idle EXCEPT !.keys = keys, !.table = table] \in Local
  BY DEF Idle, Local
<1> QED
  BY <1>1 DEF Change, Goto, disk, rwlock, TypeOK

\* The types hold at the start.
LEMMA InitTyped == Init => TypeOK
<1> SUFFICES ASSUME Init PROVE TypeOK
  OBVIOUS
<1>1. budget \in [changes : Nat, faults : Nat, crashes : Nat]
  BY BoundsAssumption DEF Init
<1>2. usersFile \in File(UserTable) /\ playersFile \in File(PlayerTable)
  BY EmptyTyped DEF Init, File
<1>3. acked \in [users : UserTable, players : PlayerTable, meta : [Images -> Uuids \cup {None}]]
  BY DefaultAssumption DEF Init
<1> QED
  BY <1>1, <1>2, <1>3, IdleTyped, EmptyTyped DEF Init, TypeOK

\* A read lock that is asked for is taken or waited for.
LEMMA RLockTyped ==
  ASSUME TypeOK, NEW t \in Threads, holds[t] \in 0 .. 1, RLock(t)
  PROVE  /\ holds' \in [Threads -> 0 .. 2]
         /\ pc' \in [Threads -> {"idle", "lock", "save", "write", "read", "wait"}]
BY DEF RLock, Goto, TypeOK

\* A step of a request keeps the types.
LEMMA RequestTyped ==
  ASSUME TypeOK, LocksOK, ChangesOK, NEW t \in Threads, StartRead(t) \/ Lock(t) \/ Step(t)
  PROVE  TypeOK'
<1>1. CASE StartRead(t)
  <2>1. holds[t] = 0
    BY <1>1 DEF StartRead, LocksOK
  <2> QED
    BY <1>1, <2>1, RLockTyped DEF StartRead, memory, disk, history, TypeOK
<1>2. CASE Lock(t)
  BY <1>2 DEF Lock, Goto, memory, disk, rwlock, history, TypeOK
<1>3. CASE Announce(t)
  BY <1>3 DEF Announce, memory, disk, rwlock, history, TypeOK
<1>4. CASE Refuse(t)
  BY <1>4, UnlockTyped DEF Refuse, memory, disk, history, TypeOK
<1>5. CASE CreateUser(t)
  <2>1. PICK e \in Emails, uid \in Uids :
          /\ users' = [users EXCEPT ![e] = uid] /\ Change(t, {e}, "users") /\ UNCHANGED players
    BY <1>5 DEF CreateUser
  <2>2. users' \in UserTable /\ players' \in PlayerTable
    BY <2>1 DEF TypeOK, UserTable
  <2> QED
    BY <2>1, <2>2, ChangeTyped
<1>6. CASE UpdateUser(t)
  <2>1. PICK e \in Emails, uid \in Uids :
          /\ users' = [users EXCEPT ![e] = uid] /\ Change(t, {e}, "users") /\ UNCHANGED players
    BY <1>6 DEF UpdateUser
  <2>2. users' \in UserTable /\ players' \in PlayerTable
    BY <2>1 DEF TypeOK, UserTable
  <2> QED
    BY <2>1, <2>2, ChangeTyped
<1>7. CASE DeleteUser(t)
  <2>1. PICK e \in Emails :
          LET own == {x \in Uuids : players[x] # None /\ players[x].uid = users[e]} IN
          /\ users' = [users EXCEPT ![e] = None]
          /\ players' = [x \in Uuids |-> IF x \in own THEN None ELSE players[x]]
          /\ Change(t, {e} \cup own, "users")
    BY <1>7 DEF DeleteUser
  <2>2. users' \in UserTable /\ players' \in PlayerTable
    BY <2>1 DEF TypeOK, UserTable, PlayerTable
  <2> QED
    BY <2>1, <2>2, ChangeTyped
<1>8. CASE CreateProfile(t)
  <2>1. PICK e \in Emails, x \in Uuids, n \in Names :
          /\ users[e] # None
          /\ players' = [players EXCEPT ![x] = [uid |-> users[e], name |-> n]]
          /\ Change(t, {x}, "players") /\ UNCHANGED users
    BY <1>8 DEF CreateProfile
  <2>2. users' \in UserTable /\ players' \in PlayerTable
    BY <2>1 DEF TypeOK, UserTable, PlayerTable, Player
  <2> QED
    BY <2>1, <2>2, ChangeTyped
<1>9. CASE UpdateProfile(t)
  <2>1. PICK x \in Uuids, n \in Names :
          /\ players[x] # None
          /\ players' = [players EXCEPT ![x].name = n]
          /\ Change(t, {x}, "players") /\ UNCHANGED users
    BY <1>9 DEF UpdateProfile
  <2>2. [players[x] EXCEPT !.name = n] \in Player
    BY <2>1 DEF TypeOK, PlayerTable, Player
  <2>3. users' \in UserTable /\ players' \in PlayerTable
    BY <2>1, <2>2 DEF TypeOK, PlayerTable
  <2> QED
    BY <2>1, <2>3, ChangeTyped
<1>10. CASE DeleteProfile(t)
  <2>1. PICK x \in Uuids :
          /\ players' = [players EXCEPT ![x] = None]
          /\ Change(t, {x}, "players") /\ UNCHANGED users
    BY <1>10 DEF DeleteProfile
  <2>2. users' \in UserTable /\ players' \in PlayerTable
    BY <2>1 DEF TypeOK, PlayerTable
  <2> QED
    BY <2>1, <2>2, ChangeTyped
<1>11. CASE Truncate(t)
  <2>1. usersFile' \in File(UserTable) /\ playersFile' \in File(PlayerTable)
    BY <1>11 DEF Truncate, Cut, File, TypeOK
  <2> QED
    BY <1>11, <2>1 DEF Truncate, Goto, memory, rwlock, history, TypeOK
<1>12. CASE SaveFails(t)
  <2>1. budget' \in [changes : Nat, faults : Nat, crashes : Nat]
    BY <1>12 DEF SaveFails, Fault, TypeOK
  <2> QED
    BY <1>12, <2>1, UnlockTyped DEF SaveFails, memory, disk, history, TypeOK
<1>13. CASE SaveUsers(t)
  <2>1. Acknowledged(t) \in [users : UserTable, players : PlayerTable, meta : [Images -> Uuids \cup {None}]]
    BY DEF Acknowledged, TypeOK, UserTable, PlayerTable
  <2>2. usersFile' \in File(UserTable) /\ open' \subseteq Emails \cup Uuids \cup Images
        /\ purged' \subseteq Uuids
    BY <1>13 DEF SaveUsers, Written, File, TypeOK
  <2> QED
    BY <1>13, <2>1, <2>2, UnlockTyped DEF SaveUsers, memory, TypeOK
<1>14. CASE SavePlayers(t)
  <2>1. Acknowledged(t) \in [users : UserTable, players : PlayerTable, meta : [Images -> Uuids \cup {None}]]
    BY DEF Acknowledged, TypeOK, UserTable, PlayerTable
  <2>2. playersFile' \in File(PlayerTable) /\ open' \subseteq Emails \cup Uuids \cup Images
        /\ purged' \subseteq Uuids
    BY <1>14 DEF SavePlayers, Written, File, TypeOK
  <2> QED
    BY <1>14, <2>1, <2>2, UnlockTyped DEF SavePlayers, memory, TypeOK
<1>15. CASE UploadTexture(t)
  <2>1. PICK x \in Uuids, i \in Images :
          /\ torn' = torn \cup {i} /\ open' = open \cup {i}
          /\ loc' = [loc EXCEPT ![t] = [Idle EXCEPT !.table = "meta", !.image = i, !.player = x]]
    BY <1>15 DEF UploadTexture
  <2>2. [Idle EXCEPT !.table = "meta", !.image = i, !.player = x] \in Local
    BY DEF Idle, Local
  <2> QED
    BY <1>15, <2>1, <2>2 DEF UploadTexture, Goto, memory, rwlock, TypeOK
<1>16. CASE SaveMeta(t)
  <2>1. loc[t].image \in Images /\ loc[t].player \in Uuids
    BY <1>16 DEF SaveMeta, ChangesOK
  <2>2. meta' \in [Images -> Uuids \cup {None}] /\ torn' \subseteq Images
        /\ open' \subseteq Emails \cup Uuids \cup Images
    BY <1>16, <2>1 DEF SaveMeta, TypeOK
  <2>3. [acked.meta EXCEPT ![loc[t].image] = loc[t].player] \in [Images -> Uuids \cup {None}]
    BY <2>1 DEF TypeOK
  <2>4. acked' \in [users : UserTable, players : PlayerTable, meta : [Images -> Uuids \cup {None}]]
    BY <1>16, <2>3 DEF SaveMeta, TypeOK
  <2> QED
    BY <1>16, <2>2, <2>4, UnlockTyped DEF SaveMeta, memory, TypeOK
<1>17. CASE DeleteTexture(t)
  <2>1. PICK i \in Images :
          /\ meta' \in {meta, [meta EXCEPT ![i] = None]}
          /\ undeleted' \in {undeleted \ {i}, undeleted \cup {i}}
          /\ budget' \in {budget, [budget EXCEPT !.faults = @ - 1]} /\ (budget' # budget => budget.faults > 0)
          /\ acked' = [acked EXCEPT !.meta[i] = None]
          /\ open' = open \ {i}
    BY <1>17 DEF DeleteTexture, Fault
  <2>2. [acked.meta EXCEPT ![i] = None] \in [Images -> Uuids \cup {None}]
    BY DEF TypeOK
  <2>3. acked' \in [users : UserTable, players : PlayerTable, meta : [Images -> Uuids \cup {None}]]
    BY <2>1, <2>2 DEF TypeOK
  <2>4. /\ meta' \in [Images -> Uuids \cup {None}] /\ open' \subseteq Emails \cup Uuids \cup Images
        /\ undeleted' \subseteq Images
    BY <2>1 DEF TypeOK
  <2>5. budget' \in [changes : Nat, faults : Nat, crashes : Nat]
    <3>1. CASE budget' = budget
      BY <3>1 DEF TypeOK
    <3>2. CASE budget' = [budget EXCEPT !.faults = @ - 1] /\ budget.faults > 0
      <4>1. budget.faults - 1 \in Nat
        BY <3>2 DEF TypeOK
      <4> QED
        BY <3>2, <4>1 DEF TypeOK
    <3> QED
      BY <2>1, <3>1, <3>2
  <2> QED
    BY <1>17, <2>3, <2>4, <2>5, UnlockTyped DEF DeleteTexture, memory, TypeOK
<1>18. CASE GetPlayerTextures(t)
  BY <1>18, RLockTyped DEF GetPlayerTextures, memory, disk, history, TypeOK
<1>19. CASE EndRead(t)
  BY <1>19 DEF EndRead, Goto, memory, disk, rwlock, history, TypeOK
<1> QED
  BY <1>1, <1>2, <1>3, <1>4, <1>5, <1>6, <1>7, <1>8, <1>9, <1>10, <1>11, <1>12, <1>13, <1>14,
       <1>15, <1>16, <1>17, <1>18, <1>19 DEF Step

\* Every step keeps the types.
LEMMA NextTyped ==
  ASSUME TypeOK, LocksOK, ChangesOK, [Next]_vars
  PROVE  TypeOK'
<1>1. CASE Crash
  <2>1. budget' \in [changes : Nat, faults : Nat, crashes : Nat]
    BY <1>1 DEF Crash, TypeOK
  <2> QED
    BY <1>1, <2>1, IdleTyped, EmptyTyped DEF Crash, disk, history, TypeOK
<1>2. CASE Start
  BY <1>2 DEF Start, memory, disk, rwlock, history, TypeOK
<1>3. CASE StartFails
  BY <1>3, EmptyTyped DEF StartFails, disk, rwlock, history, TypeOK
<1>4. CASE LoadUsers
  <2>1. users' \in UserTable
    BY <1>4, DefaultAssumption DEF LoadUsers, File, TypeOK
  <2>2. usersFile' \in File(UserTable)
    BY <1>4 DEF LoadUsers, Cut, Written, File, TypeOK
  <2> QED
    BY <1>4, <2>1, <2>2 DEF LoadUsers, rwlock, history, TypeOK
<1>5. CASE LoadPlayers
  <2>1. players' \in PlayerTable
    BY <1>5, DefaultAssumption DEF LoadPlayers, File, TypeOK
  <2>2. playersFile' \in File(PlayerTable)
    BY <1>5 DEF LoadPlayers, Cut, Written, File, TypeOK
  <2> QED
    BY <1>5, <2>1, <2>2 DEF LoadPlayers, rwlock, history, TypeOK
<1>6. CASE LoadTextures
  BY <1>6 DEF LoadTextures, memory, disk, rwlock, history, TypeOK
<1>7. CASE UNCHANGED vars
  BY <1>7 DEF vars, memory, disk, rwlock, history, TypeOK
<1> QED
  BY <1>1, <1>2, <1>3, <1>4, <1>5, <1>6, <1>7, RequestTyped DEF Next

-----------------------------------------------------------------------------
(* The lock.                                                               *)

\* A request that leaves the lock lets the waiting readers in.
LEMMA UnlockLocks ==
  ASSUME TypeOK, LocksOK, NEW t \in Threads, pc[t] \in {"lock", "save", "write"}, writer = t,
         Unlock(t), UNCHANGED phase
  PROVE  LocksOK'
<1>1. ASSUME NEW r \in Threads
      PROVE  /\ pc'[r] \in {"idle", "lock", "read"}
             /\ pc'[r] \in {"idle", "lock"} => holds'[r] = 0
             /\ pc'[r] = "read" => holds'[r] # 0
             /\ pc'[r] # "idle" => phase' = "up"
  BY NoneAssumption DEF Unlock, TypeOK, LocksOK
<1>2. writer' = None
  BY DEF Unlock
<1> QED
  BY <1>1, <1>2 DEF LocksOK

\* Every step keeps the order of the lock.
LEMMA NextLocks ==
  ASSUME TypeOK, LocksOK, [Next]_vars
  PROVE  LocksOK'
<1>a. ASSUME NEW t \in Threads, StartRead(t) \/ Lock(t) \/ Step(t) PROVE LocksOK'
  <2> USE NoneAssumption
  <2>1. ASSUME Inside(t), UNCHANGED <<writer, holds, phase>>, pc' = [pc EXCEPT ![t] = "save"] \/ pc' = [pc EXCEPT ![t] = "write"]
        PROVE  LocksOK'
    BY <2>1 DEF Inside, LocksOK, TypeOK
  <2>2. ASSUME NEW keys, NEW table, Change(t, keys, table) PROVE LocksOK'
    BY <2>1, <2>2 DEF Change, Goto, rwlock
<2>3. CASE StartRead(t)
    BY <2>3 DEF StartRead, RLock, Goto, memory, disk, rwlock, history, TypeOK, LocksOK
<2>4. CASE Lock(t)
    BY <2>4 DEF Lock, Goto, memory, disk, rwlock, history, TypeOK, LocksOK
<2>5. CASE Announce(t)
    BY <2>5 DEF Announce, memory, disk, rwlock, history, TypeOK, LocksOK
<2>6. CASE Refuse(t)
    BY <2>6, UnlockLocks DEF Refuse, Inside
<2>7. CASE CreateUser(t)
    BY <2>7, <2>2 DEF CreateUser
<2>8. CASE UpdateUser(t)
    BY <2>8, <2>2 DEF UpdateUser
<2>9. CASE DeleteUser(t)
    BY <2>9, <2>2 DEF DeleteUser
<2>10. CASE CreateProfile(t)
    BY <2>10, <2>2 DEF CreateProfile
<2>11. CASE UpdateProfile(t)
    BY <2>11, <2>2 DEF UpdateProfile
<2>12. CASE DeleteProfile(t)
    BY <2>12, <2>2 DEF DeleteProfile
<2>13. CASE Truncate(t)
    BY <2>13 DEF Truncate, Cut, Goto, memory, disk, rwlock, history, TypeOK, LocksOK
<2>14. CASE SaveFails(t)
    BY <2>14, UnlockLocks DEF SaveFails, LocksOK
<2>15. CASE SaveUsers(t)
    BY <2>15, UnlockLocks DEF SaveUsers, LocksOK
<2>16. CASE SavePlayers(t)
    BY <2>16, UnlockLocks DEF SavePlayers, LocksOK
<2>17. CASE UploadTexture(t)
    BY <2>17, <2>1 DEF UploadTexture, rwlock, Goto
<2>18. CASE SaveMeta(t)
    BY <2>18, UnlockLocks DEF SaveMeta, LocksOK
<2>19. CASE DeleteTexture(t)
    BY <2>19, UnlockLocks DEF DeleteTexture, Inside
<2>20. CASE GetPlayerTextures(t)
    BY <2>20 DEF GetPlayerTextures, RLock, Goto, memory, disk, rwlock, history, TypeOK, LocksOK
<2>21. CASE EndRead(t)
    BY <2>21 DEF EndRead, Goto, memory, disk, rwlock, history, TypeOK, LocksOK
<2> QED
    BY <2>3, <2>4, <2>5, <2>6, <2>7, <2>8, <2>9, <2>10, <2>11, <2>12, <2>13, <2>14, <2>15, <2>16,
         <2>17, <2>18, <2>19, <2>20, <2>21, <1>a DEF Step
<1>1. CASE Crash
  BY <1>1, NoneAssumption DEF Crash, NoUsers, NoPlayers, memory, disk, rwlock, history, TypeOK,
       LocksOK
<1>2. CASE Start
  BY <1>2, NoneAssumption DEF Start, memory, disk, rwlock, history, TypeOK, LocksOK
<1>3. CASE StartFails
  BY <1>3, NoneAssumption DEF StartFails, NoUsers, NoPlayers, memory, disk, rwlock, history,
       TypeOK, LocksOK
<1>4. CASE LoadUsers
  BY <1>4, NoneAssumption DEF LoadUsers, Cut, Written, memory, disk, rwlock, history, TypeOK,
       LocksOK
<1>5. CASE LoadPlayers
  BY <1>5, NoneAssumption DEF LoadPlayers, Cut, Written, memory, disk, rwlock, history, TypeOK,
       LocksOK
<1>6. CASE LoadTextures
  BY <1>6, NoneAssumption DEF LoadTextures, memory, disk, rwlock, history, TypeOK, LocksOK
<1>7. CASE UNCHANGED vars
  BY <1>7 DEF vars, rwlock, LocksOK
<1> QED
  BY <1>1, <1>2, <1>3, <1>4, <1>5, <1>6, <1>7, <1>a DEF Next

\* A step that changes the players is that of the request inside, and no other is in its way.
LEMMA InsideAlone ==
  ASSUME TypeOK, LocksOK, NEW t \in Threads, Inside(t), NEW r \in Threads, r # t
  PROVE  pc[r] \notin {"save", "write"}
BY NoneAssumption DEF Inside, LocksOK

\* A request is saving a change, alone.
LEMMA SavingAlone ==
  ASSUME TypeOK, LocksOK, NEW t \in Threads, pc[t] \in {"save", "write"}, NEW r \in Threads, r # t
  PROVE  pc[r] \notin {"save", "write"}
BY NoneAssumption DEF LocksOK

\* A request that leaves the lock has no change on its way.
LEMMA UnlockChanges ==
  ASSUME TypeOK, LocksOK, ChangesOK, NEW t \in Threads, Unlock(t), UNCHANGED players,
         Inside(t) \/ pc[t] \in {"save", "write"}
  PROVE  ChangesOK'
<1>1. ASSUME NEW r \in Threads PROVE pc'[r] \notin {"save", "write"}
  BY <1>1, InsideAlone, SavingAlone DEF Unlock, TypeOK
<1> QED
  BY <1>1 DEF ChangesOK

\* A step in which no request comes to save or leaves its own keys alone.
LEMMA QuietChanges ==
  ASSUME TypeOK, ChangesOK, UNCHANGED players,
         \A r \in Threads : pc'[r] \in {"save", "write"} => pc'[r] = pc[r] /\ loc'[r] = loc[r]
  PROVE  ChangesOK'
BY DEF ChangesOK

\* Every step keeps what a change on its way is.
LEMMA NextChanges ==
  ASSUME TypeOK, LocksOK, ChangesOK, [Next]_vars
  PROVE  ChangesOK'
<1>a. ASSUME NEW t \in Threads, StartRead(t) \/ Lock(t) \/ Step(t) PROVE ChangesOK'
  <2>1. ASSUME NEW keys, NEW table \in {"users", "players"}, Change(t, keys, table),
               table = "users" => \A x \in keys \cap Uuids : players'[x] = None,
               table = "players" => keys \subseteq Uuids
        PROVE  ChangesOK'
    <3>1. Inside(t) /\ pc' = [pc EXCEPT ![t] = "save"]
          /\ loc' = [loc EXCEPT ![t] = [Idle EXCEPT !.keys = keys, !.table = table]]
      BY <2>1 DEF Change, Goto
    <3>2. loc'[t].keys = keys /\ loc'[t].table = table /\ pc'[t] = "save"
      BY <3>1 DEF TypeOK, Idle
    <3>3. ASSUME NEW r \in Threads, r # t PROVE pc'[r] \notin {"save", "write"}
      BY <3>1, <3>3, InsideAlone DEF TypeOK
    <3> QED
      BY <2>1, <3>2, <3>3 DEF ChangesOK
  <2>2. CASE Truncate(t)
    BY <2>2, SavingAlone DEF Truncate, Goto, memory, ChangesOK, TypeOK
  <2>3. CASE UploadTexture(t)
    <3>1. PICK x \in Uuids, i \in Images :
            loc' = [loc EXCEPT ![t] = [Idle EXCEPT !.table = "meta", !.image = i, !.player = x]]
      BY <2>3 DEF UploadTexture
    <3>2. loc'[t].table = "meta" /\ loc'[t].image = i /\ loc'[t].player = x /\ pc'[t] = "write"
      BY <2>3, <3>1 DEF UploadTexture, Goto, TypeOK, Idle
    <3>3. ASSUME NEW r \in Threads, r # t PROVE pc'[r] \notin {"save", "write"}
      BY <2>3, <3>3, InsideAlone DEF UploadTexture, Goto, TypeOK
    <3> QED
      BY <3>2, <3>3 DEF ChangesOK
  <2>4. CASE CreateUser(t) \/ UpdateUser(t)
    <3>1. PICK e \in Emails : Change(t, {e}, "users") /\ UNCHANGED players
      BY <2>4 DEF CreateUser, UpdateUser
    <3>2. {e} \cap Uuids = {}
      BY KeysAssumption
    <3> QED
      BY <2>1, <3>1, <3>2
  <2>5. CASE DeleteUser(t)
    <3>1. PICK e \in Emails :
            LET own == {x \in Uuids : players[x] # None /\ players[x].uid = users[e]} IN
            /\ players' = [x \in Uuids |-> IF x \in own THEN None ELSE players[x]]
            /\ Change(t, {e} \cup own, "users")
      BY <2>5 DEF DeleteUser
    <3>2. e \notin Uuids
      BY KeysAssumption
    <3> QED
      BY <2>1, <3>1, <3>2
  <2>6. CASE CreateProfile(t) \/ UpdateProfile(t) \/ DeleteProfile(t)
    BY <2>1, <2>6 DEF CreateProfile, UpdateProfile, DeleteProfile
<2>7. CASE StartRead(t)
    BY <2>7, QuietChanges DEF StartRead, RLock, Goto, memory, disk, rwlock, history, TypeOK
<2>8. CASE Lock(t)
    BY <2>8, QuietChanges DEF Lock, Goto, memory, disk, rwlock, history, TypeOK
<2>9. CASE Announce(t)
    BY <2>9, QuietChanges DEF Announce, memory, disk, rwlock, history, TypeOK
<2>10. CASE Refuse(t)
    BY <2>10, UnlockChanges DEF Refuse, memory
<2>11. CASE SaveFails(t)
    BY <2>11, UnlockChanges DEF SaveFails, memory
<2>12. CASE SaveUsers(t)
    BY <2>12, UnlockChanges DEF SaveUsers, memory
<2>13. CASE SavePlayers(t)
    BY <2>13, UnlockChanges DEF SavePlayers, memory
<2>14. CASE SaveMeta(t)
    BY <2>14, UnlockChanges DEF SaveMeta, memory
<2>15. CASE DeleteTexture(t)
    BY <2>15, UnlockChanges DEF DeleteTexture, memory
<2>16. CASE GetPlayerTextures(t)
    BY <2>16, QuietChanges DEF GetPlayerTextures, RLock, Goto, memory, disk, rwlock, history,
         TypeOK
<2>17. CASE EndRead(t)
    BY <2>17, QuietChanges DEF EndRead, Goto, memory, disk, rwlock, history, TypeOK
<2> QED
    BY <2>2, <2>3, <2>4, <2>5, <2>6, <2>7, <2>8, <2>9, <2>10, <2>11, <2>12, <2>13, <2>14, <2>15,
         <2>16, <2>17, <1>a DEF Step
<1>1. CASE Crash
  BY <1>1 DEF Crash, ChangesOK
<1>2. CASE Start
  BY <1>2, QuietChanges DEF Start, memory, disk, rwlock, history, TypeOK
<1>3. CASE StartFails
  BY <1>3 DEF StartFails, ChangesOK, LocksOK
<1>4. CASE LoadUsers
  BY <1>4, QuietChanges DEF LoadUsers, Cut, Written, memory, disk, rwlock, history, TypeOK
<1>5. CASE LoadPlayers
  BY <1>5 DEF LoadPlayers, ChangesOK, LocksOK
<1>6. CASE LoadTextures
  BY <1>6, QuietChanges DEF LoadTextures, memory, disk, rwlock, history, TypeOK
<1>7. CASE UNCHANGED vars
  BY <1>7, QuietChanges DEF vars, memory
<1> QED
  BY <1>1, <1>2, <1>3, <1>4, <1>5, <1>6, <1>7, <1>a DEF Next

-----------------------------------------------------------------------------
(* Names.                                                                  *)

\* Every step keeps the names apart, in memory and in what was last written.
LEMMA NextNames ==
  ASSUME TypeOK, NamesDistinct, [Next]_vars
  PROVE  NamesDistinct'
<1>1. ASSUME UNCHANGED <<players, playersFile>> PROVE NamesDistinct'
  BY <1>1 DEF NamesDistinct, Distinct
<1>2. ASSUME UNCHANGED playersFile, Distinct(players') PROVE NamesDistinct'
  BY <1>2 DEF NamesDistinct, Distinct
<1>3. Distinct(players) /\ Distinct(playersFile.data)
  BY DEF NamesDistinct
<1>4. Distinct(NoPlayers) /\ Distinct(DefaultPlayers)
  BY DefaultAssumption DEF Distinct, NoPlayers
<1>a. ASSUME NEW t \in Threads, StartRead(t) \/ Lock(t) \/ Step(t) PROVE NamesDistinct'
<2>1. CASE StartRead(t)
    BY <2>1, <1>1 DEF StartRead, RLock, Goto, memory, disk, rwlock, history, TypeOK
<2>2. CASE Lock(t)
    BY <2>2, <1>1 DEF Lock, Goto, memory, disk, rwlock, history, TypeOK
<2>3. CASE Announce(t)
    BY <2>3, <1>1 DEF Announce, memory, disk, rwlock, history, TypeOK
<2>4. CASE Refuse(t)
    BY <2>4, <1>1 DEF Refuse, Inside, Unlock, memory, disk, rwlock, history, TypeOK
<2>5. CASE CreateUser(t)
    BY <2>5, <1>1 DEF CreateUser, Change, disk
<2>6. CASE UpdateUser(t)
    BY <2>6, <1>1 DEF UpdateUser, Change, disk
<2>7. CASE DeleteUser(t)
    <3>1. \A x \in Uuids : players'[x] \in {None, players[x]}
      BY <2>7 DEF DeleteUser
    <3> QED
      BY <2>7, <3>1, <1>2, <1>3 DEF DeleteUser, Change, disk, Distinct
<2>8. CASE CreateProfile(t)
    <3>1. PICK e \in Emails, x \in Uuids, n \in Names :
            /\ ~NameTaken(n, x)
            /\ players' = [players EXCEPT ![x] = [uid |-> users[e], name |-> n]]
            /\ UNCHANGED playersFile
      BY <2>8 DEF CreateProfile, Change, disk
    <3>2. players'[x].name = n /\ \A y \in Uuids \ {x} : players'[y] = players[y]
      BY <3>1 DEF TypeOK, PlayerTable
    <3> QED
      BY <3>1, <3>2, <1>2, <1>3 DEF Distinct, NameTaken
<2>9. CASE UpdateProfile(t)
    <3>1. PICK x \in Uuids, n \in Names :
            /\ ~NameTaken(n, x) /\ players[x] # None
            /\ players' = [players EXCEPT ![x].name = n]
            /\ UNCHANGED playersFile
      BY <2>9 DEF UpdateProfile, Change, disk
    <3>2. players'[x].name = n /\ \A y \in Uuids \ {x} : players'[y] = players[y]
      BY <3>1 DEF TypeOK, PlayerTable, Player
    <3> QED
      BY <3>1, <3>2, <1>2, <1>3 DEF Distinct, NameTaken
<2>10. CASE DeleteProfile(t)
    <3>1. \A x \in Uuids : players'[x] \in {None, players[x]}
      BY <2>10 DEF DeleteProfile, TypeOK, PlayerTable
    <3> QED
      BY <2>10, <3>1, <1>2, <1>3 DEF DeleteProfile, Change, disk, Distinct
<2>11. CASE Truncate(t)
    BY <2>11, <1>3 DEF Truncate, Cut, memory, NamesDistinct, Distinct, TypeOK, File
<2>12. CASE SaveFails(t)
    BY <2>12, <1>1 DEF SaveFails, Fault, Unlock, memory, disk, rwlock, history, TypeOK
<2>13. CASE SaveUsers(t)
    BY <2>13, <1>1 DEF SaveUsers, Written, Acknowledged, Unlock, memory, disk, rwlock, history,
         TypeOK
<2>14. CASE SavePlayers(t)
    BY <2>14, <1>3 DEF SavePlayers, Written, memory, NamesDistinct, Distinct
<2>15. CASE UploadTexture(t)
    BY <2>15, <1>1 DEF UploadTexture, Inside, Goto, memory, disk, rwlock, history, TypeOK
<2>16. CASE SaveMeta(t)
    BY <2>16, <1>1 DEF SaveMeta, Unlock, memory, disk, rwlock, history, TypeOK
<2>17. CASE DeleteTexture(t)
    BY <2>17, <1>1 DEF DeleteTexture, Inside, Unlock, memory, disk, rwlock, history, TypeOK
<2>18. CASE GetPlayerTextures(t)
    BY <2>18, <1>1 DEF GetPlayerTextures, RLock, Goto, memory, disk, rwlock, history, TypeOK
<2>19. CASE EndRead(t)
    BY <2>19, <1>1 DEF EndRead, Goto, memory, disk, rwlock, history, TypeOK
<2> QED
    BY <2>1, <2>2, <2>3, <2>4, <2>5, <2>6, <2>7, <2>8, <2>9, <2>10, <2>11, <2>12, <2>13, <2>14,
         <2>15, <2>16, <2>17, <2>18, <2>19, <1>a DEF Step
<1>5. CASE Crash
  BY <1>5, <1>2, <1>4 DEF Crash, disk
<1>6. CASE Start
  BY <1>6, <1>1 DEF Start, memory, disk, rwlock, history, TypeOK
<1>7. CASE StartFails
  BY <1>7, <1>2, <1>4 DEF StartFails, disk
<1>8. CASE LoadUsers
  BY <1>8, <1>1 DEF LoadUsers, Cut, Written, memory, disk, rwlock, history, TypeOK
<1>9. CASE LoadPlayers
  BY <1>9, <1>3, <1>4 DEF LoadPlayers, Cut, Written, NamesDistinct, Distinct, TypeOK, File
<1>10. CASE LoadTextures
  BY <1>10, <1>1 DEF LoadTextures, memory, disk, rwlock, history, TypeOK
<1>11. CASE UNCHANGED vars
  BY <1>11, <1>1 DEF vars, memory, disk
<1> QED
  BY <1>5, <1>6, <1>7, <1>8, <1>9, <1>10, <1>11, <1>a DEF Next

-----------------------------------------------------------------------------
(* Acknowledged changes.                                                   *)

\* A change opens its keys and leaves the others as they are.
LEMMA ChangeAcked ==
  ASSUME TypeOK, AckedOK, NEW t \in Threads, NEW keys, NEW table, Change(t, keys, table),
         \A e \in Emails \ keys : users'[e] = users[e],
         \A x \in Uuids \ keys : players'[x] = players[x]
  PROVE  AckedOK'
<1>1. UNCHANGED <<disk, phase, purged, undeleted, acked>> /\ open' = open \cup keys
  BY DEF Change
<1> QED
  BY <1>1 DEF AckedOK, UsersLoaded, PlayersLoaded, AsAckedUser, AsAckedPlayer, disk

\* A step that leaves the tables, the files and the history alone.
LEMMA QuietAcked ==
  ASSUME AckedOK, UNCHANGED <<users, players, usersFile, playersFile, meta, torn, phase, history>>
  PROVE  AckedOK'
BY DEF AckedOK, UsersLoaded, PlayersLoaded, AsAckedUser, AsAckedPlayer, history

\* users.json is written whole.
LEMMA SaveUsersAcked ==
  ASSUME TypeOK, LocksOK, ChangesOK, AckedOK, NEW t \in Threads, SaveUsers(t)
  PROVE  AckedOK'
<1>1. phase = "up" /\ UNCHANGED <<users, players, playersFile, meta, torn, phase, undeleted>>
      /\ usersFile' = Written(users) /\ open' = open \ loc[t].keys
      /\ purged' = purged \cup (loc[t].keys \cap Uuids) /\ acked' = Acknowledged(t)
  BY DEF SaveUsers, LocksOK, memory
<1>2. loc[t].keys \cap Images = {}
  BY KeysAssumption DEF TypeOK, Local
<1>3. \A x \in loc[t].keys \cap Uuids : players[x] = None
  BY DEF SaveUsers, ChangesOK
<1>4. ASSUME NEW e \in Emails PROVE e \in open' \/ users[e] = acked'.users[e]
  BY <1>1 DEF Acknowledged, AckedOK, UsersLoaded, AsAckedUser
<1>5. ASSUME NEW x \in Uuids
      PROVE  acked'.players[x] = IF x \in loc[t].keys THEN None ELSE acked.players[x]
  BY <1>1, <1>3 DEF Acknowledged
<1>6. usersFile'.state = "saved" /\ usersFile'.data = users
  BY <1>1 DEF Written
<1>7. \A x \in Uuids : AsAckedPlayer(x, players)' /\ (playersFile.state = "saved" => AsAckedPlayer(x, playersFile.data)')
  BY <1>1, <1>3, <1>5 DEF AckedOK, PlayersLoaded, AsAckedPlayer
<1>8. \A i \in Images \ open' : i \notin torn' /\ (meta'[i] = acked'.meta[i] \/ i \in undeleted')
  BY <1>1, <1>2 DEF AckedOK, Acknowledged
<1>9. \A x \in purged' : acked'.players[x] = None
  BY <1>1, <1>5 DEF AckedOK, TypeOK
<1>10. playersFile.state # "missing"
  BY <1>1 DEF AckedOK, PlayersLoaded
<1> QED
  BY <1>1, <1>4, <1>6, <1>7, <1>8, <1>9, <1>10 DEF AckedOK, UsersLoaded, PlayersLoaded, AsAckedUser

\* players.json is written whole.
LEMMA SavePlayersAcked ==
  ASSUME TypeOK, LocksOK, ChangesOK, AckedOK, NEW t \in Threads, SavePlayers(t)
  PROVE  AckedOK'
<1>1. phase = "up" /\ UNCHANGED <<users, players, usersFile, meta, torn, phase, undeleted>>
      /\ playersFile' = Written(players) /\ open' = open \ loc[t].keys
      /\ purged' = {x \in purged \ loc[t].keys : players[x] # None} /\ acked' = Acknowledged(t)
  BY DEF SavePlayers, LocksOK, memory
<1>2. loc[t].keys \cap Images = {}
  BY KeysAssumption DEF TypeOK, Local
<1>3. loc[t].keys \cap Emails = {}
  BY KeysAssumption DEF SavePlayers, ChangesOK
<1>4. ASSUME NEW e \in Emails
      PROVE  /\ users[e] = acked'.users[e] \/ e \in open'
             /\ usersFile.state = "saved" => e \in open' \/ usersFile.data[e] = acked'.users[e]
  BY <1>1, <1>3 DEF Acknowledged, AckedOK, UsersLoaded, AsAckedUser
<1>5. ASSUME NEW x \in Uuids
      PROVE  acked'.players[x] = IF x \in loc[t].keys THEN players[x] ELSE acked.players[x]
  BY <1>1 DEF Acknowledged
<1>6. playersFile'.state = "saved" /\ playersFile'.data = players
  BY <1>1 DEF Written
<1>7. \A x \in Uuids : x \in open' \/ x \in purged' \/ players[x] = acked'.players[x]
  BY <1>1, <1>5 DEF AckedOK, PlayersLoaded, AsAckedPlayer
<1>8. \A i \in Images \ open' : i \notin torn' /\ (meta'[i] = acked'.meta[i] \/ i \in undeleted')
  BY <1>1, <1>2 DEF AckedOK, Acknowledged
<1>9. \A x \in purged' : acked'.players[x] = None
  BY <1>1, <1>5 DEF AckedOK, TypeOK
<1>10. usersFile.state # "missing"
  BY <1>1 DEF AckedOK, UsersLoaded
<1> QED
  BY <1>1, <1>4, <1>6, <1>7, <1>8, <1>9, <1>10
  DEF AckedOK, UsersLoaded, PlayersLoaded, AsAckedUser, AsAckedPlayer

\* Every step keeps what was acknowledged.
LEMMA NextAcked ==
  ASSUME TypeOK, LocksOK, ChangesOK, AckedOK, [Next]_vars
  PROVE  AckedOK'
<1> USE DEF UsersLoaded, PlayersLoaded, AsAckedUser, AsAckedPlayer
<1>a. ASSUME NEW t \in Threads, StartRead(t) \/ Lock(t) \/ Step(t) PROVE AckedOK'
<2>1. CASE StartRead(t)
    BY <2>1, QuietAcked DEF StartRead, RLock, Goto, memory, disk, rwlock, history, TypeOK
<2>2. CASE Lock(t)
    BY <2>2, QuietAcked DEF Lock, Goto, memory, disk, rwlock, history, TypeOK
<2>3. CASE Announce(t)
    BY <2>3, QuietAcked DEF Announce, memory, disk, rwlock, history, TypeOK
<2>4. CASE Refuse(t)
    BY <2>4, QuietAcked DEF Refuse, Inside, Unlock, memory, disk, rwlock, history, TypeOK
<2>5. CASE CreateUser(t)
    <3>1. PICK e \in Emails, uid \in Uids :
            users' = [users EXCEPT ![e] = uid] /\ Change(t, {e}, "users") /\ UNCHANGED players
      BY <2>5 DEF CreateUser
    <3> QED
      BY <3>1, ChangeAcked DEF TypeOK, UserTable
<2>6. CASE UpdateUser(t)
    <3>1. PICK e \in Emails, uid \in Uids :
            users' = [users EXCEPT ![e] = uid] /\ Change(t, {e}, "users") /\ UNCHANGED players
      BY <2>6 DEF UpdateUser
    <3> QED
      BY <3>1, ChangeAcked DEF TypeOK, UserTable
<2>7. CASE DeleteUser(t)
    <3>1. PICK e \in Emails :
            LET own == {x \in Uuids : players[x] # None /\ players[x].uid = users[e]} IN
            /\ users' = [users EXCEPT ![e] = None]
            /\ players' = [x \in Uuids |-> IF x \in own THEN None ELSE players[x]]
            /\ Change(t, {e} \cup own, "users")
      BY <2>7 DEF DeleteUser
    <3> QED
      BY <3>1, ChangeAcked DEF TypeOK, UserTable
<2>8. CASE CreateProfile(t)
    <3>1. PICK x \in Uuids, p \in Player :
            players' = [players EXCEPT ![x] = p] /\ Change(t, {x}, "players") /\ UNCHANGED users
      BY <2>8 DEF CreateProfile, TypeOK, UserTable, Player
    <3> QED
      BY <3>1, ChangeAcked DEF TypeOK, PlayerTable
<2>9. CASE UpdateProfile(t)
    <3>1. PICK x \in Uuids, n \in Names :
            players' = [players EXCEPT ![x].name = n] /\ Change(t, {x}, "players") /\ UNCHANGED users
      BY <2>9 DEF UpdateProfile
    <3> QED
      BY <3>1, ChangeAcked DEF TypeOK, PlayerTable
<2>10. CASE DeleteProfile(t)
    <3>1. PICK x \in Uuids :
            players' = [players EXCEPT ![x] = None] /\ Change(t, {x}, "players") /\ UNCHANGED users
      BY <2>10 DEF DeleteProfile
    <3> QED
      BY <3>1, ChangeAcked DEF TypeOK, PlayerTable
<2>11. CASE Truncate(t)
    <3>1. usersFile' \in {usersFile, Cut(usersFile)} /\ playersFile' \in {playersFile, Cut(playersFile)}
          /\ UNCHANGED <<users, players, meta, torn, open, purged, undeleted, acked, phase>>
      BY <2>11 DEF Truncate, memory, history
    <3>2. Cut(usersFile).state = "torn" /\ Cut(playersFile).state = "torn"
      BY DEF Cut, TypeOK, File
    <3> QED
      BY <3>1, <3>2 DEF AckedOK
<2>12. CASE SaveFails(t)
    BY <2>12, QuietAcked DEF SaveFails, Fault, Unlock, memory, disk, rwlock, history, TypeOK
<2>13. CASE SaveUsers(t)
    BY <2>13, SaveUsersAcked
<2>14. CASE SavePlayers(t)
    BY <2>14, SavePlayersAcked
<2>15. CASE UploadTexture(t)
    <3>1. PICK i \in Images : torn' = torn \cup {i} /\ open' = open \cup {i}
      BY <2>15 DEF UploadTexture
    <3> QED
      BY <2>15, <3>1 DEF UploadTexture, memory, AckedOK
<2>16. CASE SaveMeta(t)
    <3>1. PICK i \in Images, x \in Uuids :
            /\ meta' = [meta EXCEPT ![i] = x] /\ torn' = torn \ {i} /\ open' = open \ {i}
            /\ acked' = [acked EXCEPT !.meta[i] = x]
            /\ undeleted' = undeleted \ {i}
            /\ UNCHANGED <<users, players, usersFile, playersFile, phase, purged>>
      BY <2>16 DEF SaveMeta, ChangesOK, memory
    <3>2. i \notin Emails \cup Uuids
      BY KeysAssumption
    <3>3. acked'.users = acked.users /\ acked'.players = acked.players
          /\ acked'.meta = [acked.meta EXCEPT ![i] = x]
      BY <3>1 DEF TypeOK
    <3>4. acked'.meta[i] = x /\ meta'[i] = x
          /\ \A j \in Images \ {i} : acked'.meta[j] = acked.meta[j] /\ meta'[j] = meta[j]
      BY <3>1, <3>3 DEF TypeOK
    <3>5. \A j \in Images \ open' : j \notin torn' /\ (meta'[j] = acked'.meta[j] \/ j \in undeleted')
      BY <3>1, <3>4 DEF AckedOK
    <3> QED
      BY <3>1, <3>2, <3>3, <3>5 DEF AckedOK
<2>17. CASE DeleteTexture(t)
    <3>1. PICK i \in Images :
            /\ \/ meta' = [meta EXCEPT ![i] = None] /\ undeleted' = undeleted \ {i}
               \/ UNCHANGED meta /\ undeleted' = undeleted \cup {i}
            /\ i \notin torn /\ UNCHANGED torn /\ open' = open \ {i}
            /\ acked' = [acked EXCEPT !.meta[i] = None]
            /\ UNCHANGED <<users, players, usersFile, playersFile, phase, purged>>
      BY <2>17 DEF DeleteTexture, memory
    <3>2. i \notin Emails \cup Uuids
      BY KeysAssumption
    <3>3. acked'.users = acked.users /\ acked'.players = acked.players
          /\ acked'.meta = [acked.meta EXCEPT ![i] = None]
      BY <3>1 DEF TypeOK
    <3>4. /\ acked'.meta[i] = None /\ (meta'[i] = None \/ i \in undeleted')
          /\ \A j \in Images \ {i} : /\ acked'.meta[j] = acked.meta[j] /\ meta'[j] = meta[j]
                                     /\ j \in undeleted' <=> j \in undeleted
      BY <3>1, <3>3 DEF TypeOK
    <3>5. \A j \in Images \ open' : j \notin torn' /\ (meta'[j] = acked'.meta[j] \/ j \in undeleted')
      BY <3>1, <3>4 DEF AckedOK
    <3> QED
      BY <3>1, <3>2, <3>3, <3>5 DEF AckedOK
<2>18. CASE GetPlayerTextures(t)
    BY <2>18, QuietAcked DEF GetPlayerTextures, RLock, Goto, memory, disk, rwlock, history, TypeOK
<2>19. CASE EndRead(t)
    BY <2>19, QuietAcked DEF EndRead, Goto, memory, disk, rwlock, history, TypeOK
<2> QED
    BY <2>1, <2>2, <2>3, <2>4, <2>5, <2>6, <2>7, <2>8, <2>9, <2>10, <2>11, <2>12, <2>13, <2>14,
         <2>15, <2>16, <2>17, <2>18, <2>19, <1>a DEF Step
<1>1. CASE Crash
  BY <1>1 DEF Crash, disk, history, AckedOK
<1>2. CASE Start
  BY <1>2 DEF Start, memory, disk, history, AckedOK
<1>3. CASE StartFails
  BY <1>3 DEF StartFails, disk, history, AckedOK
<1>4. CASE LoadUsers
  <2>1. UNCHANGED <<players, playersFile, meta, torn, history>>
    BY <1>4 DEF LoadUsers
  <2>2. CASE phase = "users" /\ usersFile.state = "saved"
    BY <1>4, <2>1, <2>2 DEF LoadUsers, history, AckedOK
  <2>3. CASE phase = "users" /\ usersFile.state = "missing"
    <3>1. users' = DefaultUsers /\ usersFile' = Cut(usersFile) /\ phase' = "defaultUsers"
      BY <1>4, <2>3 DEF LoadUsers
    <3>2. usersFile'.state = "torn"
      BY <3>1 DEF Cut, TypeOK, File
    <3> QED
      BY <2>1, <2>3, <3>1, <3>2 DEF history, AckedOK
  <2>4. CASE phase = "defaultUsers"
    <3>1. usersFile'.state = "saved" /\ usersFile'.data = users /\ UNCHANGED users
          /\ phase' = "players"
      BY <1>4, <2>4 DEF LoadUsers, Written
    <3> QED
      BY <2>1, <2>4, <3>1 DEF history, AckedOK
  <2> QED
    BY <1>4, <2>2, <2>3, <2>4 DEF LoadUsers
<1>5. CASE LoadPlayers
  <2>1. UNCHANGED <<users, usersFile, meta, torn, history>>
    BY <1>5 DEF LoadPlayers
  <2>2. CASE phase = "players" /\ playersFile.state = "saved"
    BY <1>5, <2>1, <2>2 DEF LoadPlayers, history, AckedOK
  <2>3. CASE phase = "players" /\ playersFile.state = "missing"
    <3>1. players' = DefaultPlayers /\ playersFile' = Cut(playersFile) /\ phase' = "defaultPlayers"
      BY <1>5, <2>3 DEF LoadPlayers
    <3>2. playersFile'.state = "torn"
      BY <3>1 DEF Cut, TypeOK, File
    <3> QED
      BY <2>1, <2>3, <3>1, <3>2 DEF history, AckedOK
  <2>4. CASE phase = "defaultPlayers"
    <3>1. playersFile'.state = "saved" /\ playersFile'.data = players /\ UNCHANGED players
          /\ phase' = "textures"
      BY <1>5, <2>4 DEF LoadPlayers, Written
    <3> QED
      BY <2>1, <2>4, <3>1 DEF history, AckedOK
  <2> QED
    BY <1>5, <2>2, <2>3, <2>4 DEF LoadPlayers
<1>6. CASE LoadTextures
  BY <1>6 DEF LoadTextures, memory, history, AckedOK
<1>7. CASE UNCHANGED vars
  BY <1>7, QuietAcked DEF vars, memory, disk
<1> QED
  BY <1>1, <1>2, <1>3, <1>4, <1>5, <1>6, <1>7, <1>a DEF Next

-----------------------------------------------------------------------------
(* The theorems.                                                           *)

\* The invariant holds at the start.
LEMMA InitInv == Init => Inv
<1> SUFFICES ASSUME Init PROVE Inv
  OBVIOUS
<1>1. LocksOK /\ ChangesOK
  BY NoneAssumption DEF Init, LocksOK, ChangesOK
<1>2. NamesDistinct
  BY DEF Init, NamesDistinct, Distinct, NoPlayers
<1>3. AckedOK
  BY DEF Init, AckedOK, UsersLoaded, PlayersLoaded
<1> QED
  BY <1>1, <1>2, <1>3, InitTyped DEF Inv

\* Every step keeps the invariant.
LEMMA NextInv == Inv /\ [Next]_vars => Inv'
BY NextTyped, NextLocks, NextChanges, NextNames, NextAcked DEF Inv

\* The inductive invariant holds: the lock, the changes on their way, names, what is on disk.
THEOREM Invariance == Spec => []Inv
BY InitInv, NextInv, PTL DEF Spec

\* The tables, the files, the lock and the history have their types.
THEOREM Typed == Spec => []TypeOK
BY Invariance, PTL DEF Inv

\* No two players have one name, in memory or in what players.json last held.
THEOREM NamesStayDistinct == Spec => []NamesDistinct
BY Invariance, PTL DEF Inv

\* What was acknowledged holds, over crashes, restarts and failed writes, except for keys
\* with an unacknowledged change and the players of deleted accounts.
THEOREM AcknowledgedStays == Spec => []AcknowledgedHolds
<1>1. Inv => AcknowledgedHolds
  BY DEF Inv, AckedOK, UsersLoaded, PlayersLoaded, AsAckedUser, AsAckedPlayer, AcknowledgedHolds
<1> QED
  BY <1>1, Invariance, PTL

\* Requests that only wait for each other do so for a nested read lock.
LEMMA StuckIsNested == Inv => OnlyNestedReads
<1> SUFFICES ASSUME Inv, Stuck PROVE writer # None /\ \E r \in Threads : pc[r] = "wait" /\ holds[r] = 1
  BY DEF OnlyNestedReads
<1> USE DEF Inv
<1>1. PICK t \in Threads : pc[t] # "idle" /\ Blocked(t)
  BY DEF Stuck
<1>2. writer # None
  BY <1>1 DEF Blocked, LocksOK
<1>3. writer \in Threads /\ pc[writer] # "idle" /\ pc[writer] # "wait"
  BY <1>2 DEF TypeOK, LocksOK
<1>4. pc[writer] = "lock" /\ ~Inside(writer)
  BY <1>3 DEF Stuck, Blocked
<1>5. PICK r \in Threads : holds[r] # 0
  BY <1>3, <1>4 DEF Inside
<1>6. pc[r] \in {"read", "wait"}
  BY <1>5 DEF TypeOK, LocksOK
<1>7. pc[r] = "wait"
  BY <1>6 DEF Stuck, Blocked
<1>8. holds[r] = 1
  BY <1>5, <1>7 DEF TypeOK, LocksOK
<1> QED
  BY <1>2, <1>7, <1>8

\* The one deadlock of the storage is that of a lookup that asks for its read lock again.
THEOREM OnlyNestedReadsDeadlock == Spec => []OnlyNestedReads
BY StuckIsNested, Invariance, PTL
=============================================================================
