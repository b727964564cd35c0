--------------------------- MODULE UuidDirectory ---------------------------
(***************************************************************************)
(* UUIDs of the legacy mode over BlessingSkin (src/storage/blessing_skin,  *)
(* uuid.go, lru_cache.go, profiles.go and the lookups of users.go): the    *)
(* table uuid(id, name, uuid), which no unique key protects, and on each   *)
(* node two LRU caches in front of it, name to UUID and back.              *)
(*                                                                         *)
(* A name is a spelling. SQL compares names by the collation of the tables *)
(* (utf8mb4_unicode_ci), under which several spellings may be alike; the   *)
(* keys of the caches and of Go's maps, and the input of version 3, are    *)
(* the bytes of the one that a client, the players or the rows have.       *)
(*                                                                         *)
(* One action is one SQL statement with the cache operations around it:    *)
(* every cache operation has its mutex, and those of one loop are merged.  *)
(***************************************************************************)
EXTENDS Naturals, Sequences, FiniteSets

CONSTANTS
  Nodes, Threads,      \* servers and their requests
  NodeOf,              \* NodeOf[t]: the node that serves t
  Names, Uuids,        \* spellings of player names, UUIDs
  Weight,              \* Weight[n]: what the collation compares of a name
  V3,                  \* V3[n]: the UUID that version 3 derives from a name
  Capacity,            \* entries of one LRU cache
  Preload,             \* mappings a starting node reads ahead
  Starts,              \* what the nodes may find when they first start; with each of it a
                       \* BOUND of calls, changes of the site, failing INSERTs and restarts
  None

ASSUME NamesAssumption == IsFiniteSet(Names)
ASSUME NodeAssumption == NodeOf \in [Threads -> Nodes]
ASSUME V3Assumption ==
  /\ V3 \in [Names -> Uuids]
  /\ \A m, n \in Names : V3[m] = V3[n] => m = n
ASSUME WeightAssumption == DOMAIN Weight = Names
ASSUME CapacityAssumption == Capacity \in Nat \ {0} /\ Preload \in Nat
ASSUME NoneAssumption == None \notin Names \cup Uuids

Mapping == [name : Names, uuid : Uuids]
Map(n, u) == [name |-> n, uuid |-> u]

ASSUME StartsAssumption ==
  \A s \in Starts :
    /\ s.algorithm \in [Nodes -> {"v3", "v4"}] /\ s.players \subseteq Names
    /\ s.rows \in Seq(Mapping)
    /\ s.budget \in [calls : Nat, edits : Nat, faults : Nat, restarts : Nat]

\* WHERE name = ?, name IN ?, and the joins on a name.
Alike(m, n) == Weight[m] = Weight[n]

VARIABLES
  algorithm,      \* the option ygg_uuid_algorithm, as each node has loaded it
  players,        \* names in the site's table players
  rows,           \* the table uuid, by id
  byName, byUuid, \* the caches of each node, most recently used entry first
  pc, loc,        \* per request: next step, local variables
  drawn,          \* random UUIDs drawn so far
  budget,         \* what is left of the chosen bound
  told,           \* history: told[n], the UUIDs some answer gave for name n
  shown,          \* history: names of answered profiles with the player their textures are of
  legacy,         \* history: mappings of the table when the nodes first started
  ever,           \* history: mappings that have been rows
  unsaved,        \* history: mappings whose batch INSERT failed
  renamed         \* history: old and new names of renames, in every spelling

caches == <<byName, byUuid>>
history == <<told, shown, legacy, ever, unsaved, renamed>>
vars == <<algorithm, players, rows, caches, pc, loc, drawn, budget, history>>

\* A request: the player's name and the spelling that is asked for, the UUID, whose textures.
Idle == [name |-> None, asked |-> None, uuid |-> None, owner |-> None,
         todo |-> {}, missing |-> {}, new |-> {}, found |-> {}, id |-> 0]

Goto(t, l) == pc' = [pc EXCEPT ![t] = l]
Return(t) == Goto(t, "idle") /\ loc' = [loc EXCEPT ![t] = Idle]

\* A call that the site's or a client's request makes.
Call(t) ==
  /\ pc[t] = "idle"
  /\ budget.calls > 0
  /\ budget' = [budget EXCEPT !.calls = @ - 1]

Fault == budget.faults > 0 /\ budget' = [budget EXCEPT !.faults = @ - 1]

(***************************************************************************)
(* The table: First is the row of the lowest id, a join or Find meets any. *)
(***************************************************************************)
RowsOf(n) == {i \in DOMAIN rows : Alike(rows[i].name, n)}
RowsWith(u) == {i \in DOMAIN rows : rows[i].uuid = u}
First(ids) == CHOOSE i \in ids : \A j \in ids : i <= j

(***************************************************************************)
(* LRUCache: Get and Put move an entry to the front, Put drops the last    *)
(* one of a full cache.                                                    *)
(***************************************************************************)
Cached(c, k) == \E i \in DOMAIN c : c[i].key = k
At(c, k) == CHOOSE i \in DOMAIN c : c[i].key = k
Without(c, i) == [j \in 1 .. Len(c) - 1 |-> IF j < i THEN c[j] ELSE c[j + 1]]
Front(e, c) == <<e>> \o c

Get(c, k) == Front(c[At(c, k)], Without(c, At(c, k)))

Put(c, k, v) ==
  LET e == [key |-> k, value |-> v] IN
  IF Cached(c, k) THEN Front(e, Without(c, At(c, k)))
  ELSE IF Len(c) >= Capacity THEN Front(e, Without(c, Len(c)))
  ELSE Front(e, c)

\* PutMapping: a Put in each direction.
PutMapping(x, m) ==
  /\ byName' = [byName EXCEPT ![x] = Put(@, m.name, m.uuid)]
  /\ byUuid' = [byUuid EXCEPT ![x] = Put(@, m.uuid, m.name)]

\* A Put of each mapping of s in turn.
PutEach(c, s, key, value) ==
  LET after[i \in 0 .. Len(s)] ==
        IF i = 0 THEN c ELSE Put(after[i - 1], s[i][key], s[i][value])
  IN after[Len(s)]

PutMappings(x, s) ==
  /\ byName' = [byName EXCEPT ![x] = PutEach(@, s, "name", "uuid")]
  /\ byUuid' = [byUuid EXCEPT ![x] = PutEach(@, s, "uuid", "name")]

\* UUIDs that version 4 does not draw (again): a collision of random bits is left out.
LegacyUuids == {m.uuid : m \in legacy}
Taken == drawn \cup LegacyUuids \cup {V3[n] : n \in Names}

\* (A slip: one random UUID for all names of a batch.)
GeneratedOnce(x, ns, gen) ==
  IF algorithm[x] = "v4"
  THEN /\ gen \in [ns -> Uuids \ Taken]
       /\ \A m, n \in ns : gen[m] = gen[n]
       /\ drawn' = drawn \cup {gen[n] : n \in ns}
  ELSE gen = [n \in ns |-> V3[n]] /\ UNCHANGED drawn

\* GenerateUUID for a set of names: version 3, or as many new random UUIDs.
Generated(x, ns, gen) ==
  IF algorithm[x] = "v4"
  THEN /\ gen \in [ns -> Uuids \ Taken]
       /\ \A m, n \in ns : m # n => gen[m] # gen[n]
       /\ drawn' = drawn \cup {gen[n] : n \in ns}
  ELSE gen = [n \in ns |-> V3[n]] /\ UNCHANGED drawn

\* The sequences of the elements of a set, each once.
Orders(s) == {q \in [1 .. Cardinality(s) -> s] : \A i, j \in DOMAIN q : i # j => q[i] # q[j]}

Tell(m) == told' = [told EXCEPT ![m.name] = @ \cup {m.uuid}]

(***************************************************************************)
(* GetProfileByName and GetProfileByUUID: one join, then the UUID of a     *)
(* player that has none, then the textures. The client asks by any         *)
(* spelling of the name; the UUID is looked for, and created, under that   *)
(* spelling (profiles.go:134), the profile has the player's.               *)
(***************************************************************************)
GetProfileByName(t) ==
  /\ Call(t)
  /\ \E asked \in Names, p \in players :
       /\ Alike(p, asked)
       /\ \/ \E i \in RowsOf(p) :
               /\ loc' = [loc EXCEPT ![t].name = p, ![t].uuid = rows[i].uuid]
               /\ Goto(t, "textures")
          \/ /\ RowsOf(p) = {}
             /\ loc' = [loc EXCEPT ![t].name = p, ![t].asked = asked]
             /\ Goto(t, "get")
  /\ UNCHANGED <<algorithm, players, rows, caches, drawn, history>>

GetProfileByUUID(t) ==
  /\ Call(t)
  /\ \E i \in DOMAIN rows, p \in players :
       /\ Alike(rows[i].name, p)
       /\ loc' = [loc EXCEPT ![t].name = p, ![t].uuid = rows[i].uuid]
       /\ Goto(t, "textures")
  /\ UNCHANGED <<algorithm, players, rows, caches, drawn, history>>

\* GetOrCreateUUID: the cache, the table, a new row.
GetOrCreateUUID(t) ==
  LET n == loc[t].asked
      x == NodeOf[t]
  IN
  /\ pc[t] = "get"
  /\ \/ /\ Cached(byName[x], n)
        /\ byName' = [byName EXCEPT ![x] = Get(@, n)]
        /\ loc' = [loc EXCEPT ![t].uuid = byName[x][At(byName[x], n)].value]
        /\ Goto(t, "textures")
     \/ /\ ~Cached(byName[x], n)
        /\ Goto(t, "first")
        /\ UNCHANGED <<byName, loc>>
  /\ UNCHANGED <<algorithm, players, rows, byUuid, drawn, budget, history>>

FindOrGenerate(t) ==
  LET n == loc[t].asked IN
  /\ pc[t] = "first"
  /\ \/ /\ RowsOf(n) # {}
        /\ loc' = [loc EXCEPT ![t].uuid = rows[First(RowsOf(n))].uuid]
        /\ PutMapping(NodeOf[t], rows[First(RowsOf(n))])
        /\ Goto(t, "textures")
        /\ UNCHANGED drawn
     \/ /\ RowsOf(n) = {}
        /\ \E u \in Uuids :
             /\ Generated(NodeOf[t], {n}, [m \in {n} |-> u])
             /\ loc' = [loc EXCEPT ![t].uuid = u]
        /\ Goto(t, "create")
        /\ UNCHANGED caches
  /\ UNCHANGED <<algorithm, players, rows, budget, history>>

\* (A slip: the mapping is cached whether or not it was inserted.)
CreateCached(t) ==
  LET m == Map(loc[t].asked, loc[t].uuid) IN
  /\ pc[t] = "create"
  /\ \/ /\ rows' = Append(rows, m)
        /\ ever' = ever \cup {m}
        /\ Goto(t, "textures")
        /\ UNCHANGED <<loc, budget>>
     \/ Fault /\ Return(t) /\ UNCHANGED <<rows, ever>>
  /\ PutMapping(NodeOf[t], m)
  /\ UNCHANGED <<algorithm, players, drawn, told, shown, legacy, unsaved, renamed>>

\* (A slip: a failed INSERT is only reported, as it is for a batch.)
CreateUnchecked(t) ==
  LET m == Map(loc[t].asked, loc[t].uuid) IN
  /\ pc[t] = "create"
  /\ \/ /\ rows' = Append(rows, m)
        /\ ever' = ever \cup {m}
        /\ UNCHANGED budget
     \/ Fault /\ UNCHANGED <<rows, ever>>
  /\ Goto(t, "textures")
  /\ UNCHANGED <<algorithm, players, caches, loc, drawn, told, shown, legacy, unsaved, renamed>>

Create(t) ==
  LET m == Map(loc[t].asked, loc[t].uuid) IN
  /\ pc[t] = "create"
  /\ \/ /\ rows' = Append(rows, m)
        /\ ever' = ever \cup {m}
        /\ PutMapping(NodeOf[t], m)
        /\ Goto(t, "textures")
        /\ UNCHANGED <<loc, budget>>
     \/ Fault /\ Return(t) /\ UNCHANGED <<rows, caches, ever>>
  /\ UNCHANGED <<algorithm, players, drawn, told, shown, legacy, unsaved, renamed>>

(***************************************************************************)
(* GetPlayerTextures: the name of the UUID by cache or table, then the     *)
(* textures of a player of that name in some spelling. Without them the    *)
(* profile is answered all the same.                                       *)
(***************************************************************************)
GetNameByUUID(t) ==
  LET u == loc[t].uuid
      x == NodeOf[t]
  IN
  /\ pc[t] = "textures"
  /\ \/ /\ Cached(byUuid[x], u)
        /\ byUuid' = [byUuid EXCEPT ![x] = Get(@, u)]
        /\ loc' = [loc EXCEPT ![t].owner = byUuid[x][At(byUuid[x], u)].value]
        /\ Goto(t, "answer")
     \/ /\ ~Cached(byUuid[x], u)
        /\ Goto(t, "firstName")
        /\ UNCHANGED <<byUuid, loc>>
  /\ UNCHANGED <<algorithm, players, rows, byName, drawn, budget, history>>

\* (A slip: the first row of the table, whatever its UUID.)
FindAnyName(t) ==
  /\ pc[t] = "firstName"
  /\ rows # <<>>
  /\ loc' = [loc EXCEPT ![t].owner = rows[1].name]
  /\ Goto(t, "answer")
  /\ UNCHANGED <<algorithm, players, rows, caches, drawn, budget, history>>

FindName(t) ==
  LET u == loc[t].uuid IN
  /\ pc[t] = "firstName"
  /\ \/ /\ RowsWith(u) # {}
        /\ loc' = [loc EXCEPT ![t].owner = rows[First(RowsWith(u))].name]
        /\ PutMapping(NodeOf[t], rows[First(RowsWith(u))])
     \/ RowsWith(u) = {} /\ UNCHANGED <<loc, caches>>
  /\ Goto(t, "answer")
  /\ UNCHANGED <<algorithm, players, rows, drawn, budget, history>>

Answer(t) ==
  /\ pc[t] = "answer"
  /\ Tell(Map(loc[t].name, loc[t].uuid))
  /\ LET owners == {p \in players : loc[t].owner # None /\ Alike(p, loc[t].owner)} IN
     \/ \E p \in owners : shown' = shown \cup {<<loc[t].name, p>>}
     \/ owners = {} /\ UNCHANGED shown
  /\ Return(t)
  /\ UNCHANGED <<algorithm, players, rows, caches, drawn, budget, legacy, ever, unsaved, renamed>>

(***************************************************************************)
(* Several names, which are the players' own: GetProfilesByNames asks the  *)
(* caches for all of them, a lookup of an account (by id, email, player    *)
(* name or UUID, and a login) only for players its join found no UUID of:  *)
(* of the others it has a profile for every row. GetUUIDsByNames caches    *)
(* what it generates before it inserts it, and only reports a failed       *)
(* INSERT.                                                                 *)
(***************************************************************************)
GetProfilesByNames(t) ==
  /\ Call(t)
  /\ \E ns \in SUBSET players \ {{}} : loc' = [loc EXCEPT ![t].todo = ns]
  /\ Goto(t, "batch")
  /\ UNCHANGED <<algorithm, players, rows, caches, drawn, history>>

GetUser(t) ==
  /\ Call(t)
  /\ \E ns \in SUBSET players \ {{}} :
       loc' = [loc EXCEPT ![t].todo = {n \in ns : RowsOf(n) = {}},
                          ![t].found = UNION {{Map(n, rows[i].uuid) : i \in RowsOf(n)} : n \in ns}]
  /\ Goto(t, "batch")
  /\ UNCHANGED <<algorithm, players, rows, caches, drawn, history>>

BatchGet(t) ==
  LET c == byName[NodeOf[t]] IN
  /\ pc[t] = "batch"
  /\ \E n \in loc[t].todo :
       \/ /\ Cached(c, n)
          /\ byName' = [byName EXCEPT ![NodeOf[t]] = Get(@, n)]
          /\ loc' = [loc EXCEPT ![t].todo = @ \ {n}, ![t].found = @ \cup {Map(n, c[At(c, n)].value)}]
       \/ /\ ~Cached(c, n)
          /\ loc' = [loc EXCEPT ![t].todo = @ \ {n}, ![t].missing = @ \cup {n}]
          /\ UNCHANGED byName
  /\ UNCHANGED <<algorithm, players, rows, byUuid, pc, drawn, budget, history>>

\* The rows of all spellings are met and cached, in any order. The map of the results has them by
\* the rows' spellings, of several of one the last: a name of which there are rows in other
\* spellings only gets a UUID and a row of its own (uuid.go:208-218). Of the map, the names that
\* were asked for are answered.
BatchFind(t) ==
  LET missing == loc[t].missing
      found == loc[t].found
      lacking == {n \in missing : \A i \in DOMAIN rows : rows[i].name # n}
  IN
  /\ pc[t] = "batch" /\ loc[t].todo = {} /\ missing # {}
  /\ \E met \in Orders(UNION {RowsOf(n) : n \in missing}),
        gen \in [lacking -> Uuids], order \in Orders(lacking) :
       LET seen == {rows[met[i]] : i \in {i \in DOMAIN met :
                      \A j \in DOMAIN met : j > i => rows[met[j]].name # rows[met[i]].name}}
           new == {Map(n, gen[n]) : n \in lacking}
       IN
       /\ Generated(NodeOf[t], lacking, gen)
       /\ PutMappings(NodeOf[t], [i \in DOMAIN met |-> rows[met[i]]]
                                 \o [i \in DOMAIN order |-> Map(order[i], gen[order[i]])])
       /\ loc' = [loc EXCEPT ![t].missing = {}, ![t].new = new,
                   ![t].found = {f \in found : \A h \in seen : h.name # f.name} \cup new
                                \cup {h \in seen : h.name \in missing \cup {f.name : f \in found}}]
  /\ UNCHANGED <<algorithm, players, rows, pc, budget, history>>

BatchInsert(t) ==
  LET new == loc[t].new IN
  /\ pc[t] = "batch" /\ new # {}
  /\ \/ /\ \E s \in Orders(new) : rows' = rows \o s
        /\ ever' = ever \cup new
        /\ UNCHANGED <<budget, unsaved>>
     \/ Fault /\ unsaved' = unsaved \cup new /\ UNCHANGED <<rows, ever>>
  /\ loc' = [loc EXCEPT ![t].new = {}]
  /\ UNCHANGED <<algorithm, players, caches, pc, drawn, told, shown, legacy, renamed>>

BatchAnswer(t) ==
  /\ pc[t] = "batch"
  /\ loc[t].todo = {} /\ loc[t].missing = {} /\ loc[t].new = {}
  /\ told' = [n \in Names |-> told[n] \cup {m.uuid : m \in {f \in loc[t].found : f.name = n}}]
  /\ Return(t)
  /\ UNCHANGED <<algorithm, players, rows, caches, drawn, budget, shown, legacy, ever, unsaved, renamed>>

(***************************************************************************)
(* UpdateUUIDMapping, with the site's rename of the player it belongs to:  *)
(* the mapping is read, the new name looked for, the row saved. No cache   *)
(* hears of it.                                                            *)
(***************************************************************************)
Edit == budget.edits > 0 /\ budget' = [budget EXCEPT !.edits = @ - 1]

RenamePlayer(t) ==
  /\ pc[t] = "idle"
  /\ Edit
  /\ \E old \in players, new \in Names \ players :
       /\ players' = (players \ {old}) \cup {new}
       /\ renamed' = renamed \cup {n \in Names : Alike(n, old) \/ Alike(n, new)}
       /\ loc' = [loc EXCEPT ![t].name = old, ![t].owner = new]
  /\ Goto(t, "rename")
  /\ UNCHANGED <<algorithm, rows, caches, drawn, told, shown, legacy, ever, unsaved>>

UpdateUUIDMapping(t) ==
  /\ pc[t] = "rename"
  /\ \/ RowsOf(loc[t].name) = {} /\ Return(t)
     \/ /\ RowsOf(loc[t].name) # {}
        /\ loc' = [loc EXCEPT ![t].id = First(RowsOf(loc[t].name))]
        /\ Goto(t, "checkName")
  /\ UNCHANGED <<algorithm, players, rows, caches, drawn, budget, history>>

CheckName(t) ==
  /\ pc[t] = "checkName"
  /\ \/ RowsOf(loc[t].owner) # {} /\ Return(t)
     \/ RowsOf(loc[t].owner) = {} /\ Goto(t, "saveName") /\ UNCHANGED loc
  /\ UNCHANGED <<algorithm, players, rows, caches, drawn, budget, history>>

SaveName(t) ==
  /\ pc[t] = "saveName"
  /\ rows' = [rows EXCEPT ![loc[t].id].name = loc[t].owner]
  /\ ever' = ever \cup {rows'[loc[t].id]}
  /\ Return(t)
  /\ UNCHANGED <<algorithm, players, caches, drawn, budget, told, shown, legacy, unsaved, renamed>>

\* The site adds and deletes players; it leaves the table uuid alone.
AddPlayer ==
  /\ Edit
  /\ \E n \in Names \ players : players' = players \cup {n}
  /\ UNCHANGED <<algorithm, rows, caches, pc, loc, drawn, history>>

DeletePlayer ==
  /\ Edit
  /\ \E n \in players : players' = players \ {n}
  /\ UNCHANGED <<algorithm, rows, caches, pc, loc, drawn, history>>

\* preloadUUIDs: the first rows, or none when the query fails.
Loaded(n, key, value) == PutEach(<<>>, SubSeq(rows, 1, n), key, value)
Preloads == {0, IF Len(rows) < Preload THEN Len(rows) ELSE Preload}

\* A node restarts: its requests end, it fills its caches and loads the option again, or takes the
\* default when it cannot.
Restart(x) ==
  /\ budget.restarts > 0
  /\ budget' = [budget EXCEPT !.restarts = @ - 1]
  /\ \E a \in {"v3", "v4"} : algorithm' = [algorithm EXCEPT ![x] = a]
  /\ \E n \in Preloads :
       /\ byName' = [byName EXCEPT ![x] = Loaded(n, "name", "uuid")]
       /\ byUuid' = [byUuid EXCEPT ![x] = Loaded(n, "uuid", "name")]
  /\ pc' = [t \in Threads |-> IF NodeOf[t] = x THEN "idle" ELSE pc[t]]
  /\ loc' = [t \in Threads |-> IF NodeOf[t] = x THEN Idle ELSE loc[t]]
  /\ unsaved' = unsaved \cup UNION {loc[t].new : t \in {s \in Threads : NodeOf[s] = x}}
  /\ UNCHANGED <<players, rows, drawn, told, shown, legacy, ever, renamed>>

\* The nodes start over the site as it is: its table may have several rows of a name, in one
\* spelling or more, and of a UUID, and each node has loaded the option by itself.
Init ==
  /\ \E s \in Starts :
       algorithm = s.algorithm /\ players = s.players /\ rows = s.rows /\ budget = s.budget
  /\ \E ahead \in [Nodes -> Preloads] :
       /\ byName = [x \in Nodes |-> Loaded(ahead[x], "name", "uuid")]
       /\ byUuid = [x \in Nodes |-> Loaded(ahead[x], "uuid", "name")]
  /\ pc = [t \in Threads |-> "idle"]
  /\ loc = [t \in Threads |-> Idle]
  /\ drawn = {}
  /\ told = [n \in Names |-> {}]
  /\ legacy = {rows[i] : i \in DOMAIN rows}
  /\ ever = legacy
  /\ shown = {} /\ unsaved = {} /\ renamed = {}

Request(t) ==
  \/ GetProfileByName(t) \/ GetProfileByUUID(t) \/ GetOrCreateUUID(t) \/ FindOrGenerate(t)
  \/ Create(t) \/ GetNameByUUID(t) \/ FindName(t) \/ Answer(t)
  \/ GetProfilesByNames(t) \/ GetUser(t) \/ BatchGet(t) \/ BatchFind(t) \/ BatchInsert(t)
  \/ BatchAnswer(t)
  \/ RenamePlayer(t) \/ UpdateUUIDMapping(t) \/ CheckName(t) \/ SaveName(t)

Next ==
  \/ \E t \in Threads : Request(t)
  \/ AddPlayer \/ DeletePlayer
  \/ \E x \in Nodes : Restart(x)

Spec == Init /\ [][Next]_vars
-----------------------------------------------------------------------------
Local == [name : Names \cup {None}, asked : Names \cup {None}, uuid : Uuids \cup {None},
          owner : Names \cup {None},
          todo : SUBSET Names, missing : SUBSET Names, new : SUBSET Mapping,
          found : SUBSET Mapping, id : Nat]

IsCache(c, keys, values) ==
  /\ c \in Seq([key : keys, value : values])
  /\ Len(c) <= Capacity
  /\ \A i, j \in DOMAIN c : c[i].key = c[j].key => i = j

\* Types; a cache never exceeds its capacity and holds a key once.
TypeOK ==
  /\ algorithm \in [Nodes -> {"v3", "v4"}]
  /\ players \subseteq Names
  /\ rows \in Seq(Mapping)
  /\ byName \in [Nodes -> Seq([key : Names, value : Uuids])]
  /\ byUuid \in [Nodes -> Seq([key : Uuids, value : Names])]
  /\ \A x \in Nodes : IsCache(byName[x], Names, Uuids) /\ IsCache(byUuid[x], Uuids, Names)
  /\ pc \in [Threads -> {"idle", "get", "first", "create", "textures", "firstName", "answer",
                         "batch", "rename", "checkName", "saveName"}]
  /\ loc \in [Threads -> Local]
  /\ drawn \subseteq Uuids
  /\ budget \in [calls : Nat, edits : Nat, faults : Nat, restarts : Nat]
  /\ told \in [Names -> SUBSET Uuids]
  /\ shown \subseteq Names \X Names
  /\ legacy \subseteq Mapping /\ ever \subseteq Mapping /\ unsaved \subseteq Mapping /\ renamed \subseteq Names

(***************************************************************************)
(* What a node's caches say has been in the table at some time, or comes   *)
(* from a batch: one that has not inserted it yet, or one whose INSERT     *)
(* failed and left the caches as they were (uuid.go:238).                  *)
(***************************************************************************)
Batched == unsaved \cup UNION {loc[t].new : t \in Threads}

CachedWasStored ==
  \A x \in Nodes :
    /\ \A i \in DOMAIN byName[x] : Map(byName[x][i].key, byName[x][i].value) \in ever \cup Batched
    /\ \A i \in DOMAIN byUuid[x] : Map(byUuid[x][i].value, byUuid[x][i].key) \in ever \cup Batched

\* What has been in the table, or a batch generated; what is in the table still.
Known == ever \cup Batched
Held == {rows[i] : i \in DOMAIN rows} \cup Batched

\* Mappings of S, in every spelling of their names.
Like(S) == {m \in Mapping : \E k \in S : Alike(k.name, m.name) /\ k.uuid = m.uuid}

(***************************************************************************)
(* When answers give a name two UUIDs, on whatever nodes, and the name was *)
(* not part of a rename, then both are in the table or in a batch that has *)
(* not saved its own (uuid.go:238), and they are of two spellings of the   *)
(* name (profiles.go:134, uuid.go:208), or one is random (two requests     *)
(* created one at once, uuid.go:96, or a batch cached it before or without *)
(* the INSERT, or a node came up with another algorithm), or one was there *)
(* before the nodes started. Of a name in one spelling, and version 3, one *)
(* UUID is ever answered.                                                  *)
(***************************************************************************)
AnswersAgree ==
  \A n \in Names \ renamed : \A u, w \in told[n] :
    u # w => \E m, k \in Held :
               /\ Alike(m.name, n) /\ m.uuid = u
               /\ Alike(k.name, n) /\ k.uuid = w
               /\ m.name # k.name \/ {u, w} \cap drawn # {} \/ {m, k} \cap legacy # {}

(***************************************************************************)
(* A profile is answered with the textures of the player it names, or of   *)
(* one that has had the same UUID: after a rename of both names, as the    *)
(* caches do not hear of renames (uuid.go:172), or because the UUID was in *)
(* the table before the nodes started.                                     *)
(***************************************************************************)
TexturesOwn ==
  \A s \in shown :
    \/ Alike(s[1], s[2])
    \/ /\ {s[1], s[2]} \subseteq renamed
       /\ \E u \in Uuids : {Map(s[1], u), Map(s[2], u)} \subseteq Like(ever)
    \/ \E u \in LegacyUuids : {Map(s[1], u), Map(s[2], u)} \subseteq Like(Known)

-----------------------------------------------------------------------------
(***************************************************************************)
(* Why they hold: what is said of a name comes from its rows, and only     *)
(* renames make two mappings of one UUID.                                  *)
(***************************************************************************)

\* UUIDs that Create is about to insert, which nobody else has seen.
Pending == {Map(loc[t].asked, loc[t].uuid) : t \in {s \in Threads : pc[s] = "create"}}

\* Mappings that some cache, request or answer takes for true.
NameEntries(x) == {Map(byName[x][i].key, byName[x][i].value) : i \in DOMAIN byName[x]}
UuidEntries(x) == {Map(byUuid[x][i].value, byUuid[x][i].key) : i \in DOMAIN byUuid[x]}
Resolved == {t \in Threads : pc[t] \in {"textures", "firstName", "answer"}}
Spoken ==
  (UNION {NameEntries(x) : x \in Nodes})
  \cup (UNION {loc[t].found : t \in Threads})
  \cup {Map(loc[t].name, loc[t].uuid) : t \in Resolved}
  \cup {m \in Mapping : m.uuid \in told[m.name]}

\* The local variables of a request at each step.
LocalOf(t) ==
  /\ pc[t] = "idle" => loc[t] = Idle
  /\ pc[t] \in {"get", "first", "create", "textures", "firstName", "answer"} => loc[t].name \in Names
  /\ pc[t] \in {"get", "first", "create"} => loc[t].asked \in Names /\ Alike(loc[t].asked, loc[t].name)
  /\ pc[t] \in {"create", "textures", "firstName", "answer"} => loc[t].uuid \in Uuids
  /\ pc[t] \in {"get", "first", "create", "textures", "firstName"} => loc[t].owner = None
  /\ pc[t] = "answer" => loc[t].owner = None \/ Map(loc[t].owner, loc[t].uuid) \in Known
  /\ pc[t] \in {"rename", "checkName", "saveName"} => {loc[t].name, loc[t].owner} \subseteq renamed
  /\ pc[t] \in {"checkName", "saveName"} =>
       loc[t].id \in DOMAIN rows /\ rows[loc[t].id].name \in renamed
  /\ pc[t] # "batch" => loc[t].new = {}
  /\ IsFiniteSet(loc[t].new)
  /\ loc[t].new # {} => loc[t].todo = {} /\ loc[t].missing = {}

\* A rename is one of a name in every spelling.
Closed == \A n \in renamed, k \in Names : Alike(n, k) => k \in renamed

\* What is said of a name was stored or generated for a spelling of it; of a name that nobody
\* renamed it still is in the table, or waits for its INSERT, or its INSERT has failed.
Truthful ==
  /\ legacy \cup {rows[i] : i \in DOMAIN rows} \subseteq ever
  /\ \A m \in Spoken : m \in Like(Known) /\ (m.name \in renamed \/ m \in Like(Held))
  /\ \A x \in Nodes : NameEntries(x) \cup UuidEntries(x) \subseteq Known
  /\ Closed

\* A UUID is that of the name's spelling, or random, or was there before; or that of the name
\* before a rename.
Derived ==
  \A m \in Known \cup Pending :
    \/ m.uuid = V3[m.name] \/ m.uuid \in drawn \/ m \in legacy
    \/ /\ m \in ever /\ m.name \in renamed
       /\ \/ m.uuid \in LegacyUuids
          \/ \E o \in renamed : V3[o] = m.uuid /\ Map(o, m.uuid) \in ever

\* Two spellings or names share a UUID after a rename only, or when it was there before.
Apart ==
  /\ drawn \cap (LegacyUuids \cup {V3[n] : n \in Names}) = {}
  /\ \A m, k \in Known \cup Pending : m.uuid = k.uuid /\ m.name # k.name =>
       \/ m.uuid \in LegacyUuids
       \/ {m, k} \subseteq ever /\ {m.name, k.name} \subseteq renamed

\* The inductive invariant.
Provenance ==
  /\ TypeOK
  /\ \A t \in Threads : LocalOf(t)
  /\ Truthful /\ Derived /\ Apart
  /\ TexturesOwn
================================================================================
