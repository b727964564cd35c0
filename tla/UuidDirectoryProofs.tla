------------------------ MODULE UuidDirectoryProofs ------------------------
(***************************************************************************)
(* Where the UUIDs of the legacy mode come from: whatever requests, nodes, *)
(* restarts, failed INSERTs and renames there are, UuidDirectory keeps     *)
(* Provenance, and its properties follow.                                  *)
(*                                                                         *)
(* A step is judged by what it adds: to the tables and histories (Grows),  *)
(* to what caches, requests and answers say (Says), and to the mappings    *)
(* that are known (NoneFresh, FreshOnes). Reading covers the steps that    *)
(* only look; one lemma per action (...Keeps) says that it adds no more.   *)
(***************************************************************************)
EXTENDS UuidDirectory, TLAPS, FiniteSetTheorems, WellFoundedInduction

-----------------------------------------------------------------------------
(* The LRU cache.                                                          *)

Entry(keys, values) == [key : keys, value : values]
Pairs(c) == {<<c[i].key, c[i].value>> : i \in DOMAIN c}

\* Without drops one entry and keeps the order of the others.
LEMMA WithoutIs ==
  ASSUME NEW E, NEW c \in Seq(E), NEW i \in 1 .. Len(c)
  PROVE  /\ Without(c, i) \in Seq(E)
         /\ Len(Without(c, i)) = Len(c) - 1
         /\ \A j \in 1 .. Len(c) - 1 : Without(c, i)[j] = IF j < i THEN c[j] ELSE c[j + 1]
<1>1. Len(c) \in Nat /\ Len(c) - 1 \in Nat
  OBVIOUS
<1>2. \A j \in 1 .. Len(c) - 1 : (IF j < i THEN c[j] ELSE c[j + 1]) \in E
  OBVIOUS
<1>3. Without(c, i) \in [1 .. Len(c) - 1 -> E]
  BY <1>2 DEF Without
<1> QED
  BY <1>1, <1>3 DEF Without

\* Front puts one entry before the others.
LEMMA FrontIs ==
  ASSUME NEW E, NEW e \in E, NEW c \in Seq(E)
  PROVE  /\ Front(e, c) \in Seq(E)
         /\ Len(Front(e, c)) = Len(c) + 1
         /\ Front(e, c)[1] = e
         /\ \A j \in 2 .. Len(c) + 1 : Front(e, c)[j] = c[j - 1]
BY DEF Front

\* The entry of another key before a cache with room, or before what is left of one.
LEMMA FrontKeeps ==
  ASSUME NEW keys, NEW values, NEW e \in Entry(keys, values), NEW c \in Seq(Entry(keys, values)),
         \A i, j \in DOMAIN c : c[i].key = c[j].key => i = j,
         Len(c) < Capacity, \A i \in DOMAIN c : c[i].key # e.key
  PROVE  /\ IsCache(Front(e, c), keys, values)
         /\ Pairs(Front(e, c)) \subseteq Pairs(c) \cup {<<e.key, e.value>>}
<1> DEFINE d == Front(e, c)
<1>1. /\ d \in Seq(Entry(keys, values)) /\ Len(d) = Len(c) + 1 /\ d[1] = e
      /\ \A j \in 2 .. Len(c) + 1 : d[j] = c[j - 1]
  BY FrontIs
<1>2. DOMAIN c = 1 .. Len(c) /\ Len(c) \in Nat /\ DOMAIN d = 1 .. Len(c) + 1
  BY <1>1
<1> HIDE DEF d
<1>3. \A i \in DOMAIN d : i = 1 \/ (i - 1 \in DOMAIN c /\ d[i] = c[i - 1])
  BY <1>1, <1>2
<1>4. \A i, j \in DOMAIN d : d[i].key = d[j].key => i = j
  <2> SUFFICES ASSUME NEW i \in DOMAIN d, NEW j \in DOMAIN d, d[i].key = d[j].key PROVE i = j
    OBVIOUS
  <2>1. i \in Nat /\ j \in Nat
    BY <1>2
  <2>2. (i # 1 /\ j # 1) => i - 1 = j - 1
    BY <1>3
  <2>3. i = 1 <=> j = 1
    BY <1>1, <1>3
  <2> QED
    BY <2>1, <2>2, <2>3
<1>5. Len(d) <= Capacity
  BY <1>1, <1>2, CapacityAssumption
<1>6. Pairs(d) \subseteq Pairs(c) \cup {<<e.key, e.value>>}
  BY <1>1, <1>3 DEF Pairs
<1> QED
  BY <1>1, <1>4, <1>5, <1>6 DEF IsCache, Entry, d

\* What is left of a cache without one entry.
LEMMA WithoutKeeps ==
  ASSUME NEW keys, NEW values, NEW c, IsCache(c, keys, values), NEW i \in DOMAIN c
  PROVE  /\ Without(c, i) \in Seq(Entry(keys, values))
         /\ \A j, k \in DOMAIN Without(c, i) : Without(c, i)[j].key = Without(c, i)[k].key => j = k
         /\ Len(Without(c, i)) < Capacity
         /\ \A j \in DOMAIN Without(c, i) : Without(c, i)[j].key # c[i].key
         /\ Pairs(Without(c, i)) \subseteq Pairs(c)
         /\ \A j \in DOMAIN Without(c, i) : \E k \in DOMAIN c : Without(c, i)[j] = c[k]
<1> DEFINE d == Without(c, i)
<1>1. c \in Seq(Entry(keys, values)) /\ Len(c) <= Capacity /\ i \in 1 .. Len(c)
      /\ \A j, k \in DOMAIN c : c[j].key = c[k].key => j = k
  BY DEF IsCache, Entry
<1>2. /\ d \in Seq(Entry(keys, values)) /\ Len(d) = Len(c) - 1
      /\ \A j \in 1 .. Len(c) - 1 : d[j] = IF j < i THEN c[j] ELSE c[j + 1]
  BY <1>1, WithoutIs
<1>3. DOMAIN c = 1 .. Len(c) /\ Len(c) \in Nat /\ DOMAIN d = 1 .. Len(c) - 1
  BY <1>1, <1>2
<1> HIDE DEF d
<1>4. \A j \in DOMAIN d : IF j < i THEN j \in DOMAIN c /\ d[j] = c[j]
                                   ELSE j + 1 \in DOMAIN c /\ d[j] = c[j + 1]
  BY <1>2, <1>3
<1>5. \A j, k \in DOMAIN d : d[j].key = d[k].key => j = k
  BY <1>1, <1>3, <1>4
<1>6. \A j \in DOMAIN d : d[j].key # c[i].key
  BY <1>1, <1>3, <1>4
<1>7. \A j \in DOMAIN d : \E k \in DOMAIN c : d[j] = c[k]
  BY <1>4
<1>8. Len(d) < Capacity
  BY <1>1, <1>2, <1>3, CapacityAssumption
<1>9. Pairs(d) \subseteq Pairs(c)
  BY <1>7 DEF Pairs
<1> QED
  BY <1>2, <1>5, <1>6, <1>7, <1>8, <1>9 DEF d

\* A cached key has a place.
LEMMA AtIs ==
  ASSUME NEW c, NEW k, Cached(c, k)
  PROVE  At(c, k) \in DOMAIN c /\ c[At(c, k)].key = k
BY DEF Cached, At

\* Get moves an entry and adds none.
LEMMA GetKeeps ==
  ASSUME NEW keys, NEW values, NEW c, IsCache(c, keys, values), NEW k, Cached(c, k)
  PROVE  /\ IsCache(Get(c, k), keys, values)
         /\ Pairs(Get(c, k)) \subseteq Pairs(c)
<1> DEFINE i == At(c, k)
<1>1. i \in DOMAIN c /\ c[i].key = k
  BY AtIs
<1> HIDE DEF i
<1>2. c[i] \in Entry(keys, values)
  <2>1. c \in Seq(Entry(keys, values))
    BY DEF IsCache, Entry
  <2> QED
    BY <1>1, <2>1
<1>3. <<c[i].key, c[i].value>> \in Pairs(c)
  BY <1>1 DEF Pairs
<1>4. /\ IsCache(Front(c[i], Without(c, i)), keys, values)
      /\ Pairs(Front(c[i], Without(c, i))) \subseteq Pairs(Without(c, i)) \cup {<<c[i].key, c[i].value>>}
      /\ Pairs(Without(c, i)) \subseteq Pairs(c)
  BY <1>1, <1>2, WithoutKeeps, FrontKeeps
<1> QED
  BY <1>3, <1>4 DEF Get, i

\* Put adds its entry and no other, in the place of the key's or of the oldest when the cache is full.
LEMMA PutKeeps ==
  ASSUME NEW keys, NEW values, NEW c, IsCache(c, keys, values), NEW k \in keys, NEW v \in values
  PROVE  /\ IsCache(Put(c, k, v), keys, values)
         /\ Pairs(Put(c, k, v)) \subseteq Pairs(c) \cup {<<k, v>>}
<1> DEFINE e == [key |-> k, value |-> v]
<1>1. e \in Entry(keys, values) /\ e.key = k /\ e.value = v
  BY DEF Entry
<1> HIDE DEF e
<1>2. /\ c \in Seq(Entry(keys, values)) /\ Len(c) <= Capacity /\ DOMAIN c = 1 .. Len(c) /\ Len(c) \in Nat
      /\ \A j, i \in DOMAIN c : c[j].key = c[i].key => j = i
  BY DEF IsCache, Entry
<1>3. CASE Cached(c, k)
  <2>1. At(c, k) \in DOMAIN c /\ c[At(c, k)].key = k
    BY <1>3, AtIs
  <2>2. /\ IsCache(Front(e, Without(c, At(c, k))), keys, values)
        /\ Pairs(Front(e, Without(c, At(c, k)))) \subseteq Pairs(c) \cup {<<k, v>>}
    BY <1>1, <2>1, WithoutKeeps, FrontKeeps
  <2> QED
    BY <1>3, <2>2 DEF Put, e
<1>4. CASE ~Cached(c, k) /\ Len(c) >= Capacity
  <2>1. Len(c) \in DOMAIN c
    BY <1>2, <1>4, CapacityAssumption
  <2>2. \A j \in DOMAIN Without(c, Len(c)) : Without(c, Len(c))[j].key # k
    BY <1>4, <2>1, WithoutKeeps DEF Cached
  <2>3. /\ IsCache(Front(e, Without(c, Len(c))), keys, values)
        /\ Pairs(Front(e, Without(c, Len(c)))) \subseteq Pairs(c) \cup {<<k, v>>}
    BY <1>1, <2>1, <2>2, WithoutKeeps, FrontKeeps
  <2> QED
    BY <1>4, <2>3 DEF Put, e
<1>5. CASE ~Cached(c, k) /\ ~(Len(c) >= Capacity)
  <2>1. Len(c) < Capacity /\ \A i \in DOMAIN c : c[i].key # e.key
    BY <1>1, <1>2, <1>5, CapacityAssumption DEF Cached
  <2>2. /\ IsCache(Front(e, c), keys, values)
        /\ Pairs(Front(e, c)) \subseteq Pairs(c) \cup {<<k, v>>}
    BY <1>1, <1>2, <2>1, FrontKeeps
  <2> QED
    BY <1>5, <2>2 DEF Put, e
<1> QED
  BY <1>3, <1>4, <1>5

\* A set of natural numbers that is not empty has a least member: induction by the least
\* counterexample.
LEMMA LeastOf ==
  ASSUME NEW S, S \subseteq Nat, S # {}
  PROVE  \E n \in S : \A m \in S : ~(m < n)
<1> DEFINE R == {ss \in Nat \X Nat : ss[1] < ss[2]}
<1>1. IsWellFoundedOn(R, Nat)
  BY NatLessThanWellFounded DEF OpToRel
<1>2. \A m, n \in S : <<m, n>> \in R <=> m < n
  OBVIOUS
<1> HIDE DEF R
<1>3. PICK n \in S : \A m \in S : <<m, n>> \notin R
  BY <1>1, WFMin
<1> QED
  BY <1>2, <1>3

\* The caches after 0, 1, ... n of the Puts of s, which begin with c.
After(f, n, c, s, key, value) ==
  f = [i \in 0 .. n |-> IF i = 0 THEN c ELSE Put(f[i - 1], s[i][key], s[i][value])]

\* There are such caches: if they were missing for some n, then for a least one, and those before
\* it could be extended.
LEMMA AfterExists ==
  ASSUME NEW c, NEW s, NEW key, NEW value, NEW n \in Nat
  PROVE  \E f : After(f, n, c, s, key, value)
<1> DEFINE Missed == {m \in Nat : \A f : ~After(f, m, c, s, key, value)}
<1>1. SUFFICES ASSUME Missed # {} PROVE FALSE
  OBVIOUS
<1>2. PICK m \in Missed : \A k \in Missed : ~(k < m)
  BY <1>1, LeastOf
<1>3. CASE m = 0
  <2> DEFINE f == [i \in 0 .. 0 |-> c]
  <2>1. After(f, 0, c, s, key, value)
    BY DEF After
  <2> QED
    BY <1>3, <2>1
<1>4. CASE m # 0
  <2>1. m - 1 \in Nat /\ m - 1 < m
    BY <1>4
  <2>2. PICK f : After(f, m - 1, c, s, key, value)
    BY <1>2, <2>1
  <2>3. f[0] = c /\ \A i \in 1 .. m - 1 : f[i] = Put(f[i - 1], s[i][key], s[i][value])
    BY <2>1, <2>2 DEF After
  <2> DEFINE g == [i \in 0 .. m |-> IF i = m THEN Put(f[m - 1], s[m][key], s[m][value]) ELSE f[i]]
  <2>4. \A i \in 0 .. m : g[i] = IF i = 0 THEN c ELSE Put(g[i - 1], s[i][key], s[i][value])
    <3> TAKE i \in 0 .. m
    <3>1. CASE i = 0
      BY <1>4, <2>3, <3>1
    <3>2. CASE i = m
      BY <1>4, <3>2
    <3>3. CASE i \in 1 .. m - 1
      BY <2>3, <3>3
    <3> QED
      BY <3>1, <3>2, <3>3
  <2>5. g = [i \in 0 .. m |-> IF i = 0 THEN c ELSE Put(g[i - 1], s[i][key], s[i][value])]
    BY <2>4
  <2> HIDE DEF g
  <2>6. After(g, m, c, s, key, value)
    BY <2>5 DEF After
  <2> QED
    BY <2>6
<1> QED
  BY <1>3, <1>4

\* Puts in turn make the last of such caches.
LEMMA PutEachIs ==
  ASSUME NEW c, NEW s, NEW key, NEW value, Len(s) \in Nat
  PROVE  \E f : After(f, Len(s), c, s, key, value) /\ PutEach(c, s, key, value) = f[Len(s)]
<1> DEFINE f == CHOOSE g : g = [i \in 0 .. Len(s) |->
                    IF i = 0 THEN c ELSE Put(g[i - 1], s[i][key], s[i][value])]
<1>1. After(f, Len(s), c, s, key, value)
  BY AfterExists DEF After
<1>2. PutEach(c, s, key, value) = f[Len(s)]
  BY DEF PutEach
<1> QED
  BY <1>1, <1>2

\* They add what they are given and nothing else.
LEMMA PutEachKeeps ==
  ASSUME NEW keys, NEW values, NEW c, IsCache(c, keys, values), NEW s, Len(s) \in Nat,
         NEW key, NEW value,
         \A i \in 1 .. Len(s) : s[i][key] \in keys /\ s[i][value] \in values
  PROVE  /\ IsCache(PutEach(c, s, key, value), keys, values)
         /\ Pairs(PutEach(c, s, key, value))
              \subseteq Pairs(c) \cup {<<s[i][key], s[i][value]>> : i \in 1 .. Len(s)}
<1> DEFINE new == {<<s[i][key], s[i][value]>> : i \in 1 .. Len(s)}
           Kept(d) == IsCache(d, keys, values) /\ Pairs(d) \subseteq Pairs(c) \cup new
<1>1. PICK f : After(f, Len(s), c, s, key, value) /\ PutEach(c, s, key, value) = f[Len(s)]
  BY PutEachIs
<1>2. f[0] = c /\ \A i \in 1 .. Len(s) : f[i] = Put(f[i - 1], s[i][key], s[i][value])
  BY <1>1 DEF After
<1>0. \A i \in 1 .. Len(s) : <<s[i][key], s[i][value]>> \in new
  OBVIOUS
<1> HIDE DEF new, Kept
<1>3. ASSUME NEW i \in 1 .. Len(s), Kept(f[i - 1]) PROVE Kept(f[i])
  <2>1. f[i] = Put(f[i - 1], s[i][key], s[i][value]) /\ s[i][key] \in keys /\ s[i][value] \in values
    BY <1>2
  <2>2. <<s[i][key], s[i][value]>> \in new
    BY <1>0
  <2>3. IsCache(f[i - 1], keys, values) /\ Pairs(f[i - 1]) \subseteq Pairs(c) \cup new
    BY <1>3 DEF Kept
  <2>4. IsCache(f[i], keys, values) /\ Pairs(f[i]) \subseteq Pairs(f[i - 1]) \cup {<<s[i][key], s[i][value]>>}
    BY <2>1, <2>3, PutKeeps
  <2> QED
    BY <2>2, <2>3, <2>4 DEF Kept
<1>4. Kept(c)
  BY DEF Kept
<1> DEFINE Bad == {i \in 0 .. Len(s) : ~Kept(f[i])}
<1>5. Bad = {}
  <2> SUFFICES ASSUME Bad # {} PROVE FALSE
    OBVIOUS
  <2>0. Bad \subseteq Nat
    OBVIOUS
  <2> HIDE DEF Bad
  <2>1. PICK i \in Bad : \A j \in Bad : ~(j < i)
    BY <2>0, LeastOf
  <2> USE DEF Bad
  <2>2. i # 0
    BY <1>2, <1>4
  <2>3. i \in 1 .. Len(s) /\ i - 1 \in 0 .. Len(s) /\ i - 1 < i
    BY <2>2
  <2>4. Kept(f[i - 1])
    BY <2>1, <2>3
  <2> QED
    BY <1>3, <2>3, <2>4
<1>6. Kept(f[Len(s)])
  BY <1>5
<1> QED
  BY <1>1, <1>6 DEF Kept, new

\* A sequence of all elements of a finite set, each once.
LEMMA OrdersAre ==
  ASSUME NEW S, IsFiniteSet(S), NEW q \in Orders(S)
  PROVE  /\ q \in Seq(S)
         /\ S = {q[i] : i \in DOMAIN q}
<1> DEFINE n == Cardinality(S)
<1>1. n \in Nat /\ IsFiniteSet(1 .. n) /\ Cardinality(1 .. n) = n
  <2>1. n \in Nat
    BY FS_CardinalityType
  <2>2. IsFiniteSet(1 .. n) /\ Cardinality(1 .. n) = IF 1 > n THEN 0 ELSE n - 1 + 1
    BY <2>1, FS_Interval
  <2> QED
    BY <2>1, <2>2
<1>2. q \in [1 .. n -> S] /\ \A i, j \in DOMAIN q : i # j => q[i] # q[j]
  BY DEF Orders
<1> HIDE DEF n
<1>3. q \in Injection(1 .. n, S)
  BY <1>2 DEF Injection, IsInjective
<1>4. q \in Surjection(1 .. n, S)
  BY <1>1, <1>3, FS_Injection DEF n
<1> QED
  BY <1>1, <1>2, <1>4 DEF Surjection

-----------------------------------------------------------------------------
(* What every step keeps.                                                  *)

\* The others' requests stand still.
OneStep(t) == \A s \in Threads : s # t => pc'[s] = pc[s] /\ loc'[s] = loc[s]

\* Histories grow. Rows stay, but for the name of a renamed one.
Histories ==
  /\ legacy' = legacy
  /\ ever \subseteq ever' /\ unsaved \subseteq unsaved' /\ renamed \subseteq renamed'
  /\ drawn \subseteq drawn'
  /\ renamed' = renamed \/ Closed'
RowsGrow ==
  /\ \A i \in DOMAIN rows : i \in DOMAIN rows' /\ (\/ rows'[i] = rows[i]
                                                   \/ {rows[i].name, rows'[i].name} \subseteq renamed')
  /\ \A i \in DOMAIN rows' : rows'[i] \in ever'

\* A batch's new mappings stay with it, or are inserted, or are noted as unsaved.
Settles(t) ==
  \A m \in loc[t].new : \/ m \in loc'[t].new \cup unsaved'
                        \/ m \in ever' /\ \E i \in DOMAIN rows' : rows'[i] = m

Grows ==
  /\ Histories /\ RowsGrow
  /\ Known \subseteq Known'
  /\ \A m \in Held : m \in Held' \/ m.name \in renamed'

\* Caches repeat what they said, or what is held now; requests and answers also in another spelling.
Sayable == Spoken \cup Held' \cup Like(Spoken \cup Held')

CachesSay ==
  /\ byName' \in [Nodes -> Seq([key : Names, value : Uuids])]
  /\ byUuid' \in [Nodes -> Seq([key : Uuids, value : Names])]
  /\ \A x \in Nodes :
       /\ IsCache(byName[x], Names, Uuids)' /\ IsCache(byUuid[x], Uuids, Names)'
       /\ NameEntries(x)' \subseteq NameEntries(x) \cup Held'
       /\ UuidEntries(x)' \subseteq UuidEntries(x) \cup Held'
Says == CachesSay /\ Spoken' \subseteq Sayable

LEMMA SayableHas == Spoken \subseteq Sayable /\ Held' \subseteq Sayable
BY DEF Sayable

\* A mapping is like itself, and like what a mapping like it is like.
LEMMA LikeIs ==
  /\ \A S \in SUBSET Mapping : S \subseteq Like(S)
  /\ \A S, T : S \subseteq Like(T) => Like(S) \subseteq Like(T)
  /\ \A S, T : S \subseteq T => Like(S) \subseteq Like(T)
  /\ \A S : Like(S) \subseteq Mapping
<1>1. ASSUME NEW S, NEW T, S \subseteq Like(T), NEW m \in Like(S) PROVE m \in Like(T)
  <2>1. PICK k \in S : Alike(k.name, m.name) /\ k.uuid = m.uuid
    BY DEF Like
  <2>2. PICK j \in T : Alike(j.name, k.name) /\ j.uuid = k.uuid
    BY <1>1 DEF Like
  <2> QED
    BY <2>1, <2>2 DEF Like, Alike
<1>2. ASSUME NEW S \in SUBSET Mapping PROVE S \subseteq Like(S)
  BY DEF Like, Alike
<1>3. ASSUME NEW S, NEW T, S \subseteq T PROVE Like(S) \subseteq Like(T)
  BY <1>3 DEF Like
<1>4. ASSUME NEW S PROVE Like(S) \subseteq Mapping
  BY DEF Like
<1> QED
  BY <1>1, <1>2, <1>3, <1>4

\* A name and UUID of which something alike is said or held.
LEMMA LikeSayable ==
  ASSUME NEW n \in Names, NEW m \in Spoken \cup Held', Alike(m.name, n), m.uuid \in Uuids
  PROVE  Map(n, m.uuid) \in Sayable
<1>1. Map(n, m.uuid) \in Mapping /\ Map(n, m.uuid).name = n /\ Map(n, m.uuid).uuid = m.uuid
  BY DEF Map, Mapping
<1>2. Map(n, m.uuid) \in Like(Spoken \cup Held')
  BY <1>1 DEF Like
<1> QED
  BY <1>2 DEF Sayable

LEMMA GrowsOne ==
  ASSUME NEW t \in Threads, OneStep(t), Settles(t), RowsGrow, Histories
  PROVE  Grows
<1>1. ASSUME NEW s \in Threads, NEW m \in loc[s].new
      PROVE  m \in loc'[s].new \cup unsaved' \/ (m \in ever' /\ \E i \in DOMAIN rows' : rows'[i] = m)
  BY <1>1 DEF OneStep, Settles
<1>2. Known \subseteq Known'
  BY <1>1 DEF Known, Batched, Histories
<1>3. \A m \in Held : m \in Held' \/ m.name \in renamed'
  BY <1>1 DEF Held, Batched, Histories, RowsGrow
<1> QED
  BY <1>2, <1>3 DEF Grows

\* Then what is said stays true.
LEMMA TruthfulKept ==
  ASSUME Truthful, Grows, Says, Held' \subseteq Mapping
  PROVE  Truthful'
<1>1. Held' \subseteq Known'
  BY DEF Held, Known, Grows, RowsGrow
<1>2. legacy' \cup {rows'[i] : i \in DOMAIN rows'} \subseteq ever'
  BY DEF Grows, RowsGrow, Histories, Truthful
<1>3. Closed'
  BY DEF Grows, Histories, Truthful, Closed
<1>4. Held' \subseteq Like(Known') /\ Held' \subseteq Like(Held')
  BY <1>1, LikeIs
<1>5. ASSUME NEW m \in Spoken \cup Held'
      PROVE  m \in Like(Known') /\ (m.name \in renamed' \/ m \in Like(Held'))
  <2>1. CASE m \in Held'
    BY <1>4, <2>1
  <2>2. CASE m \in Spoken
    <3>1. m \in Like(Known) /\ m \in Mapping /\ m.name \in Names
      BY <2>2, LikeIs DEF Truthful, Mapping
    <3>2. m \in Like(Known')
      BY <3>1, LikeIs DEF Grows
    <3>3. ASSUME m.name \notin renamed' PROVE m \in Like(Held')
      <4>1. m \in Like(Held)
        BY <2>2, <3>3 DEF Truthful, Grows, Histories
      <4>2. PICK k \in Held : Alike(k.name, m.name) /\ k.uuid = m.uuid
        BY <4>1 DEF Like
      <4>3. k.name \notin renamed'
        BY <1>3, <3>1, <3>3, <4>2 DEF Closed
      <4>4. k \in Held'
        BY <4>3 DEF Grows
      <4> QED
        BY <3>1, <4>2, <4>4 DEF Like
    <3> QED
      BY <3>2, <3>3
  <2> QED
    BY <2>1, <2>2
<1>6. ASSUME NEW m \in Spoken'
      PROVE  m \in Like(Known') /\ (m.name \in renamed' \/ m \in Like(Held'))
  <2>1. CASE m \in Spoken \cup Held'
    BY <1>5, <2>1
  <2>2. CASE m \in Like(Spoken \cup Held')
    <3>1. PICK k \in Spoken \cup Held' : Alike(k.name, m.name) /\ k.uuid = m.uuid
      BY <2>2 DEF Like
    <3>2. m \in Mapping /\ m.name \in Names
      BY <2>2, LikeIs DEF Mapping
    <3>3. m \in Like(Known')
      BY <1>5, <2>2, LikeIs
    <3>4. CASE k.name \in renamed'
      BY <1>3, <3>1, <3>2, <3>3, <3>4 DEF Closed
    <3>5. CASE k \in Like(Held')
      <4>1. PICK j \in Held' : Alike(j.name, k.name) /\ j.uuid = k.uuid
        BY <3>5 DEF Like
      <4>2. m \in Like(Held')
        BY <3>1, <3>2, <4>1 DEF Like, Alike
      <4> QED
        BY <3>3, <4>2
    <3> QED
      BY <1>5, <3>4, <3>5
  <2> QED
    BY <1>6, <2>1, <2>2 DEF Says, Sayable
<1>7. ASSUME NEW x \in Nodes PROVE (NameEntries(x) \cup UuidEntries(x))' \subseteq Known'
  BY <1>1 DEF Says, CachesSay, Truthful, Grows
<1> QED
  BY <1>2, <1>3, <1>6, <1>7 DEF Truthful

\* A request that stands still keeps what it knows.
LEMMA OthersKeep ==
  ASSUME NEW s \in Threads, LocalOf(s), Grows, pc'[s] = pc[s], loc'[s] = loc[s]
  PROVE  LocalOf(s)'
<1>1. loc[s].id \in DOMAIN rows /\ rows[loc[s].id].name \in renamed =>
        loc[s].id \in DOMAIN rows' /\ rows'[loc[s].id].name \in renamed'
  BY DEF Grows, RowsGrow, Histories
<1>2. Known \subseteq Known' /\ renamed \subseteq renamed'
  BY DEF Grows, Histories
<1> QED
  BY <1>1, <1>2 DEF LocalOf

\* No new UUID: derivations and drawings stay.
LEMMA NoneFresh ==
  ASSUME Derived, Apart, Grows, drawn' = drawn, Known' \cup Pending' \subseteq Known \cup Pending
  PROVE  Derived' /\ Apart'
<1>1. /\ legacy' = legacy /\ LegacyUuids' = LegacyUuids
      /\ ever \subseteq ever' /\ renamed \subseteq renamed'
  BY DEF Grows, Histories, LegacyUuids
<1> HIDE DEF Known, Pending
<1>2. Derived'
  BY <1>1 DEF Derived
<1>3. Apart'
  BY <1>1 DEF Apart
<1> QED
  BY <1>2, <1>3

\* Mappings are of names and UUIDs.
LEMMA KnownTyped ==
  ASSUME TypeOK, \A t \in Threads : LocalOf(t)
  PROVE  Known \cup Pending \subseteq Mapping /\ Held \subseteq Mapping
<1>1. \A t \in Threads : loc[t].new \subseteq Mapping
  BY DEF TypeOK, Local
<1>2. Known \subseteq Mapping
  BY <1>1 DEF Known, Batched, TypeOK
<1>3. \A i \in DOMAIN rows : rows[i] \in Mapping
  BY DEF TypeOK
<1>4. Held \subseteq Mapping
  BY <1>1, <1>3 DEF Held, Batched, TypeOK
<1>5. Pending \subseteq Mapping
  <2>1. ASSUME NEW t \in Threads, pc[t] = "create" PROVE Map(loc[t].asked, loc[t].uuid) \in Mapping
    BY <2>1 DEF LocalOf, Map, Mapping
  <2> QED
    BY <2>1 DEF Pending
<1> QED
  BY <1>2, <1>4, <1>5

\* UUIDs that are generated in a step are those of their names, or nobody has them.
LEMMA FreshOnes ==
  ASSUME TypeOK, \A t \in Threads : LocalOf(t), Truthful, Derived, Apart, Grows,
         NEW x \in Nodes, NEW ns \in SUBSET Names, NEW gen, Generated(x, ns, gen),
         Known' \cup Pending' \subseteq Known \cup Pending \cup {Map(n, gen[n]) : n \in ns}
  PROVE  Derived' /\ Apart'
<1> DEFINE Fresh == {Map(n, gen[n]) : n \in ns}
           V == {V3[n] : n \in Names}
<1>1. /\ legacy' = legacy /\ LegacyUuids' = LegacyUuids
      /\ ever \subseteq ever' /\ renamed \subseteq renamed'
      /\ drawn \subseteq drawn'
  BY DEF Grows, Histories, LegacyUuids
<1>2. \A m \in Fresh : m.name \in ns /\ m.uuid = gen[m.name] /\ m = Map(m.name, gen[m.name])
  BY DEF Map
<1> HIDE DEF Fresh
<1>3. \A n \in Names : V3[n] \in V
  OBVIOUS
<1>4. Known \cup Pending \subseteq Mapping
  BY KnownTyped
<1>5. \A m \in Known \cup Pending : m.name \in Names
  BY <1>4 DEF Mapping
<1>6. Known' \cup Pending' \subseteq Known \cup Pending \cup Fresh
  BY DEF Fresh
<1>7. /\ \A m \in legacy : m.uuid \in LegacyUuids
      /\ renamed \subseteq Names
  BY DEF LegacyUuids, TypeOK
<1>8. drawn \cap (LegacyUuids \cup V) = {}
  BY DEF Apart
<1>9. ASSUME NEW m \in Known \cup Pending
      PROVE  \/ m.uuid = V3[m.name] \/ m.uuid \in drawn \/ m.uuid \in LegacyUuids
             \/ /\ m \in ever /\ m.name \in renamed
                /\ \E o \in renamed : V3[o] = m.uuid /\ Map(o, m.uuid) \in ever
  BY <1>7 DEF Derived
<1> HIDE DEF Known, Pending, V
<1>10. CASE algorithm[x] # "v4"
  <2>1. \A m \in Fresh : m.uuid = V3[m.name] /\ m.name \in Names
    BY <1>2, <1>10 DEF Generated
  <2>2. drawn' = drawn
    BY <1>10 DEF Generated
  <2>3. Derived'
    BY <1>1, <1>6, <2>1 DEF Derived
  <2>4. ASSUME NEW m \in Fresh, NEW k \in Known \cup Pending \cup Fresh, m.uuid = k.uuid, m.name # k.name
        PROVE  \/ m.uuid \in LegacyUuids
               \/ {m, k} \subseteq ever /\ {m.name, k.name} \subseteq renamed
    <3>1. k.name \in Names
      BY <1>5, <2>1
    <3>2. k.uuid # V3[k.name]
      BY <2>1, <2>4, <3>1, V3Assumption
    <3>3. k \notin Fresh /\ k.uuid \notin drawn
      BY <1>3, <1>8, <2>1, <2>4, <3>2
    <3>4. CASE k.uuid \in LegacyUuids
      BY <2>4, <3>4
    <3>5. ASSUME NEW o \in renamed, V3[o] = k.uuid, Map(o, k.uuid) \in ever, k \in ever,
                 k.name \in renamed
          PROVE  {m, k} \subseteq ever /\ {m.name, k.name} \subseteq renamed
      <4>1. o = m.name
        BY <1>7, <2>1, <2>4, <3>5, V3Assumption
      <4>2. Map(o, k.uuid) = m
        BY <1>2, <2>4, <4>1
      <4> QED
        BY <3>5, <4>1, <4>2
    <3> QED
      BY <1>9, <3>2, <3>3, <3>4, <3>5
  <2>5. ASSUME NEW m \in Known' \cup Pending', NEW k \in Known' \cup Pending',
               m.uuid = k.uuid, m.name # k.name
        PROVE  \/ m.uuid \in LegacyUuids
               \/ {m, k} \subseteq ever /\ {m.name, k.name} \subseteq renamed
    <3>1. CASE m \in Fresh \/ k \in Fresh
      BY <1>6, <2>4, <2>5, <3>1
    <3>2. CASE m \in Known \cup Pending /\ k \in Known \cup Pending
      BY <2>5, <3>2 DEF Apart
    <3> QED
      BY <1>6, <2>5, <3>1, <3>2
  <2>6. Apart'
    <3>1. drawn' \cap (LegacyUuids' \cup {V3[n] : n \in Names}) = {}
      BY <1>1, <1>8, <2>2 DEF V
    <3>2. ASSUME NEW m \in Known' \cup Pending', NEW k \in Known' \cup Pending',
                 m.uuid = k.uuid, m.name # k.name
          PROVE  \/ m.uuid \in LegacyUuids'
                 \/ {m, k} \subseteq ever' /\ {m.name, k.name} \subseteq renamed'
      BY <1>1, <2>5, <3>2
    <3> QED
      BY <3>1, <3>2 DEF Apart
  <2> QED
    BY <2>3, <2>6
<1>11. CASE algorithm[x] = "v4"
  <2>1. \A m \in Fresh : m.uuid \notin drawn /\ m.uuid \in drawn' /\ m.uuid \notin LegacyUuids \cup V
    BY <1>2, <1>11 DEF Generated, Taken, V
  <2>2. \A m, k \in Fresh : m.uuid = k.uuid => m.name = k.name
    BY <1>2, <1>11 DEF Generated
  <2>3. drawn' \cap (LegacyUuids \cup V) = {}
    BY <1>8, <1>11 DEF Generated, Taken, V
  <2>4. \A m \in Known \cup Pending : m.uuid \in drawn \cup LegacyUuids \cup V
    BY <1>3, <1>5, <1>7, <1>9
  <2>5. ASSUME NEW m \in Known' \cup Pending', NEW k \in Known' \cup Pending',
               m.uuid = k.uuid, m.name # k.name
        PROVE  \/ m.uuid \in LegacyUuids
               \/ {m, k} \subseteq ever /\ {m.name, k.name} \subseteq renamed
    <3>1. m \in Known \cup Pending /\ k \in Known \cup Pending
      BY <1>6, <2>1, <2>2, <2>4, <2>5
    <3> QED
      BY <2>5, <3>1 DEF Apart
  <2>6. Apart'
    <3>1. drawn' \cap (LegacyUuids' \cup {V3[n] : n \in Names}) = {}
      BY <1>1, <2>3 DEF V
    <3>2. ASSUME NEW m \in Known' \cup Pending', NEW k \in Known' \cup Pending',
                 m.uuid = k.uuid, m.name # k.name
          PROVE  \/ m.uuid \in LegacyUuids'
                 \/ {m, k} \subseteq ever' /\ {m.name, k.name} \subseteq renamed'
      BY <1>1, <2>5, <3>2
    <3> QED
      BY <3>1, <3>2 DEF Apart
  <2>7. Derived'
    <3>1. ASSUME NEW m \in Known \cup Pending
          PROVE  \/ m.uuid = V3[m.name] \/ m.uuid \in drawn' \/ m \in legacy'
                 \/ /\ m \in ever' /\ m.name \in renamed'
                    /\ \/ m.uuid \in LegacyUuids'
                       \/ \E o \in renamed' : V3[o] = m.uuid /\ Map(o, m.uuid) \in ever'
      BY <1>1 DEF Derived
    <3> QED
      BY <1>6, <2>1, <3>1 DEF Derived
  <2> QED
    BY <2>6, <2>7
<1> QED
  BY <1>10, <1>11

\* The entries of a cache are its pairs, read as mappings.
LEMMA MapsOfPairs ==
  ASSUME NEW c
  PROVE  /\ {Map(c[i].key, c[i].value) : i \in DOMAIN c} = {Map(p[1], p[2]) : p \in Pairs(c)}
         /\ {Map(c[i].value, c[i].key) : i \in DOMAIN c} = {Map(p[2], p[1]) : p \in Pairs(c)}
<1>1. ASSUME NEW i \in DOMAIN c
      PROVE  \E p \in Pairs(c) : p[1] = c[i].key /\ p[2] = c[i].value
  <2>1. <<c[i].key, c[i].value>> \in Pairs(c)
    BY DEF Pairs
  <2>2. <<c[i].key, c[i].value>>[1] = c[i].key /\ <<c[i].key, c[i].value>>[2] = c[i].value
    OBVIOUS
  <2> QED
    BY <2>1, <2>2
<1>2. ASSUME NEW p \in Pairs(c)
      PROVE  \E i \in DOMAIN c : p[1] = c[i].key /\ p[2] = c[i].value
  <2>1. PICK i \in DOMAIN c : p = <<c[i].key, c[i].value>>
    BY DEF Pairs
  <2> QED
    BY <2>1
<1> QED
  BY <1>1, <1>2

LEMMA EntriesAre ==
  /\ \A x : NameEntries(x) = {Map(p[1], p[2]) : p \in Pairs(byName[x])}
  /\ \A x : UuidEntries(x) = {Map(p[2], p[1]) : p \in Pairs(byUuid[x])}
BY MapsOfPairs DEF NameEntries, UuidEntries

LEMMA EntriesNext ==
  /\ \A x : NameEntries(x)' = {Map(p[1], p[2]) : p \in Pairs(byName'[x])}
  /\ \A x : UuidEntries(x)' = {Map(p[2], p[1]) : p \in Pairs(byUuid'[x])}
BY MapsOfPairs DEF NameEntries, UuidEntries

\* One node's caches take other values, of which every entry is an old one or a mapping held now.
LEMMA CachesChange ==
  ASSUME TypeOK, NEW x \in Nodes, NEW names, NEW uuids,
         byName' = [byName EXCEPT ![x] = names], byUuid' = [byUuid EXCEPT ![x] = uuids],
         IsCache(names, Names, Uuids), IsCache(uuids, Uuids, Names),
         \A p \in Pairs(names) : p \in Pairs(byName[x]) \/ Map(p[1], p[2]) \in Held',
         \A p \in Pairs(uuids) : p \in Pairs(byUuid[x]) \/ Map(p[2], p[1]) \in Held'
  PROVE  CachesSay
<1>1. names \in Seq([key : Names, value : Uuids]) /\ uuids \in Seq([key : Uuids, value : Names])
  BY DEF IsCache
<1>2. /\ byName' \in [Nodes -> Seq([key : Names, value : Uuids])]
      /\ byUuid' \in [Nodes -> Seq([key : Uuids, value : Names])]
  BY <1>1 DEF TypeOK
<1>3. ASSUME NEW y \in Nodes
      PROVE  /\ byName'[y] = IF y = x THEN names ELSE byName[y]
             /\ byUuid'[y] = IF y = x THEN uuids ELSE byUuid[y]
  BY DEF TypeOK
<1>4. ASSUME NEW y \in Nodes
      PROVE  IsCache(byName'[y], Names, Uuids) /\ IsCache(byUuid'[y], Uuids, Names)
  BY <1>3 DEF TypeOK
<1>5. ASSUME NEW y \in Nodes
      PROVE  /\ NameEntries(y)' \subseteq NameEntries(y) \cup Held'
             /\ UuidEntries(y)' \subseteq UuidEntries(y) \cup Held'
  <2>1. /\ \A p \in Pairs(byName'[y]) : p \in Pairs(byName[y]) \/ Map(p[1], p[2]) \in Held'
        /\ \A p \in Pairs(byUuid'[y]) : p \in Pairs(byUuid[y]) \/ Map(p[2], p[1]) \in Held'
    BY <1>3
  <2> QED
    BY <2>1, EntriesAre, EntriesNext
<1>6. ASSUME NEW y \in Nodes
      PROVE  IsCache(byName[y], Names, Uuids)' /\ IsCache(byUuid[y], Uuids, Names)'
  BY <1>4 DEF IsCache
<1> QED
  BY <1>2, <1>5, <1>6 DEF CachesSay

LEMMA CachesStay ==
  ASSUME TypeOK, UNCHANGED caches
  PROVE  CachesSay
<1>1. byName' = byName /\ byUuid' = byUuid
  BY DEF caches
<1>2. \A x \in Nodes : NameEntries(x)' = NameEntries(x) /\ UuidEntries(x)' = UuidEntries(x)
  BY <1>1, EntriesAre, EntriesNext
<1>3. ASSUME NEW y \in Nodes
      PROVE  IsCache(byName[y], Names, Uuids)' /\ IsCache(byUuid[y], Uuids, Names)'
  BY <1>1 DEF IsCache, TypeOK
<1> QED
  BY <1>1, <1>2, <1>3 DEF CachesSay, TypeOK

LEMMA NameGetSays ==
  ASSUME TypeOK, NEW x \in Nodes, NEW n, Cached(byName[x], n),
         byName' = [byName EXCEPT ![x] = Get(byName[x], n)], byUuid' = byUuid
  PROVE  CachesSay
<1>1. byUuid' = [byUuid EXCEPT ![x] = byUuid[x]]
  BY DEF TypeOK
<1>2. /\ IsCache(byName[x], Names, Uuids) /\ IsCache(byUuid[x], Uuids, Names)
      /\ IsCache(Get(byName[x], n), Names, Uuids) /\ Pairs(Get(byName[x], n)) \subseteq Pairs(byName[x])
  BY GetKeeps DEF TypeOK
<1> QED
  BY <1>1, <1>2, CachesChange

LEMMA UuidGetSays ==
  ASSUME TypeOK, NEW x \in Nodes, NEW u, Cached(byUuid[x], u),
         byUuid' = [byUuid EXCEPT ![x] = Get(byUuid[x], u)], byName' = byName
  PROVE  CachesSay
<1>1. byName' = [byName EXCEPT ![x] = byName[x]]
  BY DEF TypeOK
<1>2. /\ IsCache(byName[x], Names, Uuids) /\ IsCache(byUuid[x], Uuids, Names)
      /\ IsCache(Get(byUuid[x], u), Uuids, Names) /\ Pairs(Get(byUuid[x], u)) \subseteq Pairs(byUuid[x])
  BY GetKeeps DEF TypeOK
<1> QED
  BY <1>1, <1>2, CachesChange

LEMMA PutSays ==
  ASSUME TypeOK, NEW x \in Nodes, NEW m \in Mapping, m \in Held', PutMapping(x, m)
  PROVE  CachesSay
<1>1. m.name \in Names /\ m.uuid \in Uuids /\ Map(m.name, m.uuid) = m
  BY DEF Mapping, Map
<1>2. IsCache(byName[x], Names, Uuids) /\ IsCache(byUuid[x], Uuids, Names)
  BY DEF TypeOK
<1> DEFINE names == Put(byName[x], m.name, m.uuid)
           uuids == Put(byUuid[x], m.uuid, m.name)
<1>3. byName' = [byName EXCEPT ![x] = names] /\ byUuid' = [byUuid EXCEPT ![x] = uuids]
  BY DEF PutMapping
<1>4. /\ IsCache(names, Names, Uuids) /\ Pairs(names) \subseteq Pairs(byName[x]) \cup {<<m.name, m.uuid>>}
      /\ IsCache(uuids, Uuids, Names) /\ Pairs(uuids) \subseteq Pairs(byUuid[x]) \cup {<<m.uuid, m.name>>}
  BY <1>1, <1>2, PutKeeps
<1> HIDE DEF names, uuids
<1>5. /\ \A p \in Pairs(names) : p \in Pairs(byName[x]) \/ Map(p[1], p[2]) \in Held'
      /\ \A p \in Pairs(uuids) : p \in Pairs(byUuid[x]) \/ Map(p[2], p[1]) \in Held'
  BY <1>1, <1>4
<1> QED
  BY <1>3, <1>4, <1>5, CachesChange

\* The caches after Puts of mappings of a set, which may begin empty.
LEMMA PutsHeld ==
  ASSUME NEW names, NEW uuids, IsCache(names, Names, Uuids), IsCache(uuids, Uuids, Names),
         NEW s \in Seq(Mapping), NEW H, \A i \in DOMAIN s : s[i] \in H
  PROVE  /\ IsCache(PutEach(names, s, "name", "uuid"), Names, Uuids)
         /\ IsCache(PutEach(uuids, s, "uuid", "name"), Uuids, Names)
         /\ \A p \in Pairs(PutEach(names, s, "name", "uuid")) :
              p \in Pairs(names) \/ Map(p[1], p[2]) \in H
         /\ \A p \in Pairs(PutEach(uuids, s, "uuid", "name")) :
              p \in Pairs(uuids) \/ Map(p[2], p[1]) \in H
<1>1. Len(s) \in Nat /\ DOMAIN s = 1 .. Len(s)
  OBVIOUS
<1>2. \A i \in 1 .. Len(s) : /\ s[i]["name"] \in Names /\ s[i]["uuid"] \in Uuids
                             /\ Map(s[i]["name"], s[i]["uuid"]) = s[i]
  <2> TAKE i \in 1 .. Len(s)
  <2>1. s[i] \in Mapping
    BY <1>1
  <2>2. s[i].name \in Names /\ s[i].uuid \in Uuids /\ Map(s[i].name, s[i].uuid) = s[i]
    BY <2>1 DEF Mapping, Map
  <2> QED
    BY <2>2
<1>3. /\ IsCache(PutEach(names, s, "name", "uuid"), Names, Uuids)
      /\ Pairs(PutEach(names, s, "name", "uuid"))
           \subseteq Pairs(names) \cup {<<s[i]["name"], s[i]["uuid"]>> : i \in 1 .. Len(s)}
  BY <1>1, <1>2, PutEachKeeps
<1>4. /\ IsCache(PutEach(uuids, s, "uuid", "name"), Uuids, Names)
      /\ Pairs(PutEach(uuids, s, "uuid", "name"))
           \subseteq Pairs(uuids) \cup {<<s[i]["uuid"], s[i]["name"]>> : i \in 1 .. Len(s)}
  BY <1>1, <1>2, PutEachKeeps
<1>5. ASSUME NEW p \in Pairs(PutEach(names, s, "name", "uuid")), p \notin Pairs(names)
      PROVE  Map(p[1], p[2]) \in H
  BY <1>1, <1>2, <1>3, <1>5
<1>6. ASSUME NEW p \in Pairs(PutEach(uuids, s, "uuid", "name")), p \notin Pairs(uuids)
      PROVE  Map(p[2], p[1]) \in H
  BY <1>1, <1>2, <1>4, <1>6
<1> QED
  BY <1>3, <1>4, <1>5, <1>6

LEMMA PutsSay ==
  ASSUME TypeOK, NEW x \in Nodes, NEW s \in Seq(Mapping), \A i \in DOMAIN s : s[i] \in Held',
         PutMappings(x, s)
  PROVE  CachesSay
<1>1. IsCache(byName[x], Names, Uuids) /\ IsCache(byUuid[x], Uuids, Names)
  BY DEF TypeOK
<1> DEFINE names == PutEach(byName[x], s, "name", "uuid")
           uuids == PutEach(byUuid[x], s, "uuid", "name")
<1>2. byName' = [byName EXCEPT ![x] = names] /\ byUuid' = [byUuid EXCEPT ![x] = uuids]
  BY DEF PutMappings
<1>3. /\ IsCache(names, Names, Uuids) /\ IsCache(uuids, Uuids, Names)
      /\ \A p \in Pairs(names) : p \in Pairs(byName[x]) \/ Map(p[1], p[2]) \in Held'
      /\ \A p \in Pairs(uuids) : p \in Pairs(byUuid[x]) \/ Map(p[2], p[1]) \in Held'
  BY <1>1, PutsHeld
<1> HIDE DEF names, uuids
<1> QED
  BY <1>2, <1>3, CachesChange

\* The types of all variables but the caches.
TypeOthers ==
  /\ algorithm \in [Nodes -> {"v3", "v4"}]
  /\ players \subseteq Names
  /\ rows \in Seq(Mapping)
  /\ pc \in [Threads -> {"idle", "get", "first", "create", "textures", "firstName", "answer",
                         "batch", "rename", "checkName", "saveName"}]
  /\ loc \in [Threads -> Local]
  /\ drawn \subseteq Uuids
  /\ budget \in [calls : Nat, edits : Nat, faults : Nat, restarts : Nat]
  /\ told \in [Names -> SUBSET Uuids]
  /\ shown \subseteq Names \X Names
  /\ legacy \subseteq Mapping /\ ever \subseteq Mapping /\ unsaved \subseteq Mapping
  /\ renamed \subseteq Names

LEMMA TypesApart == TypeOK => TypeOthers
BY DEF TypeOK, TypeOthers

LEMMA TypesNext == TypeOthers' /\ CachesSay => TypeOK'
BY DEF TypeOK, TypeOthers, CachesSay

LEMMA HeldTyped == TypeOthers' => Held' \subseteq Mapping
<1> SUFFICES ASSUME TypeOthers' PROVE Held' \subseteq Mapping
  OBVIOUS
<1>1. \A t \in Threads : loc'[t].new \subseteq Mapping
  BY DEF TypeOthers, Local
<1>2. \A i \in DOMAIN rows' : rows'[i] \in Mapping
  BY DEF TypeOthers
<1> QED
  BY <1>1, <1>2 DEF Held, Batched, TypeOthers

\* What request t takes for true after its step, and what was told, was said or is held.
Repeats(t) ==
  /\ loc'[t].found \subseteq Sayable
  /\ pc'[t] \in {"textures", "firstName", "answer"} =>
       Map(loc'[t].name, loc'[t].uuid) \in Sayable
  /\ \A m \in Mapping : m.uuid \in told'[m.name] => m \in Sayable

LEMMA SpokenIs ==
  ASSUME NEW m
  PROVE  m \in Spoken <=>
           \/ \E x \in Nodes : m \in NameEntries(x)
           \/ \E s \in Threads : m \in loc[s].found
           \/ \E s \in Threads : /\ pc[s] \in {"textures", "firstName", "answer"}
                                 /\ m = Map(loc[s].name, loc[s].uuid)
           \/ m \in Mapping /\ m.uuid \in told[m.name]
<1> DEFINE A == UNION {NameEntries(x) : x \in Nodes}
           B == UNION {loc[s].found : s \in Threads}
           C == {Map(loc[s].name, loc[s].uuid) : s \in Resolved}
           D == {k \in Mapping : k.uuid \in told[k.name]}
<1>1. Spoken = A \cup B \cup C \cup D
  BY DEF Spoken
<1>2. m \in A <=> \E x \in Nodes : m \in NameEntries(x)
  BY Zenon
<1>3. m \in B <=> \E s \in Threads : m \in loc[s].found
  BY Zenon
<1>4. m \in C <=> \E s \in Threads : /\ pc[s] \in {"textures", "firstName", "answer"}
                                    /\ m = Map(loc[s].name, loc[s].uuid)
  BY Zenon DEF Resolved
<1>5. m \in D <=> m \in Mapping /\ m.uuid \in told[m.name]
  BY Zenon
<1> HIDE DEF A, B, C, D
<1> QED
  BY <1>1, <1>2, <1>3, <1>4, <1>5

LEMMA SpokenNext ==
  ASSUME NEW m
  PROVE  m \in Spoken' <=>
           \/ \E x \in Nodes : m \in NameEntries(x)'
           \/ \E s \in Threads : m \in loc'[s].found
           \/ \E s \in Threads : /\ pc'[s] \in {"textures", "firstName", "answer"}
                                 /\ m = Map(loc'[s].name, loc'[s].uuid)
           \/ m \in Mapping /\ m.uuid \in told'[m.name]
<1> DEFINE A == UNION {NameEntries(x)' : x \in Nodes}
           B == UNION {loc'[s].found : s \in Threads}
           C == {Map(loc'[s].name, loc'[s].uuid) : s \in Resolved'}
           D == {k \in Mapping : k.uuid \in told'[k.name]}
<1>1. Spoken' = A \cup B \cup C \cup D
  BY DEF Spoken
<1>2. m \in A <=> \E x \in Nodes : m \in NameEntries(x)'
  BY Zenon
<1>3. m \in B <=> \E s \in Threads : m \in loc'[s].found
  BY Zenon
<1>4. m \in C <=> \E s \in Threads : /\ pc'[s] \in {"textures", "firstName", "answer"}
                                    /\ m = Map(loc'[s].name, loc'[s].uuid)
  BY Zenon DEF Resolved
<1>5. m \in D <=> m \in Mapping /\ m.uuid \in told'[m.name]
  BY Zenon
<1> HIDE DEF A, B, C, D
<1> QED
  BY <1>1, <1>2, <1>3, <1>4, <1>5

LEMMA SaysOne ==
  ASSUME NEW t \in Threads, OneStep(t), CachesSay, Repeats(t)
  PROVE  Says
<1>1. ASSUME NEW m \in Spoken' PROVE m \in Sayable
  <2>1. CASE \E x \in Nodes : m \in NameEntries(x)'
    BY <2>1, SpokenIs, SayableHas DEF CachesSay
  <2>2. CASE \E s \in Threads : m \in loc'[s].found
    BY <2>2, SpokenIs, SayableHas DEF OneStep, Repeats
  <2>3. CASE \E s \in Threads : /\ pc'[s] \in {"textures", "firstName", "answer"}
                                /\ m = Map(loc'[s].name, loc'[s].uuid)
    <3>1. PICK s \in Threads : /\ pc'[s] \in {"textures", "firstName", "answer"}
                               /\ m = Map(loc'[s].name, loc'[s].uuid)
      BY <2>3
    <3>2. CASE s = t
      BY <3>1, <3>2 DEF Repeats
    <3>3. CASE s # t
      BY <3>1, <3>3, SpokenIs, SayableHas DEF OneStep
    <3> QED
      BY <3>2, <3>3
  <2>4. CASE m \in Mapping /\ m.uuid \in told'[m.name]
    BY <2>4 DEF Repeats
  <2> QED
    BY <1>1, <2>1, <2>2, <2>3, <2>4, SpokenNext
<1> QED
  BY <1>1 DEF Says

\* A request's step keeps Provenance when it keeps these.
LEMMA Assemble ==
  ASSUME Provenance, NEW t \in Threads, OneStep(t), TypeOthers', LocalOf(t)', Grows,
         CachesSay, Repeats(t), Derived', Apart', TexturesOwn'
  PROVE  Provenance'
<1>1. Says
  BY SaysOne
<1>2. Truthful'
  BY <1>1, TruthfulKept, HeldTyped DEF Provenance
<1>3. ASSUME NEW s \in Threads PROVE LocalOf(s)'
  <2>1. CASE s = t
    BY <2>1
  <2>2. CASE s # t
    BY <2>2, OthersKeep DEF OneStep, Provenance
  <2> QED
    BY <2>1, <2>2
<1>4. TypeOK'
  BY TypesNext
<1> QED
  BY <1>2, <1>3, <1>4 DEF Provenance

LEMMA ShownStay ==
  ASSUME TexturesOwn, Grows, shown' = shown
  PROVE  TexturesOwn'
<1>1. ever \subseteq ever' /\ Known \subseteq Known' /\ renamed \subseteq renamed' /\ LegacyUuids' = LegacyUuids
  BY DEF Grows, Histories, LegacyUuids
<1>2. Like(ever) \subseteq Like(ever') /\ Like(Known) \subseteq Like(Known')
  BY <1>1, LikeIs
<1>3. ASSUME NEW s \in shown
      PROVE  \/ Alike(s[1], s[2])
             \/ /\ {s[1], s[2]} \subseteq renamed'
                /\ \E u \in Uuids : {Map(s[1], u), Map(s[2], u)} \subseteq Like(ever')
             \/ \E u \in LegacyUuids' : {Map(s[1], u), Map(s[2], u)} \subseteq Like(Known')
  BY <1>1, <1>2 DEF TexturesOwn
<1> QED
  BY <1>3 DEF TexturesOwn

\* The news of a request: what it generates.
LEMMA NewsOne ==
  ASSUME NEW t \in Threads, OneStep(t), NEW F,
         ever' \cup unsaved' \cup loc'[t].new \subseteq Known \cup Pending \cup F,
         pc'[t] = "create" => Map(loc'[t].asked, loc'[t].uuid) \in Known \cup Pending \cup F
  PROVE  Known' \cup Pending' \subseteq Known \cup Pending \cup F
<1>1. ASSUME NEW s \in Threads, NEW m \in loc'[s].new PROVE m \in Known \cup Pending \cup F
  BY <1>1 DEF OneStep, Known, Batched
<1>2. ASSUME NEW s \in Threads, pc'[s] = "create"
      PROVE  Map(loc'[s].asked, loc'[s].uuid) \in Known \cup Pending \cup F
  <2>1. CASE s = t
    BY <1>2, <2>1
  <2>2. CASE s # t
    BY <1>2, <2>2 DEF OneStep, Pending
  <2> QED
    BY <2>1, <2>2
<1>3. Known' = ever' \cup unsaved' \cup UNION {loc'[s].new : s \in Threads}
  BY DEF Known, Batched
<1>4. Pending' = {Map(loc'[s].asked, loc'[s].uuid) : s \in {r \in Threads : pc'[r] = "create"}}
  BY DEF Pending
<1> HIDE DEF Known, Pending
<1> QED
  BY <1>1, <1>2, <1>3, <1>4

\* A step that changes no row and generates nothing, but may look, cache and remember renames.
LEMMA Reads ==
  ASSUME Provenance, NEW t \in Threads, OneStep(t), TypeOthers', LocalOf(t)', CachesSay, Repeats(t),
         UNCHANGED <<rows, drawn, legacy, ever, unsaved>>,
         renamed' = renamed \/ (renamed \subseteq renamed' /\ Closed'),
         loc'[t].new = loc[t].new, pc'[t] # "create",
         shown' = shown \/ (Grows => TexturesOwn')
  PROVE  Provenance'
<1>1. RowsGrow /\ Histories /\ Settles(t)
  BY DEF RowsGrow, Histories, Settles, Provenance, Truthful
<1>2. Grows
  BY <1>1, GrowsOne
<1>3. Known' \cup Pending' \subseteq Known \cup Pending \cup {}
  <2>1. ever' \cup unsaved' \cup loc'[t].new \subseteq Known \cup Pending \cup {}
    BY DEF Known, Batched
  <2> QED
    BY <2>1, NewsOne
<1>4. Derived' /\ Apart'
  BY <1>2, <1>3, NoneFresh DEF Provenance
<1>5. TexturesOwn'
  BY <1>2, ShownStay DEF Provenance
<1> QED
  BY <1>2, <1>4, <1>5, Assemble

-----------------------------------------------------------------------------
(* Each step of a request.                                                 *)

\* A row is a mapping that is held.
LEMMA RowIs ==
  ASSUME TypeOK, NEW i \in DOMAIN rows
  PROVE  /\ rows[i] \in Mapping /\ rows[i].name \in Names /\ rows[i].uuid \in Uuids
         /\ Map(rows[i].name, rows[i].uuid) = rows[i] /\ rows[i] \in Held
         /\ rows' = rows => rows[i] \in Held'
<1>1. rows[i] \in Mapping
  BY DEF TypeOK
<1>2. rows[i].name \in Names /\ rows[i].uuid \in Uuids /\ Map(rows[i].name, rows[i].uuid) = rows[i]
  BY <1>1 DEF Mapping, Map
<1> QED
  BY <1>1, <1>2 DEF Held

\* An element of a sequence.
LEMMA ElementOf == ASSUME NEW E, NEW c \in Seq(E), NEW i \in DOMAIN c PROVE c[i] \in E
OBVIOUS

\* A cached UUID or name was said, or is known.
LEMMA CachedIs ==
  ASSUME TypeOK, NEW x \in Nodes
  PROVE  /\ \A n : Cached(byName[x], n) =>
              LET u == byName[x][At(byName[x], n)].value
              IN  n \in Names /\ u \in Uuids /\ Map(n, u) \in Spoken
         /\ \A u : Cached(byUuid[x], u) =>
              LET n == byUuid[x][At(byUuid[x], u)].value
              IN  n \in Names /\ Map(n, u) \in UuidEntries(x)
<1>1. ASSUME NEW n, Cached(byName[x], n)
      PROVE  LET u == byName[x][At(byName[x], n)].value
             IN  n \in Names /\ u \in Uuids /\ Map(n, u) \in Spoken
  <2>1. PICK i \in DOMAIN byName[x] : i = At(byName[x], n) /\ byName[x][i].key = n
    BY <1>1, AtIs
  <2>2. byName[x] \in Seq([key : Names, value : Uuids])
    BY DEF TypeOK
  <2>3. byName[x][i] \in [key : Names, value : Uuids]
    BY <2>1, <2>2, ElementOf
  <2>4. Map(n, byName[x][i].value) \in NameEntries(x)
    BY <2>1 DEF NameEntries
  <2>5. Map(n, byName[x][i].value) \in Spoken
    BY <2>4, SpokenIs
  <2> QED
    BY <2>1, <2>3, <2>5
<1>2. ASSUME NEW u, Cached(byUuid[x], u)
      PROVE  LET n == byUuid[x][At(byUuid[x], u)].value
             IN  n \in Names /\ Map(n, u) \in UuidEntries(x)
  <2>1. PICK i \in DOMAIN byUuid[x] : i = At(byUuid[x], u) /\ byUuid[x][i].key = u
    BY <1>2, AtIs
  <2>2. byUuid[x] \in Seq([key : Uuids, value : Names])
    BY DEF TypeOK
  <2>3. byUuid[x][i] \in [key : Uuids, value : Names]
    BY <2>1, <2>2, ElementOf
  <2>4. Map(byUuid[x][i].value, u) \in UuidEntries(x)
    BY <2>1 DEF UuidEntries
  <2> QED
    BY <2>1, <2>3, <2>4
<1> QED
  BY <1>1, <1>2

\* What was found and told before was said.
LEMMA RepeatsSame ==
  ASSUME NEW t \in Threads, loc'[t].found = loc[t].found, told' = told,
         pc'[t] \in {"textures", "firstName", "answer"} =>
            Map(loc'[t].name, loc'[t].uuid) \in Sayable
  PROVE  Repeats(t)
<1>1. \A m \in loc[t].found : m \in Sayable
  BY SpokenIs, SayableHas
<1>2. \A m \in Mapping : m.uuid \in told[m.name] => m \in Sayable
  BY SpokenIs, SayableHas
<1> QED
  BY <1>1, <1>2 DEF Repeats

\* An idle request has no local variables.
LEMMA IdleIs ==
  ASSUME Provenance, NEW t \in Threads, pc[t] = "idle"
  PROVE  loc[t] = Idle
BY DEF Provenance, LocalOf

\* A request goes to its next step with other local variables.
Steps == {"idle", "get", "first", "create", "textures", "firstName", "answer",
          "batch", "rename", "checkName", "saveName"}

LEMMA Moves ==
  ASSUME TypeOK, NEW t \in Threads, NEW l \in Steps, NEW v \in Local,
         Goto(t, l), loc' = [loc EXCEPT ![t] = v]
  PROVE  /\ OneStep(t) /\ pc'[t] = l /\ loc'[t] = v
         /\ pc' \in [Threads -> Steps] /\ loc' \in [Threads -> Local]
<1>1. pc \in [Threads -> Steps] /\ loc \in [Threads -> Local]
  BY DEF TypeOK, Steps
<1>2. pc' = [pc EXCEPT ![t] = l]
  BY DEF Goto
<1>3. pc'[t] = l /\ pc' \in [Threads -> Steps] /\ \A s \in Threads : s # t => pc'[s] = pc[s]
  BY <1>1, <1>2
<1>4. loc'[t] = v /\ loc' \in [Threads -> Local] /\ \A s \in Threads : s # t => loc'[s] = loc[s]
  BY <1>1
<1> QED
  BY <1>3, <1>4 DEF OneStep

LEMMA IdleTyped == Idle \in Local
BY DEF Idle, Local

\* What a call, an edit, a failure or a restart takes from the budget.
Budget == [calls : Nat, edits : Nat, faults : Nat, restarts : Nat]
LEMMA Spends ==
  ASSUME TypeOK
  PROVE  /\ budget.calls > 0 => [budget EXCEPT !.calls = budget.calls - 1] \in Budget
         /\ budget.edits > 0 => [budget EXCEPT !.edits = budget.edits - 1] \in Budget
         /\ budget.faults > 0 => [budget EXCEPT !.faults = budget.faults - 1] \in Budget
         /\ budget.restarts > 0 => [budget EXCEPT !.restarts = budget.restarts - 1] \in Budget
<1>1. budget \in Budget
  BY DEF TypeOK, Budget
<1> QED
  BY <1>1 DEF Budget

\* Steps that read: tables and histories stay, but for renames and what is told.
LEMMA Reading ==
  ASSUME Provenance, NEW t \in Threads, NEW l \in Steps, NEW v \in Local,
         Goto(t, l), loc' = [loc EXCEPT ![t] = v], CachesSay,
         UNCHANGED <<algorithm, players, rows, drawn, told, shown, legacy, ever, unsaved, renamed>>,
         budget' \in Budget,
         v.new = loc[t].new, l # "create", LocalOf(t)',
         v.found \subseteq Sayable,
         l \in {"textures", "firstName", "answer"} => Map(v.name, v.uuid) \in Sayable
  PROVE  Provenance'
<1>1. TypeOK
  BY DEF Provenance
<1>2. /\ OneStep(t) /\ pc'[t] = l /\ loc'[t] = v
      /\ pc' \in [Threads -> Steps] /\ loc' \in [Threads -> Local]
  BY <1>1, Moves
<1>3. TypeOthers'
  BY <1>1, <1>2 DEF TypeOK, TypeOthers, Steps, Budget
<1>4. Repeats(t)
  <2>1. \A m \in Mapping : m.uuid \in told[m.name] => m \in Sayable
    BY SpokenIs, SayableHas
  <2> QED
    BY <1>2, <2>1 DEF Repeats
<1> QED
  BY <1>2, <1>3, <1>4, Reads

LEMMA GetProfileByNameKeeps ==
  ASSUME Provenance, NEW t \in Threads, GetProfileByName(t)
  PROVE  Provenance'
<1>1. /\ TypeOK /\ pc[t] = "idle" /\ loc[t] = Idle /\ budget' \in Budget
  BY IdleIs, Spends DEF GetProfileByName, Call, Provenance
<1>2. /\ UNCHANGED <<algorithm, players, rows, drawn, told, shown, legacy, ever, unsaved, renamed>>
      /\ CachesSay
  BY <1>1, CachesStay DEF GetProfileByName, history
<1>3. PICK q \in Names, n \in players :
        /\ Alike(n, q)
        /\ \/ \E i \in RowsOf(n) : /\ loc' = [loc EXCEPT ![t].name = n, ![t].uuid = rows[i].uuid]
                                   /\ Goto(t, "textures")
           \/ loc' = [loc EXCEPT ![t].name = n, ![t].asked = q] /\ Goto(t, "get")
  BY DEF GetProfileByName
<1>4. n \in Names
  BY <1>1 DEF TypeOK
<1>5. ASSUME NEW i \in RowsOf(n), loc' = [loc EXCEPT ![t].name = n, ![t].uuid = rows[i].uuid],
             Goto(t, "textures")
      PROVE  Provenance'
  <2> DEFINE v == [Idle EXCEPT !.name = n, !.uuid = rows[i].uuid]
  <2>1. i \in DOMAIN rows /\ Alike(rows[i].name, n)
    BY DEF RowsOf
  <2>2. rows[i].uuid \in Uuids /\ Map(n, rows[i].uuid) \in Sayable
    BY <1>1, <1>2, <1>4, <2>1, RowIs, LikeSayable
  <2>3. v \in Local /\ loc' = [loc EXCEPT ![t] = v]
    BY <1>1, <1>4, <1>5, <2>2, IdleTyped DEF Local
  <2>4. v.new = {} /\ v.found = {} /\ v.name = n /\ v.uuid = rows[i].uuid /\ v.owner = None
    BY DEF Idle
  <2> HIDE DEF v
  <2>5. pc'[t] = "textures" /\ loc'[t] = v
    BY <1>1, <1>5, <2>3, Moves DEF Steps
  <2>6. LocalOf(t)'
    BY <1>4, <2>2, <2>4, <2>5, FS_EmptySet DEF LocalOf
  <2> QED
    <3>1. v.new = loc[t].new /\ "textures" \in Steps /\ v.found \subseteq Sayable
      BY <1>1, <2>4 DEF Idle, Steps
    <3>2. Map(v.name, v.uuid) \in Sayable
      BY <2>2, <2>4
    <3> QED
      BY <1>1, <1>2, <1>5, <2>3, <2>6, <3>1, <3>2, Reading
<1>6. ASSUME loc' = [loc EXCEPT ![t].name = n, ![t].asked = q], Goto(t, "get")
      PROVE  Provenance'
  <2> DEFINE v == [Idle EXCEPT !.name = n, !.asked = q]
  <2>1. v \in Local /\ loc' = [loc EXCEPT ![t] = v]
    BY <1>1, <1>4, <1>6, IdleTyped DEF Local
  <2>2. v.new = {} /\ v.found = {} /\ v.name = n /\ v.asked = q /\ v.owner = None
    BY DEF Idle
  <2> HIDE DEF v
  <2>3. pc'[t] = "get" /\ loc'[t] = v
    BY <1>1, <1>6, <2>1, Moves DEF Steps
  <2>4. LocalOf(t)'
    BY <1>3, <1>4, <2>2, <2>3, FS_EmptySet DEF LocalOf, Alike
  <2> QED
    <3>1. v.new = loc[t].new /\ "get" \in Steps /\ v.found \subseteq Sayable
      BY <1>1, <2>2 DEF Idle, Steps
    <3> QED
      BY <1>1, <1>2, <1>6, <2>1, <2>4, <3>1, Reading
<1> QED
  BY <1>3, <1>5, <1>6

LEMMA GetProfileByUUIDKeeps ==
  ASSUME Provenance, NEW t \in Threads, GetProfileByUUID(t)
  PROVE  Provenance'
<1>1. /\ TypeOK /\ pc[t] = "idle" /\ loc[t] = Idle /\ budget' \in Budget
  BY IdleIs, Spends DEF GetProfileByUUID, Call, Provenance
<1>2. /\ UNCHANGED <<algorithm, players, rows, drawn, told, shown, legacy, ever, unsaved, renamed>>
      /\ CachesSay
  BY <1>1, CachesStay DEF GetProfileByUUID, history
<1>3. PICK i \in DOMAIN rows, n \in players :
        /\ Alike(rows[i].name, n)
        /\ loc' = [loc EXCEPT ![t].name = n, ![t].uuid = rows[i].uuid]
        /\ Goto(t, "textures")
  BY DEF GetProfileByUUID
<1>0. n \in Names
  BY <1>1 DEF TypeOK
<1>4. n \in Names /\ rows[i].uuid \in Uuids /\ Map(n, rows[i].uuid) \in Sayable
  BY <1>0, <1>1, <1>2, <1>3, RowIs, LikeSayable
<1> DEFINE v == [Idle EXCEPT !.name = n, !.uuid = rows[i].uuid]
<1>5. v \in Local /\ loc' = [loc EXCEPT ![t] = v]
  BY <1>1, <1>3, <1>4, IdleTyped DEF Local
<1>6. v.new = {} /\ v.found = {} /\ v.name = n /\ v.uuid = rows[i].uuid /\ v.owner = None
  BY DEF Idle
<1> HIDE DEF v
<1>7. pc'[t] = "textures" /\ loc'[t] = v
  BY <1>1, <1>3, <1>5, Moves DEF Steps
<1>8. LocalOf(t)'
  BY <1>4, <1>6, <1>7, FS_EmptySet DEF LocalOf
<1>9. v.new = loc[t].new /\ "textures" \in Steps /\ v.found \subseteq Sayable
  BY <1>1, <1>6 DEF Idle, Steps
<1>10. Map(v.name, v.uuid) \in Sayable
  BY <1>4, <1>6
<1> QED
  BY <1>1, <1>2, <1>3, <1>5, <1>8, <1>9, <1>10, Reading

\* A request that is not a batch found nothing, generated nothing for others.
LEMMA LocalIs ==
  ASSUME Provenance, NEW t \in Threads
  PROVE  /\ TypeOK /\ LocalOf(t) /\ loc[t] \in Local /\ pc[t] \in Steps
         /\ loc[t].found \subseteq Sayable
         /\ budget \in Budget
<1>1. \A m \in loc[t].found : m \in Sayable
  BY SpokenIs, SayableHas
<1> QED
  BY <1>1 DEF Provenance, TypeOK, Steps, Budget

LEMMA GetOrCreateUUIDKeeps ==
  ASSUME Provenance, NEW t \in Threads, GetOrCreateUUID(t)
  PROVE  Provenance'
<1> DEFINE n == loc[t].asked
           p == loc[t].name
           x == NodeOf[t]
           u == byName[x][At(byName[x], n)].value
<1>1. /\ TypeOK /\ LocalOf(t) /\ loc[t] \in Local /\ pc[t] = "get" /\ x \in Nodes
      /\ loc[t].found \subseteq Sayable /\ budget' \in Budget
  BY LocalIs, NodeAssumption DEF GetOrCreateUUID
<1>2. /\ UNCHANGED <<algorithm, players, rows, drawn, told, shown, legacy, ever, unsaved, renamed, byUuid>>
  BY DEF GetOrCreateUUID, history
<1>3. n \in Names /\ p \in Names /\ Alike(n, p) /\ loc[t].new = {} /\ loc[t].owner = None /\ IsFiniteSet(loc[t].new)
  BY <1>1 DEF LocalOf
<1>4. CASE /\ Cached(byName[x], n) /\ byName' = [byName EXCEPT ![x] = Get(@, n)]
           /\ loc' = [loc EXCEPT ![t].uuid = u] /\ Goto(t, "textures")
  <2>1. CachesSay
    <3>1. byName' = [byName EXCEPT ![x] = Get(byName[x], n)]
      BY <1>4
    <3> QED
      BY <1>1, <1>2, <1>4, <3>1, NameGetSays
  <2>2. u \in Uuids /\ Map(p, u) \in Sayable
    <3>1. u \in Uuids /\ Map(n, u) \in Spoken
      BY <1>1, <1>4, CachedIs
    <3>2. Map(n, u).name = n /\ Map(n, u).uuid = u
      BY DEF Map
    <3> HIDE DEF n, p, u
    <3> QED
      BY <1>3, <3>1, <3>2, LikeSayable
  <2> HIDE DEF u
  <2> DEFINE v == [loc[t] EXCEPT !.uuid = u]
  <2>3. v \in Local /\ loc' = [loc EXCEPT ![t] = v]
    BY <1>1, <1>4, <2>2 DEF Local
  <2>4. /\ v.new = loc[t].new /\ v.found = loc[t].found /\ v.name = p /\ v.uuid = u
        /\ v.owner = loc[t].owner
    BY <1>1 DEF Local
  <2> HIDE DEF v
  <2>5. pc'[t] = "textures" /\ loc'[t] = v
    BY <1>1, <1>4, <2>3, Moves DEF Steps
  <2>6. LocalOf(t)'
    BY <1>3, <2>2, <2>4, <2>5 DEF LocalOf
  <2>7. "textures" \in Steps /\ v.found \subseteq Sayable /\ Map(v.name, v.uuid) \in Sayable
    BY <1>1, <2>2, <2>4 DEF Steps
  <2> QED
    BY <1>1, <1>2, <1>4, <2>1, <2>3, <2>4, <2>6, <2>7, Reading
<1>5. CASE /\ Goto(t, "first") /\ UNCHANGED <<byName, loc>>
  <2>1. CachesSay
    BY <1>1, <1>2, <1>5, CachesStay DEF caches
  <2>2. loc' = [loc EXCEPT ![t] = loc[t]]
    BY <1>1, <1>5 DEF TypeOK
  <2>3. pc'[t] = "first" /\ loc'[t] = loc[t]
    BY <1>1, <1>5, <2>2, Moves DEF Steps
  <2>4. LocalOf(t)'
    BY <1>3, <2>3 DEF LocalOf
  <2>5. "first" \in Steps /\ loc[t].found \subseteq Sayable
    BY <1>1 DEF Steps
  <2> QED
    BY <1>1, <1>2, <1>5, <2>1, <2>2, <2>4, <2>5, Reading
<1> QED
  BY <1>4, <1>5 DEF GetOrCreateUUID

\* First is one of the rows it is asked for.
LEMMA FirstIs ==
  ASSUME NEW S, S \subseteq Nat, S # {}
  PROVE  First(S) \in S
<1>1. \E i \in S : \A j \in S : ~(j < i)
  BY LeastOf
<1>2. \E i \in S : \A j \in S : i <= j
  BY <1>1
<1> QED
  BY <1>2 DEF First

LEMMA FirstRow ==
  ASSUME TypeOK
  PROVE  /\ \A n : RowsOf(n) # {} =>
              First(RowsOf(n)) \in DOMAIN rows /\ Alike(rows[First(RowsOf(n))].name, n)
         /\ \A u : RowsWith(u) # {} =>
              First(RowsWith(u)) \in DOMAIN rows /\ rows[First(RowsWith(u))].uuid = u
<1>1. DOMAIN rows \subseteq Nat
  BY DEF TypeOK
<1>2. ASSUME NEW n, RowsOf(n) # {}
      PROVE  First(RowsOf(n)) \in DOMAIN rows /\ Alike(rows[First(RowsOf(n))].name, n)
  <2>1. RowsOf(n) \subseteq Nat
    BY <1>1 DEF RowsOf
  <2>2. First(RowsOf(n)) \in RowsOf(n)
    BY <1>2, <2>1, FirstIs
  <2> QED
    BY <2>2 DEF RowsOf
<1>3. ASSUME NEW u, RowsWith(u) # {}
      PROVE  First(RowsWith(u)) \in DOMAIN rows /\ rows[First(RowsWith(u))].uuid = u
  <2>1. RowsWith(u) \subseteq Nat
    BY <1>1 DEF RowsWith
  <2>2. First(RowsWith(u)) \in RowsWith(u)
    BY <1>3, <2>1, FirstIs
  <2> QED
    BY <2>2 DEF RowsWith
<1> QED
  BY <1>2, <1>3

\* What is known and held stays so when nothing is inserted or generated.
LEMMA KnownStay ==
  ASSUME NEW t \in Threads, OneStep(t), loc'[t].new = loc[t].new, UNCHANGED <<rows, ever, unsaved>>
  PROVE  Known' = Known /\ Held' = Held
<1>1. \A s \in Threads : loc'[s].new = loc[s].new
  BY DEF OneStep
<1>2. UNION {loc'[s].new : s \in Threads} = UNION {loc[s].new : s \in Threads}
  BY <1>1
<1> QED
  BY <1>2 DEF Known, Held, Batched

\* The profile that a request is about to answer was said.
LEMMA ResolvedIs ==
  ASSUME NEW t \in Threads, pc[t] \in {"textures", "firstName", "answer"}
  PROVE  Map(loc[t].name, loc[t].uuid) \in Spoken /\ Map(loc[t].name, loc[t].uuid) \in Sayable
BY SpokenIs, SayableHas

LEMMA GetNameByUUIDKeeps ==
  ASSUME Provenance, NEW t \in Threads, GetNameByUUID(t)
  PROVE  Provenance'
<1> DEFINE u == loc[t].uuid
           x == NodeOf[t]
           o == byUuid[x][At(byUuid[x], u)].value
<1>1. /\ TypeOK /\ LocalOf(t) /\ loc[t] \in Local /\ pc[t] = "textures" /\ x \in Nodes
      /\ loc[t].found \subseteq Sayable /\ budget' \in Budget
  BY LocalIs, NodeAssumption DEF GetNameByUUID
<1>2. /\ UNCHANGED <<algorithm, players, rows, drawn, told, shown, legacy, ever, unsaved, renamed, byName>>
  BY DEF GetNameByUUID, history
<1>3. /\ loc[t].name \in Names /\ u \in Uuids /\ loc[t].new = {} /\ loc[t].owner = None
      /\ IsFiniteSet(loc[t].new) /\ Map(loc[t].name, u) \in Sayable
  BY <1>1, ResolvedIs DEF LocalOf
<1>4. CASE /\ Cached(byUuid[x], u) /\ byUuid' = [byUuid EXCEPT ![x] = Get(@, u)]
           /\ loc' = [loc EXCEPT ![t].owner = o] /\ Goto(t, "answer")
  <2>1. CachesSay
    <3>1. byUuid' = [byUuid EXCEPT ![x] = Get(byUuid[x], u)]
      BY <1>4
    <3> QED
      BY <1>1, <1>2, <1>4, <3>1, UuidGetSays
  <2>2. o \in Names /\ Map(o, u) \in Known
    <3>1. o \in Names /\ Map(o, u) \in UuidEntries(x)
      BY <1>1, <1>4, CachedIs
    <3>2. UuidEntries(x) \subseteq Known
      BY <1>1, Zenon DEF Provenance, Truthful
    <3> QED
      BY <3>1, <3>2
  <2> HIDE DEF o
  <2> DEFINE v == [loc[t] EXCEPT !.owner = o]
  <2>3. v \in Local /\ loc' = [loc EXCEPT ![t] = v]
    BY <1>1, <1>4, <2>2 DEF Local
  <2>4. /\ v.new = loc[t].new /\ v.found = loc[t].found /\ v.name = loc[t].name /\ v.uuid = u
        /\ v.owner = o
    BY <1>1 DEF Local
  <2> HIDE DEF v
  <2>5. pc'[t] = "answer" /\ loc'[t] = v /\ OneStep(t)
    BY <1>1, <1>4, <2>3, Moves DEF Steps
  <2>6. Known' = Known
    BY <1>2, <2>4, <2>5, KnownStay
  <2>7. LocalOf(t)'
    BY <1>3, <2>2, <2>4, <2>5, <2>6 DEF LocalOf
  <2>8. "answer" \in Steps /\ v.found \subseteq Sayable /\ Map(v.name, v.uuid) \in Sayable
    BY <1>1, <1>3, <2>4 DEF Steps
  <2> QED
    BY <1>1, <1>2, <1>4, <2>1, <2>3, <2>4, <2>7, <2>8, Reading
<1>5. CASE /\ Goto(t, "firstName") /\ UNCHANGED <<byUuid, loc>>
  <2>1. CachesSay
    BY <1>1, <1>2, <1>5, CachesStay DEF caches
  <2>2. loc' = [loc EXCEPT ![t] = loc[t]]
    BY <1>1, <1>5 DEF TypeOK
  <2>3. pc'[t] = "firstName" /\ loc'[t] = loc[t]
    BY <1>1, <1>5, <2>2, Moves DEF Steps
  <2>4. LocalOf(t)'
    BY <1>3, <2>3 DEF LocalOf
  <2>5. "firstName" \in Steps /\ loc[t].found \subseteq Sayable
    BY <1>1 DEF Steps
  <2> QED
    BY <1>1, <1>2, <1>3, <1>5, <2>1, <2>2, <2>4, <2>5, Reading
<1> QED
  BY <1>4, <1>5 DEF GetNameByUUID

LEMMA FindNameKeeps ==
  ASSUME Provenance, NEW t \in Threads, FindName(t)
  PROVE  Provenance'
<1> DEFINE u == loc[t].uuid
           i == First(RowsWith(u))
<1>1. /\ TypeOK /\ LocalOf(t) /\ loc[t] \in Local /\ pc[t] = "firstName" /\ NodeOf[t] \in Nodes
      /\ loc[t].found \subseteq Sayable /\ budget' \in Budget
  BY LocalIs, NodeAssumption DEF FindName
<1>2. /\ UNCHANGED <<algorithm, players, rows, drawn, told, shown, legacy, ever, unsaved, renamed>>
      /\ Goto(t, "answer")
  BY DEF FindName, history
<1>3. /\ loc[t].name \in Names /\ u \in Uuids /\ loc[t].new = {} /\ loc[t].owner = None
      /\ IsFiniteSet(loc[t].new) /\ Map(loc[t].name, u) \in Sayable
  BY <1>1, ResolvedIs DEF LocalOf
<1>4. CASE /\ RowsWith(u) # {} /\ loc' = [loc EXCEPT ![t].owner = rows[i].name]
           /\ PutMapping(NodeOf[t], rows[i])
  <2>1. i \in DOMAIN rows /\ rows[i].uuid = u
    BY <1>1, <1>4, FirstRow
  <2> HIDE DEF i
  <2>2. /\ rows[i] \in Mapping /\ rows[i].name \in Names /\ Map(rows[i].name, u) = rows[i]
        /\ rows[i] \in Held' /\ rows[i] \in Known
    <3>1. rows[i] \in ever
      BY <2>1 DEF Provenance, Truthful
    <3> QED
      BY <1>1, <1>2, <2>1, <3>1, RowIs DEF Known
  <2>3. CachesSay
    BY <1>1, <1>4, <2>2, PutSays
  <2> DEFINE v == [loc[t] EXCEPT !.owner = rows[i].name]
  <2>4. v \in Local /\ loc' = [loc EXCEPT ![t] = v]
    BY <1>1, <1>4, <2>2 DEF Local
  <2>5. /\ v.new = loc[t].new /\ v.found = loc[t].found /\ v.name = loc[t].name /\ v.uuid = u
        /\ v.owner = rows[i].name
    BY <1>1 DEF Local
  <2> HIDE DEF v
  <2>6. pc'[t] = "answer" /\ loc'[t] = v /\ OneStep(t)
    BY <1>1, <1>2, <2>4, Moves DEF Steps
  <2>7. Known' = Known
    BY <1>2, <2>5, <2>6, KnownStay
  <2>8. LocalOf(t)'
    BY <1>3, <2>2, <2>5, <2>6, <2>7 DEF LocalOf
  <2>9. "answer" \in Steps /\ v.found \subseteq Sayable /\ Map(v.name, v.uuid) \in Sayable
    BY <1>1, <1>3, <2>5 DEF Steps
  <2> QED
    BY <1>1, <1>2, <2>3, <2>4, <2>5, <2>8, <2>9, Reading
<1>5. CASE UNCHANGED <<loc, caches>>
  <2>1. CachesSay
    BY <1>1, <1>5, CachesStay
  <2>2. loc' = [loc EXCEPT ![t] = loc[t]]
    BY <1>1, <1>5 DEF TypeOK
  <2>3. pc'[t] = "answer" /\ loc'[t] = loc[t]
    BY <1>1, <1>2, <2>2, Moves DEF Steps
  <2>4. LocalOf(t)'
    BY <1>3, <2>3 DEF LocalOf
  <2>5. "answer" \in Steps /\ loc[t].found \subseteq Sayable
    BY <1>1 DEF Steps
  <2> QED
    BY <1>1, <1>2, <1>3, <2>1, <2>2, <2>4, <2>5, Reading
<1> QED
  BY <1>4, <1>5 DEF FindName

\* A request that returns leaves nothing behind.
LEMMA Returns ==
  ASSUME TypeOK, NEW t \in Threads, Return(t)
  PROVE  /\ OneStep(t) /\ pc'[t] = "idle" /\ loc'[t] = Idle /\ loc'[t].new = {}
         /\ pc' \in [Threads -> Steps] /\ loc' \in [Threads -> Local]
         /\ LocalOf(t)'
         /\ loc' = [loc EXCEPT ![t] = Idle] /\ Goto(t, "idle")
<1>1. Goto(t, "idle") /\ loc' = [loc EXCEPT ![t] = Idle]
  BY DEF Return
<1>2. "idle" \in Steps
  BY DEF Steps
<1>3. /\ OneStep(t) /\ pc'[t] = "idle" /\ loc'[t] = Idle
      /\ pc' \in [Threads -> Steps] /\ loc' \in [Threads -> Local]
  BY <1>1, <1>2, IdleTyped, Moves
<1>4. loc'[t].new = {}
  BY <1>3 DEF Idle
<1>5. LocalOf(t)'
  BY <1>3, <1>4, FS_EmptySet DEF LocalOf
<1> QED
  BY <1>1, <1>3, <1>4, <1>5

\* A request that reads and returns.
LEMMA ReturnKeeps ==
  ASSUME Provenance, NEW t \in Threads, Return(t), loc[t].new = {}, CachesSay,
         UNCHANGED <<algorithm, players, rows, drawn, told, shown, legacy, ever, unsaved, renamed>>,
         budget' \in Budget
  PROVE  Provenance'
<1>1. TypeOK
  BY DEF Provenance
<1>2. /\ LocalOf(t)' /\ loc' = [loc EXCEPT ![t] = Idle] /\ Goto(t, "idle")
  BY <1>1, Returns
<1>3. Idle.new = loc[t].new /\ Idle.found \subseteq Sayable /\ "idle" \in Steps
  BY DEF Idle, Steps
<1> QED
  BY <1>1, <1>2, <1>3, IdleTyped, Reading

LEMMA AnswerKeeps ==
  ASSUME Provenance, NEW t \in Threads, Answer(t)
  PROVE  Provenance'
<1> DEFINE n == loc[t].name
           u == loc[t].uuid
           o == loc[t].owner
<1>1. /\ TypeOK /\ LocalOf(t) /\ loc[t] \in Local /\ pc[t] = "answer" /\ budget \in Budget
  BY LocalIs DEF Answer
<1>2. /\ UNCHANGED <<algorithm, players, rows, caches, drawn, budget, legacy, ever, unsaved, renamed>>
      /\ Return(t)
      /\ told' = [told EXCEPT ![n] = told[n] \cup {u}]
      /\ \/ \E p \in {q \in players : o # None /\ Alike(q, o)} : shown' = shown \cup {<<n, p>>}
         \/ shown' = shown
  BY DEF Answer, Tell, Map
<1>3. /\ n \in Names /\ u \in Uuids /\ loc[t].new = {}
      /\ o = None \/ Map(o, u) \in Known
      /\ Map(n, u) \in Spoken
  BY <1>1, ResolvedIs DEF LocalOf
<1>4. /\ OneStep(t) /\ pc'[t] = "idle" /\ loc'[t] = Idle /\ loc'[t].new = loc[t].new
      /\ pc' \in [Threads -> Steps] /\ loc' \in [Threads -> Local] /\ LocalOf(t)'
  BY <1>1, <1>2, <1>3, Returns
<1>5. CachesSay
  BY <1>1, <1>2, CachesStay
<1>6. players \subseteq Names /\ told \in [Names -> SUBSET Uuids] /\ shown \subseteq Names \X Names
  BY <1>1 DEF TypeOK
<1>7. TypeOthers'
  <2>1. told' \in [Names -> SUBSET Uuids]
    BY <1>2, <1>3, <1>6
  <2>2. shown' \subseteq Names \X Names
    BY <1>2, <1>3, <1>6
  <2> QED
    BY <1>1, <1>2, <1>4, <2>1, <2>2 DEF TypeOK, TypeOthers, Steps
<1>8. Repeats(t)
  <2>1. ASSUME NEW m \in Mapping, m.uuid \in told'[m.name]
        PROVE  m \in Sayable
    <3>1. m.name \in Names /\ Map(m.name, m.uuid) = m
      BY DEF Mapping, Map
    <3>2. CASE m.uuid \in told[m.name]
      BY <3>2, SpokenIs, SayableHas
    <3>3. CASE m.name = n /\ m.uuid = u
      BY <1>3, <3>1, <3>3, SayableHas
    <3> QED
      BY <1>2, <1>6, <2>1, <3>1, <3>2, <3>3
  <2> QED
    BY <1>4, <2>1 DEF Repeats, Idle
<1>9. ASSUME NEW p \in players, o # None, Alike(p, o)
      PROVE  \/ Alike(n, p)
             \/ {n, p} \subseteq renamed /\ {Map(n, u), Map(p, u)} \subseteq Like(ever)
             \/ u \in LegacyUuids /\ {Map(n, u), Map(p, u)} \subseteq Like(Known)
  <2> DEFINE k == Map(o, u)
  <2>1. k \in Known /\ k.name = o /\ k.uuid = u
    BY <1>3, <1>9 DEF Map
  <2> HIDE DEF k
  <2>2. Map(n, u) \in Like(Known)
    BY <1>3 DEF Provenance, Truthful
  <2>3. PICK j \in Known : Alike(j.name, n) /\ j.uuid = u
    <3>1. Map(n, u).name = n /\ Map(n, u).uuid = u
      BY DEF Map
    <3> QED
      BY <2>2, <3>1 DEF Like
  <2>4. p \in Names /\ Map(n, u) \in Mapping /\ Map(p, u) \in Mapping
    BY <1>3, <1>6 DEF Map, Mapping
  <2>5. /\ Map(n, u).name = n /\ Map(n, u).uuid = u
        /\ Map(p, u).name = p /\ Map(p, u).uuid = u
    BY DEF Map
  <2> HIDE DEF n, u, o
  <2>6. ASSUME NEW S, j \in S, k \in S PROVE {Map(n, u), Map(p, u)} \subseteq Like(S)
    BY <1>9, <2>1, <2>3, <2>4, <2>5, <2>6 DEF Like, Alike
  <2>7. CASE j.name = o
    BY <1>9, <2>3, <2>7 DEF Alike
  <2>8. CASE j.name # o
    <3>1. u \in LegacyUuids \/ ({j, k} \subseteq ever /\ {j.name, k.name} \subseteq renamed)
      BY <2>1, <2>3, <2>8 DEF Provenance, Apart
    <3>2. {j.name, k.name} \subseteq renamed => {n, p} \subseteq renamed
      <4>1. Closed
        BY DEF Provenance, Truthful
      <4> QED
        BY <1>3, <1>9, <2>1, <2>3, <2>4, <4>1 DEF Closed, Alike
    <3> QED
      BY <2>1, <2>3, <2>6, <3>1, <3>2
  <2> QED
    BY <2>7, <2>8
<1>10. TexturesOwn'
  <2>1. TexturesOwn
    BY DEF Provenance
  <2>2. /\ ever' = ever /\ renamed' = renamed /\ LegacyUuids' = LegacyUuids /\ Known' = Known
    <3>1. Known' = Known
      BY <1>2, <1>4, KnownStay
    <3> QED
      BY <1>2, <3>1 DEF LegacyUuids
  <2> HIDE DEF n, u, o
  <2>3. ASSUME NEW s \in shown'
        PROVE  \/ Alike(s[1], s[2])
               \/ /\ {s[1], s[2]} \subseteq renamed
                  /\ \E w \in Uuids : {Map(s[1], w), Map(s[2], w)} \subseteq Like(ever)
               \/ \E w \in LegacyUuids : {Map(s[1], w), Map(s[2], w)} \subseteq Like(Known)
    <3>1. CASE s \in shown
      BY <2>1, <3>1 DEF TexturesOwn
    <3>2. ASSUME NEW p \in players, o # None, Alike(p, o), s = <<n, p>>
          PROVE  \/ Alike(s[1], s[2])
                 \/ /\ {s[1], s[2]} \subseteq renamed
                    /\ \E w \in Uuids : {Map(s[1], w), Map(s[2], w)} \subseteq Like(ever)
                 \/ \E w \in LegacyUuids : {Map(s[1], w), Map(s[2], w)} \subseteq Like(Known)
      <4>1. s[1] = n /\ s[2] = p
        BY <3>2
      <4> QED
        BY <1>3, <1>9, <3>2, <4>1
    <3> QED
      BY <1>2, <3>1, <3>2
  <2> QED
    BY <2>2, <2>3 DEF TexturesOwn
<1>11. pc'[t] # "create" /\ renamed' = renamed
       /\ UNCHANGED <<rows, drawn, legacy, ever, unsaved>>
  BY <1>2, <1>4
<1> QED
  BY <1>4, <1>5, <1>7, <1>8, <1>10, <1>11, Reads

LEMMA BatchAnswerKeeps ==
  ASSUME Provenance, NEW t \in Threads, BatchAnswer(t)
  PROVE  Provenance'
<1>1. /\ TypeOK /\ LocalOf(t) /\ loc[t] \in Local /\ loc[t].found \subseteq Sayable /\ budget \in Budget
  BY LocalIs
<1>2. /\ UNCHANGED <<algorithm, players, rows, caches, drawn, budget, shown, legacy, ever, unsaved, renamed>>
      /\ Return(t) /\ loc[t].new = {}
      /\ told' = [n \in Names |-> told[n] \cup {m.uuid : m \in {f \in loc[t].found : f.name = n}}]
  BY DEF BatchAnswer
<1>3. /\ OneStep(t) /\ pc'[t] = "idle" /\ loc'[t] = Idle /\ loc'[t].new = loc[t].new
      /\ pc' \in [Threads -> Steps] /\ loc' \in [Threads -> Local] /\ LocalOf(t)'
  BY <1>1, <1>2, Returns
<1>4. CachesSay
  BY <1>1, <1>2, CachesStay
<1>5. told \in [Names -> SUBSET Uuids] /\ loc[t].found \subseteq Mapping
  BY <1>1 DEF TypeOK, Local
<1>6. ASSUME NEW n \in Names
      PROVE  /\ told'[n] \subseteq Uuids
             /\ \A u \in told'[n] : u \in told[n] \/ \E m \in loc[t].found : m.name = n /\ m.uuid = u
  <2>1. told'[n] = told[n] \cup {m.uuid : m \in {f \in loc[t].found : f.name = n}}
    BY <1>2
  <2>2. \A m \in loc[t].found : m.uuid \in Uuids
    BY <1>5 DEF Mapping
  <2> QED
    BY <1>5, <2>1, <2>2
<1>7. told' \in [Names -> SUBSET Uuids]
  BY <1>2, <1>6
<1>8. TypeOthers'
  BY <1>1, <1>2, <1>3, <1>7 DEF TypeOK, TypeOthers, Steps
<1>9. Repeats(t)
  <2>1. ASSUME NEW m \in Mapping, m.uuid \in told'[m.name]
        PROVE  m \in Sayable
    <3>1. m.name \in Names /\ Map(m.name, m.uuid) = m
      BY DEF Mapping, Map
    <3>2. CASE m.uuid \in told[m.name]
      BY <3>2, SpokenIs, SayableHas
    <3>3. ASSUME NEW k \in loc[t].found, k.name = m.name, k.uuid = m.uuid
          PROVE  m \in Sayable
      <4>1. k = m
        BY <1>5, <3>1, <3>3 DEF Mapping, Map
      <4> QED
        BY <1>1, <4>1
    <3> QED
      BY <1>6, <2>1, <3>1, <3>2, <3>3
  <2> QED
    BY <1>3, <2>1 DEF Repeats, Idle
<1>10. pc'[t] # "create" /\ renamed' = renamed /\ shown' = shown
       /\ UNCHANGED <<rows, drawn, legacy, ever, unsaved>>
  BY <1>2, <1>3
<1> QED
  BY <1>3, <1>4, <1>8, <1>9, <1>10, Reads

LEMMA RenamePlayerKeeps ==
  ASSUME Provenance, NEW t \in Threads, RenamePlayer(t)
  PROVE  Provenance'
<1>1. /\ TypeOK /\ pc[t] = "idle" /\ loc[t] = Idle /\ budget' \in Budget
  BY IdleIs, Spends DEF RenamePlayer, Edit, Provenance
<1>2. PICK old \in players, new \in Names \ players :
        /\ players' = (players \ {old}) \cup {new}
        /\ renamed' = renamed \cup {n \in Names : Alike(n, old) \/ Alike(n, new)}
        /\ loc' = [loc EXCEPT ![t].name = old, ![t].owner = new]
  BY DEF RenamePlayer
<1>3. /\ UNCHANGED <<algorithm, rows, caches, drawn, told, shown, legacy, ever, unsaved>>
      /\ Goto(t, "rename")
  BY DEF RenamePlayer
<1>4. old \in Names /\ new \in Names /\ players \subseteq Names /\ renamed \subseteq Names
  BY <1>1 DEF TypeOK
<1> DEFINE v == [Idle EXCEPT !.name = old, !.owner = new]
<1>5. v \in Local /\ loc' = [loc EXCEPT ![t] = v]
  BY <1>1, <1>2, <1>4, IdleTyped DEF Local
<1>6. v.new = {} /\ v.found = {} /\ v.name = old /\ v.owner = new
  BY DEF Idle
<1> HIDE DEF v
<1>7. /\ OneStep(t) /\ pc'[t] = "rename" /\ loc'[t] = v
      /\ pc' \in [Threads -> Steps] /\ loc' \in [Threads -> Local]
  <2>1. "rename" \in Steps
    BY DEF Steps
  <2> QED
    BY <1>1, <1>3, <1>5, <2>1, Moves
<1>0. {old, new} \subseteq renamed' /\ renamed \subseteq renamed'
  BY <1>2, <1>4 DEF Alike
<1>8. LocalOf(t)'
  BY <1>0, <1>6, <1>7, FS_EmptySet DEF LocalOf
<1>9. TypeOthers'
  <2>1. players' \subseteq Names /\ renamed' \subseteq Names
    BY <1>2, <1>4
  <2> QED
    BY <1>1, <1>3, <1>7, <2>1 DEF TypeOK, TypeOthers, Steps, Budget
<1>10. loc'[t].found = loc[t].found /\ told' = told /\ loc'[t].new = loc[t].new
  BY <1>1, <1>3, <1>6, <1>7 DEF Idle
<1>11. Repeats(t)
  BY <1>7, <1>10, RepeatsSame
<1>12. CachesSay
  BY <1>1, <1>3, CachesStay
<1>14. Closed'
  <2>1. Closed
    BY DEF Provenance, Truthful
  <2> QED
    BY <1>2, <2>1 DEF Closed, Alike
<1>13. pc'[t] # "create" /\ shown' = shown
       /\ UNCHANGED <<rows, drawn, legacy, ever, unsaved>>
  BY <1>2, <1>3, <1>7
<1> QED
  BY <1>0, <1>14, <1>7, <1>8, <1>9, <1>10, <1>11, <1>12, <1>13, Reads

LEMMA UpdateUUIDMappingKeeps ==
  ASSUME Provenance, NEW t \in Threads, UpdateUUIDMapping(t)
  PROVE  Provenance'
<1> DEFINE i == First(RowsOf(loc[t].name))
<1>1. /\ TypeOK /\ LocalOf(t) /\ loc[t] \in Local /\ pc[t] = "rename"
      /\ loc[t].found \subseteq Sayable /\ budget' \in Budget
  BY LocalIs DEF UpdateUUIDMapping
<1>2. /\ UNCHANGED <<algorithm, players, rows, drawn, told, shown, legacy, ever, unsaved, renamed>>
      /\ CachesSay
  BY <1>1, CachesStay DEF UpdateUUIDMapping, history
<1>3. /\ {loc[t].name, loc[t].owner} \subseteq renamed /\ loc[t].new = {} /\ IsFiniteSet(loc[t].new)
  BY <1>1 DEF LocalOf
<1>4. CASE Return(t)
  BY <1>1, <1>2, <1>3, <1>4, ReturnKeeps
<1>5. CASE /\ RowsOf(loc[t].name) # {} /\ loc' = [loc EXCEPT ![t].id = i] /\ Goto(t, "checkName")
  <2>0. i \in DOMAIN rows /\ Alike(rows[i].name, loc[t].name)
    BY <1>1, <1>5, FirstRow
  <2> HIDE DEF i
  <2>1. i \in DOMAIN rows /\ rows[i].name \in renamed /\ i \in Nat
    <3>1. Closed /\ rows[i].name \in Names
      BY <1>1, <2>0, RowIs DEF Provenance, Truthful
    <3>2. rows[i].name \in renamed
      BY <1>3, <2>0, <3>1 DEF Closed, Alike
    <3> QED
      BY <1>1, <2>0, <3>2 DEF TypeOK
  <2> DEFINE v == [loc[t] EXCEPT !.id = i]
  <2>2. v \in Local /\ loc' = [loc EXCEPT ![t] = v]
    BY <1>1, <1>5, <2>1 DEF Local
  <2>3. /\ v.new = loc[t].new /\ v.found = loc[t].found /\ v.name = loc[t].name /\ v.owner = loc[t].owner
        /\ v.id = i
    BY <1>1 DEF Local
  <2> HIDE DEF v
  <2>4. pc'[t] = "checkName" /\ loc'[t] = v
    BY <1>1, <1>5, <2>2, Moves DEF Steps
  <2>5. LocalOf(t)'
    BY <1>2, <1>3, <2>1, <2>3, <2>4 DEF LocalOf
  <2>6. "checkName" \in Steps /\ v.found \subseteq Sayable
    BY <1>1, <2>3 DEF Steps
  <2> QED
    BY <1>1, <1>2, <1>5, <2>2, <2>3, <2>5, <2>6, Reading
<1> QED
  BY <1>4, <1>5 DEF UpdateUUIDMapping

LEMMA CheckNameKeeps ==
  ASSUME Provenance, NEW t \in Threads, CheckName(t)
  PROVE  Provenance'
<1>1. /\ TypeOK /\ LocalOf(t) /\ loc[t] \in Local /\ pc[t] = "checkName"
      /\ loc[t].found \subseteq Sayable /\ budget' \in Budget
  BY LocalIs DEF CheckName
<1>2. /\ UNCHANGED <<algorithm, players, rows, drawn, told, shown, legacy, ever, unsaved, renamed>>
      /\ CachesSay
  BY <1>1, CachesStay DEF CheckName, history
<1>3. /\ {loc[t].name, loc[t].owner} \subseteq renamed /\ loc[t].new = {} /\ IsFiniteSet(loc[t].new)
      /\ loc[t].id \in DOMAIN rows /\ rows[loc[t].id].name \in renamed
  BY <1>1 DEF LocalOf
<1>4. CASE Return(t)
  BY <1>1, <1>2, <1>3, <1>4, ReturnKeeps
<1>5. CASE Goto(t, "saveName") /\ UNCHANGED loc
  <2>1. loc' = [loc EXCEPT ![t] = loc[t]]
    BY <1>1, <1>5 DEF TypeOK
  <2>2. pc'[t] = "saveName" /\ loc'[t] = loc[t]
    BY <1>1, <1>5, <2>1, Moves DEF Steps
  <2>3. LocalOf(t)'
    BY <1>2, <1>3, <2>2 DEF LocalOf
  <2>4. "saveName" \in Steps /\ loc[t].found \subseteq Sayable
    BY <1>1 DEF Steps
  <2> QED
    BY <1>1, <1>2, <1>5, <2>1, <2>3, <2>4, Reading
<1> QED
  BY <1>4, <1>5 DEF CheckName

LEMMA GetProfilesByNamesKeeps ==
  ASSUME Provenance, NEW t \in Threads, GetProfilesByNames(t)
  PROVE  Provenance'
<1>1. /\ TypeOK /\ pc[t] = "idle" /\ loc[t] = Idle /\ budget' \in Budget
  BY IdleIs, Spends DEF GetProfilesByNames, Call, Provenance
<1>2. /\ UNCHANGED <<algorithm, players, rows, drawn, told, shown, legacy, ever, unsaved, renamed>>
      /\ CachesSay /\ Goto(t, "batch")
  BY <1>1, CachesStay DEF GetProfilesByNames, history
<1>3. PICK ns \in SUBSET players : loc' = [loc EXCEPT ![t].todo = ns]
  BY DEF GetProfilesByNames
<1>4. ns \subseteq Names
  BY <1>1 DEF TypeOK
<1> DEFINE v == [Idle EXCEPT !.todo = ns]
<1>5. v \in Local /\ loc' = [loc EXCEPT ![t] = v]
  BY <1>1, <1>3, <1>4, IdleTyped DEF Local
<1>6. v.new = {} /\ v.found = {}
  BY DEF Idle
<1> HIDE DEF v
<1>7. pc'[t] = "batch" /\ loc'[t] = v
  BY <1>1, <1>2, <1>5, Moves DEF Steps
<1>8. LocalOf(t)'
  BY <1>6, <1>7, FS_EmptySet DEF LocalOf
<1>9. v.new = loc[t].new /\ "batch" \in Steps /\ v.found \subseteq Sayable
  BY <1>1, <1>6 DEF Idle, Steps
<1> QED
  BY <1>1, <1>2, <1>5, <1>8, <1>9, Reading

LEMMA GetUserKeeps ==
  ASSUME Provenance, NEW t \in Threads, GetUser(t)
  PROVE  Provenance'
<1>1. /\ TypeOK /\ pc[t] = "idle" /\ loc[t] = Idle /\ budget' \in Budget
  BY IdleIs, Spends DEF GetUser, Call, Provenance
<1>2. /\ UNCHANGED <<algorithm, players, rows, drawn, told, shown, legacy, ever, unsaved, renamed>>
      /\ CachesSay /\ Goto(t, "batch")
  BY <1>1, CachesStay DEF GetUser, history
<1>3. PICK ns \in SUBSET players \ {{}} :
        loc' = [loc EXCEPT ![t].todo = {n \in ns : RowsOf(n) = {}},
                           ![t].found = UNION {{Map(n, rows[i].uuid) : i \in RowsOf(n)} : n \in ns}]
  BY DEF GetUser
<1> DEFINE lacking == {n \in ns : RowsOf(n) = {}}
           found == UNION {{Map(n, rows[i].uuid) : i \in RowsOf(n)} : n \in ns}
<1>4. ns \subseteq Names
  BY <1>1 DEF TypeOK
<1>5. lacking \subseteq Names
  BY <1>4
<1>6. \A m \in found : m \in Mapping /\ m \in Sayable
  <2>1. ASSUME NEW n \in ns, NEW i \in RowsOf(n)
        PROVE  Map(n, rows[i].uuid) \in Mapping /\ Map(n, rows[i].uuid) \in Sayable
    <3>1. i \in DOMAIN rows /\ Alike(rows[i].name, n) /\ n \in Names
      BY <1>4 DEF RowsOf
    <3>2. rows[i].uuid \in Uuids /\ rows[i] \in Held'
      BY <1>1, <1>2, <3>1, RowIs
    <3>3. Map(n, rows[i].uuid) \in Mapping
      BY <3>1, <3>2 DEF Map, Mapping
    <3> QED
      BY <3>1, <3>2, <3>3, LikeSayable
  <2> QED
    BY <2>1
<1> DEFINE v == [Idle EXCEPT !.todo = lacking, !.found = found]
<1>7. loc' = [loc EXCEPT ![t] = v]
  BY <1>1, <1>3
<1> HIDE DEF lacking, found
<1>8. v \in Local
  BY <1>5, <1>6, IdleTyped DEF Local
<1>9. v.new = {} /\ v.found = found
  BY DEF Idle
<1> HIDE DEF v
<1>10. pc'[t] = "batch" /\ loc'[t] = v
  BY <1>1, <1>2, <1>7, <1>8, Moves DEF Steps
<1>11. LocalOf(t)'
  BY <1>9, <1>10, FS_EmptySet DEF LocalOf
<1>12. v.new = loc[t].new /\ "batch" \in Steps /\ v.found \subseteq Sayable
  BY <1>1, <1>6, <1>9 DEF Idle, Steps
<1> QED
  BY <1>1, <1>2, <1>7, <1>8, <1>11, <1>12, Reading

LEMMA BatchGetKeeps ==
  ASSUME Provenance, NEW t \in Threads, BatchGet(t)
  PROVE  Provenance'
<1> DEFINE x == NodeOf[t]
           c == byName[x]
<1>1. /\ TypeOK /\ LocalOf(t) /\ loc[t] \in Local /\ pc[t] = "batch" /\ x \in Nodes
      /\ loc[t].found \subseteq Sayable /\ budget' \in Budget
  BY LocalIs, NodeAssumption DEF BatchGet
<1>2. /\ UNCHANGED <<algorithm, players, rows, drawn, told, shown, legacy, ever, unsaved, renamed, byUuid>>
      /\ Goto(t, "batch")
  BY <1>1 DEF BatchGet, history, Goto, TypeOK
<1>3. PICK n \in loc[t].todo :
        \/ /\ Cached(c, n) /\ byName' = [byName EXCEPT ![x] = Get(c, n)]
           /\ loc' = [loc EXCEPT ![t].todo = @ \ {n}, ![t].found = @ \cup {Map(n, c[At(c, n)].value)}]
        \/ /\ loc' = [loc EXCEPT ![t].todo = @ \ {n}, ![t].missing = @ \cup {n}]
           /\ UNCHANGED byName
  BY DEF BatchGet
<1>4. loc[t].new = {} /\ n \in Names /\ IsFiniteSet(loc[t].new)
  BY <1>1 DEF LocalOf, Local
<1>5. ASSUME Cached(c, n), byName' = [byName EXCEPT ![x] = Get(c, n)],
             loc' = [loc EXCEPT ![t].todo = @ \ {n}, ![t].found = @ \cup {Map(n, c[At(c, n)].value)}]
      PROVE  Provenance'
  <2> DEFINE u == c[At(c, n)].value
  <2>1. CachesSay
    BY <1>1, <1>2, <1>5, NameGetSays
  <2>2. u \in Uuids /\ Map(n, u) \in Spoken
    BY <1>1, <1>5, CachedIs
  <2>3. Map(n, u) \in Mapping
    BY <1>4, <2>2 DEF Map, Mapping
  <2>4. loc' = [loc EXCEPT ![t].todo = @ \ {n}, ![t].found = @ \cup {Map(n, u)}]
    BY <1>5
  <2> HIDE DEF u, c
  <2> DEFINE v == [loc[t] EXCEPT !.todo = loc[t].todo \ {n}, !.found = loc[t].found \cup {Map(n, u)}]
  <2>5. v \in Local /\ loc' = [loc EXCEPT ![t] = v]
    BY <1>1, <2>3, <2>4 DEF Local
  <2>6. v.new = loc[t].new /\ v.found = loc[t].found \cup {Map(n, u)}
    BY <1>1 DEF Local
  <2> HIDE DEF v
  <2>7. pc'[t] = "batch" /\ loc'[t] = v
    BY <1>1, <1>2, <2>5, Moves DEF Steps
  <2>8. LocalOf(t)'
    BY <1>4, <2>6, <2>7 DEF LocalOf
  <2>9. "batch" \in Steps /\ v.found \subseteq Sayable
    BY <1>1, <2>2, <2>6, SayableHas DEF Steps
  <2> QED
    BY <1>1, <1>2, <2>1, <2>5, <2>6, <2>8, <2>9, Reading
<1>6. ASSUME loc' = [loc EXCEPT ![t].todo = @ \ {n}, ![t].missing = @ \cup {n}], UNCHANGED byName
      PROVE  Provenance'
  <2>1. CachesSay
    BY <1>1, <1>2, <1>6, CachesStay DEF caches
  <2> DEFINE v == [loc[t] EXCEPT !.todo = loc[t].todo \ {n}, !.missing = loc[t].missing \cup {n}]
  <2>2. v \in Local /\ loc' = [loc EXCEPT ![t] = v]
    BY <1>1, <1>4, <1>6 DEF Local
  <2>3. v.new = loc[t].new /\ v.found = loc[t].found
    BY <1>1 DEF Local
  <2> HIDE DEF v
  <2>4. pc'[t] = "batch" /\ loc'[t] = v
    BY <1>1, <1>2, <2>2, Moves DEF Steps
  <2>5. LocalOf(t)'
    BY <1>4, <2>3, <2>4 DEF LocalOf
  <2>6. "batch" \in Steps /\ v.found \subseteq Sayable
    BY <1>1, <2>3 DEF Steps
  <2> QED
    BY <1>1, <1>2, <2>1, <2>2, <2>3, <2>5, <2>6, Reading
<1> QED
  BY <1>3, <1>5, <1>6

\* What is drawn stays drawn.
LEMMA GeneratedIs ==
  ASSUME TypeOK, NEW ns, NEW x, NEW gen \in [ns -> Uuids], Generated(x, ns, gen)
  PROVE  drawn \subseteq drawn' /\ drawn' \subseteq Uuids
BY DEF Generated, TypeOK

LEMMA FindOrGenerateKeeps ==
  ASSUME Provenance, NEW t \in Threads, FindOrGenerate(t)
  PROVE  Provenance'
<1> DEFINE n == loc[t].asked
           p == loc[t].name
           i == First(RowsOf(n))
<1>1. /\ TypeOK /\ LocalOf(t) /\ loc[t] \in Local /\ pc[t] = "first" /\ NodeOf[t] \in Nodes
      /\ loc[t].found \subseteq Sayable /\ budget' \in Budget
  BY LocalIs, NodeAssumption DEF FindOrGenerate
<1>2. UNCHANGED <<algorithm, players, rows, budget, told, shown, legacy, ever, unsaved, renamed>>
  BY DEF FindOrGenerate, history
<1>3. n \in Names /\ p \in Names /\ Alike(n, p) /\ loc[t].new = {} /\ loc[t].owner = None /\ IsFiniteSet(loc[t].new)
  BY <1>1 DEF LocalOf
<1>4. CASE /\ RowsOf(n) # {} /\ loc' = [loc EXCEPT ![t].uuid = rows[i].uuid]
           /\ PutMapping(NodeOf[t], rows[i]) /\ Goto(t, "textures") /\ UNCHANGED drawn
  <2>1. i \in DOMAIN rows /\ Alike(rows[i].name, n)
    BY <1>1, <1>4, FirstRow
  <2> HIDE DEF i
  <2>2. /\ rows[i] \in Mapping /\ rows[i].uuid \in Uuids /\ rows[i] \in Held'
        /\ Map(p, rows[i].uuid) \in Sayable
    <3>1. /\ rows[i] \in Mapping /\ rows[i].uuid \in Uuids /\ rows[i] \in Held'
      BY <1>1, <1>2, <2>1, RowIs
    <3>2. Alike(rows[i].name, p)
      BY <1>3, <2>1 DEF Alike
    <3> HIDE DEF n, p
    <3> QED
      BY <1>3, <3>1, <3>2, LikeSayable
  <2>3. CachesSay
    BY <1>1, <1>4, <2>2, PutSays
  <2> DEFINE v == [loc[t] EXCEPT !.uuid = rows[i].uuid]
  <2>4. v \in Local /\ loc' = [loc EXCEPT ![t] = v]
    BY <1>1, <1>4, <2>2 DEF Local
  <2>5. /\ v.new = loc[t].new /\ v.found = loc[t].found /\ v.name = p /\ v.uuid = rows[i].uuid
        /\ v.owner = loc[t].owner
    BY <1>1 DEF Local
  <2> HIDE DEF v
  <2>6. pc'[t] = "textures" /\ loc'[t] = v
    BY <1>1, <1>4, <2>4, Moves DEF Steps
  <2>7. LocalOf(t)'
    BY <1>3, <2>2, <2>5, <2>6 DEF LocalOf
  <2>8. "textures" \in Steps /\ v.found \subseteq Sayable /\ Map(v.name, v.uuid) \in Sayable
    BY <1>1, <2>2, <2>5 DEF Steps
  <2> QED
    BY <1>1, <1>2, <1>4, <2>3, <2>4, <2>5, <2>7, <2>8, Reading
<1>5. ASSUME NEW u \in Uuids, Generated(NodeOf[t], {n}, [m \in {n} |-> u]),
             loc' = [loc EXCEPT ![t].uuid = u], Goto(t, "create"), UNCHANGED caches
      PROVE  Provenance'
  <2> DEFINE gen == [m \in {n} |-> u]
             F == {Map(m, gen[m]) : m \in {n}}
             v == [loc[t] EXCEPT !.uuid = u]
  <2>1. drawn \subseteq drawn' /\ drawn' \subseteq Uuids
    <3>1. gen \in [{n} -> Uuids]
      OBVIOUS
    <3> QED
      BY <1>1, <1>5, <3>1, GeneratedIs
  <2>2. Map(n, u) \in F
    OBVIOUS
  <2>3. Generated(NodeOf[t], {n}, gen) /\ {n} \in SUBSET Names
    BY <1>3, <1>5
  <2>4. v \in Local /\ loc' = [loc EXCEPT ![t] = v]
    BY <1>1, <1>5 DEF Local
  <2>5. /\ v.new = loc[t].new /\ v.found = loc[t].found /\ v.name = p /\ v.asked = n /\ v.uuid = u
        /\ v.owner = loc[t].owner
    BY <1>1 DEF Local
  <2> HIDE DEF v, gen, F
  <2>6. /\ OneStep(t) /\ pc'[t] = "create" /\ loc'[t] = v
        /\ pc' \in [Threads -> Steps] /\ loc' \in [Threads -> Local]
    BY <1>1, <1>5, <2>4, Moves DEF Steps
  <2>7. LocalOf(t)'
    BY <1>3, <2>5, <2>6 DEF LocalOf
  <2>8. Grows
    <3>1. RowsGrow /\ Histories /\ Settles(t)
      BY <1>2, <2>1, <2>5, <2>6 DEF RowsGrow, Histories, Settles, Provenance, Truthful
    <3> QED
      BY <2>6, <3>1, GrowsOne
  <2>9. Known' \cup Pending' \subseteq Known \cup Pending \cup F
    <3>1. ever' \cup unsaved' \cup loc'[t].new \subseteq Known \cup Pending \cup F
      BY <1>2, <1>3, <2>5, <2>6 DEF Known, Batched
    <3>2. Map(loc'[t].asked, loc'[t].uuid) \in F
      BY <2>2, <2>5, <2>6
    <3> QED
      BY <2>6, <3>1, <3>2, NewsOne
  <2>10. Derived' /\ Apart'
    <3>1. Known' \cup Pending' \subseteq Known \cup Pending \cup {Map(m, gen[m]) : m \in {n}}
      BY <2>9 DEF F
    <3> QED
      BY <1>1, <2>3, <2>8, <3>1, FreshOnes DEF Provenance
  <2>11. TypeOthers'
    BY <1>1, <1>2, <2>1, <2>6 DEF TypeOK, TypeOthers, Steps
  <2>12. CachesSay
    BY <1>1, <1>5, CachesStay
  <2>13. Repeats(t)
    BY <1>2, <2>5, <2>6, RepeatsSame
  <2>14. TexturesOwn'
    BY <1>2, <2>8, ShownStay DEF Provenance
  <2> QED
    BY <2>6, <2>7, <2>8, <2>10, <2>11, <2>12, <2>13, <2>14, Assemble
<1> QED
  BY <1>4, <1>5 DEF FindOrGenerate

\* A new row: what a request or a batch inserts was pending or generated before.
LEMMA CreateKeeps ==
  ASSUME Provenance, NEW t \in Threads, Create(t)
  PROVE  Provenance'
<1> DEFINE m == Map(loc[t].asked, loc[t].uuid)
<1>1. /\ TypeOK /\ LocalOf(t) /\ loc[t] \in Local /\ pc[t] = "create" /\ NodeOf[t] \in Nodes
      /\ loc[t].found \subseteq Sayable
  BY LocalIs, NodeAssumption DEF Create
<1>2. /\ UNCHANGED <<algorithm, players, drawn, told, shown, legacy, unsaved, renamed>>
      /\ loc[t].new = {} /\ loc[t].owner = None /\ loc[t].name \in Names /\ loc[t].uuid \in Uuids
      /\ loc[t].asked \in Names /\ Alike(loc[t].asked, loc[t].name)
      /\ IsFiniteSet(loc[t].new)
  BY <1>1 DEF Create, LocalOf
<1>3. m \in Mapping /\ m \in Pending /\ m.name = loc[t].asked /\ m.uuid = loc[t].uuid
  BY <1>1, <1>2 DEF Map, Mapping, Pending
<1>4. CASE /\ rows' = Append(rows, m) /\ ever' = ever \cup {m} /\ PutMapping(NodeOf[t], m)
           /\ Goto(t, "textures") /\ UNCHANGED <<loc, budget>>
  <2> HIDE DEF m
  <2>1. rows \in Seq(Mapping) /\ ever \subseteq Mapping
    BY <1>1 DEF TypeOK
  <2>2. /\ rows' \in Seq(Mapping) /\ DOMAIN rows' = 1 .. Len(rows) + 1 /\ DOMAIN rows = 1 .. Len(rows)
        /\ Len(rows) \in Nat
        /\ \A i \in 1 .. Len(rows) : rows'[i] = rows[i]
        /\ rows'[Len(rows) + 1] = m
    BY <1>3, <1>4, <2>1
  <2>3. loc' = [loc EXCEPT ![t] = loc[t]]
    BY <1>1, <1>4 DEF TypeOK
  <2>4. /\ OneStep(t) /\ pc'[t] = "textures" /\ loc'[t] = loc[t]
        /\ pc' \in [Threads -> Steps] /\ loc' \in [Threads -> Local]
    BY <1>1, <1>4, <2>3, Moves DEF Steps
  <2>5. LocalOf(t)'
    BY <1>2, <2>4 DEF LocalOf
  <2>6. m \in Held'
    BY <2>2 DEF Held
  <2>7. CachesSay
    BY <1>1, <1>3, <1>4, <2>6, PutSays
  <2>8. RowsGrow
    <3>1. \A i \in DOMAIN rows : rows[i] \in ever
      BY DEF Provenance, Truthful
    <3>2. ASSUME NEW i \in DOMAIN rows' PROVE rows'[i] \in ever'
      BY <1>4, <2>2, <3>1
    <3> QED
      BY <2>2, <3>2 DEF RowsGrow
  <2>9. Grows
    <3>1. Histories /\ Settles(t)
      BY <1>2, <1>4, <2>4 DEF Histories, Settles
    <3> QED
      BY <2>4, <2>8, <3>1, GrowsOne
  <2>10. Known' \cup Pending' \subseteq Known \cup Pending \cup {}
    <3>1. ever' \cup unsaved' \cup loc'[t].new \subseteq Known \cup Pending \cup {}
      BY <1>2, <1>3, <1>4, <2>4 DEF Known, Batched
    <3> QED
      BY <2>4, <3>1, NewsOne
  <2>11. Derived' /\ Apart'
    BY <1>2, <2>9, <2>10, NoneFresh DEF Provenance
  <2>12. TypeOthers'
    <3>1. ever' \subseteq Mapping
      BY <1>3, <1>4, <2>1
    <3> QED
      BY <1>1, <1>2, <1>4, <2>2, <2>4, <3>1 DEF TypeOK, TypeOthers, Steps
  <2>13. Repeats(t)
    <3>1. Map(loc'[t].name, loc'[t].uuid) \in Sayable
      BY <1>2, <1>3, <2>4, <2>6, LikeSayable
    <3> QED
      BY <1>2, <2>4, <3>1, RepeatsSame
  <2>14. TexturesOwn'
    BY <1>2, <2>9, ShownStay DEF Provenance
  <2> QED
    BY <2>4, <2>5, <2>7, <2>9, <2>11, <2>12, <2>13, <2>14, Assemble
<1>5. CASE Fault /\ Return(t) /\ UNCHANGED <<rows, caches, ever>>
  <2>1. budget' \in Budget
    BY <1>1, <1>5, Spends DEF Fault
  <2>2. CachesSay
    BY <1>1, <1>5, CachesStay
  <2> QED
    BY <1>2, <1>5, <2>1, <2>2, ReturnKeeps
<1> QED
  BY <1>4, <1>5 DEF Create

LEMMA SaveNameKeeps ==
  ASSUME Provenance, NEW t \in Threads, SaveName(t)
  PROVE  Provenance'
<1> DEFINE id == loc[t].id
           o == loc[t].owner
           r == rows[id]
           k == [r EXCEPT !.name = o]
<1>1. /\ TypeOK /\ LocalOf(t) /\ loc[t] \in Local /\ pc[t] = "saveName" /\ budget \in Budget
  BY LocalIs DEF SaveName
<1>2. /\ UNCHANGED <<algorithm, players, caches, drawn, budget, told, shown, legacy, unsaved, renamed>>
      /\ rows' = [rows EXCEPT ![id] = k] /\ ever' = ever \cup {rows'[id]} /\ Return(t)
  BY DEF SaveName
<1>3. id \in DOMAIN rows /\ r.name \in renamed /\ o \in renamed /\ loc[t].new = {}
  BY <1>1 DEF LocalOf
<1>4. /\ rows \in Seq(Mapping) /\ ever \subseteq Mapping /\ renamed \subseteq Names
      /\ r \in Mapping /\ r \in ever /\ r = Map(r.name, r.uuid)
  BY <1>1, <1>3, RowIs DEF TypeOK, Provenance, Truthful
<1>5. k \in Mapping /\ k.name = o /\ k.uuid = r.uuid /\ k = Map(o, r.uuid)
  BY <1>3, <1>4 DEF Mapping, Map
<1>6. /\ rows' \in Seq(Mapping) /\ DOMAIN rows' = DOMAIN rows
      /\ \A i \in DOMAIN rows : rows'[i] = IF i = id THEN k ELSE rows[i]
  BY <1>2, <1>3, <1>4, <1>5
<1>7. ever' = ever \cup {k} /\ rows'[id] = k
  BY <1>2, <1>3, <1>6
<1>8. /\ OneStep(t) /\ pc'[t] = "idle" /\ loc'[t] = Idle /\ loc'[t].new = {}
      /\ pc' \in [Threads -> Steps] /\ loc' \in [Threads -> Local] /\ LocalOf(t)'
  BY <1>1, <1>2, Returns
<1>9. r \in Known
  BY <1>4 DEF Known
<1> HIDE DEF k, r
<1>10. RowsGrow
  <2>1. ASSUME NEW i \in DOMAIN rows
        PROVE  rows'[i] = rows[i] \/ {rows[i].name, rows'[i].name} \subseteq renamed'
    <3>1. CASE i = id
      BY <1>2, <1>3, <1>5, <1>7, <3>1 DEF r
    <3>2. CASE i # id
      BY <1>6, <3>2
    <3> QED
      BY <3>1, <3>2
  <2>2. ASSUME NEW i \in DOMAIN rows' PROVE rows'[i] \in ever'
    <3>1. rows[i] \in ever
      BY <1>6 DEF Provenance, Truthful
    <3> QED
      BY <1>6, <1>7, <3>1
  <2> QED
    BY <1>6, <2>1, <2>2 DEF RowsGrow
<1>11. Grows
  <2>1. Histories /\ Settles(t)
    BY <1>2, <1>3, <1>7 DEF Histories, Settles
  <2> QED
    BY <1>8, <1>10, <2>1, GrowsOne
<1>12. Known' \cup Pending' \subseteq Known \cup Pending \cup {k}
  <2>1. ever' \cup unsaved' \cup loc'[t].new \subseteq Known \cup Pending \cup {k}
    BY <1>2, <1>7, <1>8 DEF Known, Batched
  <2> QED
    BY <1>8, <2>1, NewsOne
<1>13. /\ legacy' = legacy /\ LegacyUuids' = LegacyUuids /\ drawn' = drawn /\ renamed' = renamed
  BY <1>2 DEF LegacyUuids
<1>14. Derived'
  <2>1. SUFFICES ASSUME NEW m \in Known' \cup Pending'
                 PROVE  \/ m.uuid = V3[m.name] \/ m.uuid \in drawn \/ m \in legacy
                        \/ /\ m \in ever' /\ m.name \in renamed
                           /\ \/ m.uuid \in LegacyUuids
                              \/ \E p \in renamed : V3[p] = m.uuid /\ Map(p, m.uuid) \in ever'
    BY <1>13 DEF Derived
  <2>2. CASE m \in Known \cup Pending
    BY <1>7, <2>1, <2>2 DEF Provenance, Derived
  <2>3. CASE m = k
    <3>1. \/ r.uuid \in drawn \/ r.uuid \in LegacyUuids
          \/ \E p \in renamed : V3[p] = r.uuid /\ Map(p, r.uuid) \in ever
      <4>1. \A l \in legacy : l.uuid \in LegacyUuids
        BY DEF LegacyUuids
      <4> QED
        BY <1>3, <1>4, <1>9, <4>1 DEF Provenance, Derived
    <3> QED
      BY <1>3, <1>5, <1>7, <2>3, <3>1
  <2> QED
    BY <1>12, <2>2, <2>3
<1>15. Apart'
  <2>1. Apart
    BY DEF Provenance
  <2>3. ASSUME NEW m \in Known \cup Pending, m.uuid = k.uuid, m.name # k.name
        PROVE  m.uuid \in LegacyUuids \/ (m \in ever /\ m.name \in renamed)
    <3>1. m \in Mapping
      BY <1>1, KnownTyped DEF Provenance
    <3>2. CASE m.name = r.name
      <4>1. m = r
        BY <1>4, <1>5, <2>3, <3>1, <3>2 DEF Mapping
      <4> QED
        BY <1>3, <1>4, <4>1
    <3>3. CASE m.name # r.name
      BY <1>5, <1>9, <2>1, <2>3, <3>3 DEF Apart
    <3> QED
      BY <3>2, <3>3
  <2>4. k \in ever' /\ k.name \in renamed
    BY <1>3, <1>5, <1>7
  <2>5. ASSUME NEW m \in Known' \cup Pending', NEW j \in Known' \cup Pending',
               m.uuid = j.uuid, m.name # j.name
        PROVE  \/ m.uuid \in LegacyUuids
               \/ {m, j} \subseteq ever' /\ {m.name, j.name} \subseteq renamed
    <3>1. CASE m \in Known \cup Pending /\ j \in Known \cup Pending
      BY <1>7, <2>1, <2>5, <3>1 DEF Apart
    <3>2. CASE m = k /\ j \in Known \cup Pending
      BY <1>7, <2>3, <2>4, <2>5, <3>2
    <3>3. CASE j = k /\ m \in Known \cup Pending
      BY <1>7, <2>3, <2>4, <2>5, <3>3
    <3> QED
      BY <1>12, <2>5, <3>1, <3>2, <3>3
  <2>6. drawn \cap (LegacyUuids \cup {V3[n] : n \in Names}) = {}
    BY <2>1 DEF Apart
  <2> QED
    BY <1>13, <2>5, <2>6 DEF Apart
<1>16. TypeOthers'
  <2>1. ever' \subseteq Mapping
    BY <1>4, <1>5, <1>7
  <2> QED
    BY <1>1, <1>2, <1>6, <1>8, <2>1 DEF TypeOK, TypeOthers, Steps
<1>17. CachesSay
  BY <1>1, <1>2, CachesStay
<1>18. Repeats(t)
  <2>1. \A m \in Mapping : m.uuid \in told[m.name] => m \in Sayable
    BY SpokenIs, SayableHas
  <2> QED
    BY <1>2, <1>8, <2>1 DEF Repeats, Idle
<1>19. TexturesOwn'
  BY <1>2, <1>11, ShownStay DEF Provenance
<1> QED
  BY <1>8, <1>11, <1>14, <1>15, <1>16, <1>17, <1>18, <1>19, Assemble

LEMMA BatchInsertKeeps ==
  ASSUME Provenance, NEW t \in Threads, BatchInsert(t)
  PROVE  Provenance'
<1> DEFINE new == loc[t].new
<1>1. /\ TypeOK /\ LocalOf(t) /\ loc[t] \in Local /\ pc[t] = "batch"
      /\ loc[t].found \subseteq Sayable /\ budget \in Budget
  BY LocalIs DEF BatchInsert
<1>2. /\ UNCHANGED <<algorithm, players, caches, pc, drawn, told, shown, legacy, renamed>>
      /\ loc' = [loc EXCEPT ![t].new = {}]
  BY DEF BatchInsert
<1>3. IsFiniteSet(new) /\ new \subseteq Mapping
  BY <1>1 DEF LocalOf, Local
<1>4. rows \in Seq(Mapping) /\ ever \subseteq Mapping /\ unsaved \subseteq Mapping
  BY <1>1 DEF TypeOK
<1> DEFINE v == [loc[t] EXCEPT !.new = {}]
<1>5. v \in Local /\ loc' = [loc EXCEPT ![t] = v] /\ Goto(t, "batch")
  BY <1>1, <1>2 DEF Local, Goto, TypeOK
<1>6. v.new = {} /\ v.found = loc[t].found
  BY <1>1 DEF Local
<1> HIDE DEF v
<1>7. /\ OneStep(t) /\ pc'[t] = "batch" /\ loc'[t] = v
      /\ pc' \in [Threads -> Steps] /\ loc' \in [Threads -> Local]
  BY <1>1, <1>5, Moves DEF Steps
<1>8. LocalOf(t)'
  BY <1>6, <1>7, FS_EmptySet DEF LocalOf
<1>9. CachesSay
  BY <1>1, <1>2, CachesStay
<1>10. Repeats(t)
  BY <1>2, <1>6, <1>7, RepeatsSame
<1>11. ASSUME Settles(t), RowsGrow, ever \subseteq ever', unsaved \subseteq unsaved',
              ever' \cup unsaved' \subseteq ever \cup unsaved \cup new,
              rows' \in Seq(Mapping), budget' \in Budget
       PROVE  Provenance'
  <2>1. Grows
    <3>1. Histories
      BY <1>2, <1>11 DEF Histories
    <3> QED
      BY <1>7, <1>11, <3>1, GrowsOne
  <2>2. Known' \cup Pending' \subseteq Known \cup Pending \cup {}
    <3>1. ever' \cup unsaved' \cup loc'[t].new \subseteq Known \cup Pending \cup {}
      BY <1>6, <1>7, <1>11 DEF Known, Batched
    <3> QED
      BY <1>7, <3>1, NewsOne
  <2>3. Derived' /\ Apart'
    BY <1>2, <2>1, <2>2, NoneFresh DEF Provenance
  <2>4. TypeOthers'
    <3>1. ever' \subseteq Mapping /\ unsaved' \subseteq Mapping
      BY <1>3, <1>4, <1>11
    <3> QED
      BY <1>1, <1>2, <1>7, <1>11, <3>1 DEF TypeOK, TypeOthers, Steps, Budget
  <2>5. TexturesOwn'
    BY <1>2, <2>1, ShownStay DEF Provenance
  <2> QED
    BY <1>7, <1>8, <1>9, <1>10, <2>1, <2>3, <2>4, <2>5, Assemble
<1>12. \A i \in DOMAIN rows : rows[i] \in ever
  BY DEF Provenance, Truthful
<1>13. ASSUME NEW s \in Orders(new), rows' = rows \o s, ever' = ever \cup new, UNCHANGED <<budget, unsaved>>
       PROVE  Provenance'
  <2>1. s \in Seq(new) /\ new = {s[i] : i \in DOMAIN s}
    BY <1>3, OrdersAre
  <2> HIDE DEF new
  <2>2. s \in Seq(Mapping) /\ DOMAIN s = 1 .. Len(s) /\ Len(s) \in Nat
    BY <1>3, <2>1
  <2>3. \A i \in DOMAIN s : s[i] \in new
    BY <2>1, ElementOf
  <2>4. /\ rows' \in Seq(Mapping) /\ DOMAIN rows' = 1 .. Len(rows) + Len(s)
        /\ DOMAIN rows = 1 .. Len(rows) /\ Len(rows) \in Nat
        /\ \A i \in 1 .. Len(rows) : rows'[i] = rows[i]
        /\ \A i \in 1 .. Len(rows) + Len(s) : i > Len(rows) => i - Len(rows) \in DOMAIN s /\ rows'[i] = s[i - Len(rows)]
        /\ \A i \in 1 .. Len(s) : Len(rows) + i \in DOMAIN rows' /\ rows'[Len(rows) + i] = s[i]
    BY <1>4, <1>13, <2>2
  <2>5. RowsGrow
    <3>1. ASSUME NEW i \in DOMAIN rows' PROVE rows'[i] \in ever'
      BY <1>12, <1>13, <2>3, <2>4
    <3>2. \A i \in DOMAIN rows : i \in DOMAIN rows' /\ rows'[i] = rows[i]
      BY <2>2, <2>4
    <3> QED
      BY <3>1, <3>2 DEF RowsGrow
  <2>6. Settles(t)
    <3>1. ASSUME NEW m \in new PROVE m \in ever' /\ \E i \in DOMAIN rows' : rows'[i] = m
      <4>1. PICK i \in DOMAIN s : s[i] = m
        BY <2>1
      <4> QED
        BY <1>13, <2>2, <2>4, <4>1
    <3> QED
      BY <3>1 DEF Settles, new
  <2> QED
    BY <1>1, <1>11, <1>13, <2>4, <2>5, <2>6
<1>14. ASSUME Fault, unsaved' = unsaved \cup new, UNCHANGED <<rows, ever>>
       PROVE  Provenance'
  <2>1. budget' \in Budget
    BY <1>1, <1>14, Spends DEF Fault
  <2>2. RowsGrow /\ Settles(t)
    BY <1>12, <1>14 DEF RowsGrow, Settles
  <2> QED
    BY <1>4, <1>11, <1>14, <2>1, <2>2
<1> QED
  BY <1>13, <1>14 DEF BatchInsert

\* A function of a finite set gives finitely many mappings.
LEMMA FewNew ==
  ASSUME NEW ns, IsFiniteSet(ns), NEW gen
  PROVE  IsFiniteSet({Map(n, gen[n]) : n \in ns})
<1> DEFINE S == {Map(n, gen[n]) : n \in ns}
           f == [n \in ns |-> Map(n, gen[n])]
<1>1. f \in [ns -> S]
  OBVIOUS
<1>2. \A m \in S : \E n \in ns : f[n] = m
  OBVIOUS
<1> HIDE DEF f, S
<1>3. f \in Surjection(ns, S)
  BY <1>1, <1>2 DEF Surjection
<1>4. IsFiniteSet(S)
  BY <1>3, FS_Surjection
<1> QED
  BY <1>4 DEF S

LEMMA BatchFindKeeps ==
  ASSUME Provenance, NEW t \in Threads, BatchFind(t)
  PROVE  Provenance'
<1> DEFINE missing == loc[t].missing
           found == loc[t].found
           lacking == {n \in missing : \A i \in DOMAIN rows : rows[i].name # n}
           ids == UNION {RowsOf(n) : n \in missing}
<1>1. /\ TypeOK /\ LocalOf(t) /\ loc[t] \in Local /\ pc[t] = "batch" /\ NodeOf[t] \in Nodes
      /\ loc[t].found \subseteq Sayable /\ budget \in Budget
  BY LocalIs, NodeAssumption DEF BatchFind
<1>2. /\ UNCHANGED <<algorithm, players, rows, pc, budget, told, shown, legacy, ever, unsaved, renamed>>
      /\ missing # {} /\ loc[t].todo = {}
  BY DEF BatchFind, history
<1>3. PICK met \in Orders(ids), gen \in [lacking -> Uuids], order \in Orders(lacking) :
        LET seen == {rows[met[i]] : i \in {i \in DOMAIN met :
                       \A j \in DOMAIN met : j > i => rows[met[j]].name # rows[met[i]].name}}
            new == {Map(n, gen[n]) : n \in lacking}
        IN
        /\ Generated(NodeOf[t], lacking, gen)
        /\ PutMappings(NodeOf[t], [i \in DOMAIN met |-> rows[met[i]]]
                                  \o [i \in DOMAIN order |-> Map(order[i], gen[order[i]])])
        /\ loc' = [loc EXCEPT ![t].missing = {}, ![t].new = new,
                    ![t].found = {f \in found : \A h \in seen : h.name # f.name} \cup new
                                 \cup {h \in seen : h.name \in missing \cup {f.name : f \in found}}]
  BY Zenon DEF BatchFind
<1> DEFINE new == {Map(n, gen[n]) : n \in lacking}
           seen == {rows[met[i]] : i \in {i \in DOMAIN met :
                      \A j \in DOMAIN met : j > i => rows[met[j]].name # rows[met[i]].name}}
           kept == {f \in found : \A h \in seen : h.name # f.name} \cup new
                     \cup {h \in seen : h.name \in missing \cup {f.name : f \in found}}
           a == [i \in DOMAIN met |-> rows[met[i]]]
           b == [i \in DOMAIN order |-> Map(order[i], gen[order[i]])]
           v == [loc[t] EXCEPT !.missing = {}, !.new = new, !.found = kept]
<1>4. /\ Generated(NodeOf[t], lacking, gen) /\ PutMappings(NodeOf[t], a \o b)
      /\ loc' = [loc EXCEPT ![t].missing = {}, ![t].new = new, ![t].found = kept]
  BY <1>3
<1>5. loc' = [loc EXCEPT ![t] = v]
  BY <1>1, <1>4
<1>6. loc[t].new = {} /\ missing \subseteq Names /\ rows \in Seq(Mapping)
  BY <1>1, <1>2 DEF LocalOf, Local, TypeOK
<1>7. lacking \subseteq Names /\ IsFiniteSet(lacking) /\ IsFiniteSet(ids) /\ ids \subseteq DOMAIN rows
  <2>1. IsFiniteSet(DOMAIN rows)
    <3>1. DOMAIN rows = 1 .. Len(rows) /\ Len(rows) \in Nat
      BY <1>6
    <3> QED
      BY <3>1, FS_Interval
  <2>2. lacking \subseteq Names
    BY <1>6
  <2>3. ids \subseteq DOMAIN rows
    BY DEF RowsOf
  <2> QED
    BY <2>1, <2>2, <2>3, FS_Subset, NamesAssumption
<1>8. met \in Seq(ids) /\ order \in Seq(lacking)
  <2> HIDE DEF ids, lacking
  <2> QED
    BY <1>3, <1>7, OrdersAre
<1>9. \A i \in DOMAIN met : met[i] \in DOMAIN rows
  <2> HIDE DEF ids
  <2> QED
    BY <1>7, <1>8, ElementOf
<1>10. \A i \in DOMAIN order : order[i] \in lacking
  <2> HIDE DEF lacking
  <2> QED
    BY <1>8, ElementOf
<1>11. /\ \A n \in lacking : Map(n, gen[n]) \in Mapping /\ Map(n, gen[n]) \in new
       /\ new \subseteq Mapping
  <2>1. \A n \in lacking : n \in Names /\ gen[n] \in Uuids
    BY <1>3, <1>7
  <2>2. \A n \in lacking : Map(n, gen[n]) \in Mapping
    BY <2>1 DEF Map, Mapping
  <2> QED
    BY <2>2
<1>12. /\ seen \subseteq Mapping /\ \A m \in seen : m \in Held'
       /\ \A i \in DOMAIN met : rows[met[i]] \in Mapping /\ rows[met[i]] \in Held'
  <2>1. \A i \in DOMAIN met : rows[met[i]] \in Mapping /\ rows[met[i]] \in Held'
    BY <1>1, <1>2, <1>9, RowIs
  <2> QED
    BY <2>1
<1>13. IsFiniteSet(new)
  <2> HIDE DEF lacking
  <2> QED
    BY <1>7, FewNew
<1>14. drawn \subseteq drawn' /\ drawn' \subseteq Uuids
  <2> HIDE DEF lacking
  <2> QED
    BY <1>1, <1>3, <1>4, GeneratedIs
<1>15. \A i \in DOMAIN a : a[i] = rows[met[i]]
  OBVIOUS
<1>16. \A i \in DOMAIN b : b[i] = Map(order[i], gen[order[i]])
  OBVIOUS
<1>17. a \in Seq(Mapping) /\ DOMAIN a = DOMAIN met
  BY <1>8, <1>12
<1>18. b \in Seq(Mapping) /\ DOMAIN b = DOMAIN order
  <2> HIDE DEF lacking
  <2>1. DOMAIN order = 1 .. Len(order) /\ Len(order) \in Nat
    BY <1>8
  <2>2. \A i \in DOMAIN order : Map(order[i], gen[order[i]]) \in Mapping
    BY <1>10, <1>11
  <2> QED
    BY <2>1, <2>2
<1>19. \A i \in DOMAIN b : b[i] \in new
  BY <1>10, <1>11
<1>0. kept \subseteq found \cup seen \cup new
  OBVIOUS
<1> HIDE DEF a, b, lacking, new, seen, ids, missing, kept
<1>20. v \in Local
  <2>1. kept \subseteq Mapping
    BY <1>0, <1>1, <1>11, <1>12 DEF Local
  <2> QED
    BY <1>1, <1>11, <2>1 DEF Local
<1>21. v.new = new /\ v.found = kept /\ v.todo = {} /\ v.missing = {}
  BY <1>1, <1>2 DEF Local
<1> HIDE DEF v
<1>22. /\ OneStep(t) /\ pc'[t] = "batch" /\ loc'[t] = v
       /\ pc' \in [Threads -> Steps] /\ loc' \in [Threads -> Local]
  <2>1. Goto(t, "batch") /\ "batch" \in Steps
    BY <1>1, <1>2 DEF Goto, TypeOK, Steps
  <2> QED
    BY <1>1, <1>5, <1>20, <2>1, Moves
<1>23. LocalOf(t)'
  BY <1>13, <1>21, <1>22 DEF LocalOf
<1>24. Grows
  <2>1. RowsGrow /\ Histories /\ Settles(t)
    BY <1>2, <1>6, <1>14 DEF RowsGrow, Histories, Settles, Provenance, Truthful
  <2> QED
    BY <1>22, <2>1, GrowsOne
<1>25. new \subseteq Held'
  <2>1. \A m \in loc'[t].new : m \in Held'
    BY DEF Held, Batched
  <2> QED
    BY <1>21, <1>22, <2>1
<1>26. CachesSay
  <2>1. a \o b \in Seq(Mapping) /\ \A i \in DOMAIN (a \o b) : (a \o b)[i] \in Held'
    <3>1. \A i \in DOMAIN a : a[i] \in Held'
      BY <1>12, <1>15, <1>17
    <3>2. \A i \in DOMAIN b : b[i] \in Held'
      BY <1>19, <1>25
    <3> HIDE DEF Held
    <3> QED
      BY <1>17, <1>18, <3>1, <3>2
  <2> QED
    BY <1>1, <1>4, <2>1, PutsSay
<1>27. Repeats(t)
  <2>1. \A m \in Mapping : m.uuid \in told[m.name] => m \in Sayable
    BY SpokenIs, SayableHas
  <2>2. loc'[t].found \subseteq Sayable
    BY <1>0, <1>1, <1>12, <1>21, <1>22, <1>25, SayableHas
  <2> QED
    BY <1>2, <1>22, <2>1, <2>2 DEF Repeats
<1>28. Known' \cup Pending' \subseteq Known \cup Pending \cup new
  <2>1. ever' \cup unsaved' \cup loc'[t].new \subseteq Known \cup Pending \cup new
    BY <1>2, <1>21, <1>22 DEF Known, Batched
  <2> QED
    BY <1>22, <2>1, NewsOne
<1>29. Derived' /\ Apart'
  <2>1. Known' \cup Pending' \subseteq Known \cup Pending \cup {Map(n, gen[n]) : n \in lacking}
    BY <1>28 DEF new
  <2> QED
    BY <1>1, <1>4, <1>7, <1>24, <2>1, FreshOnes DEF Provenance
<1>30. TypeOthers'
  BY <1>1, <1>2, <1>14, <1>22 DEF TypeOK, TypeOthers, Steps
<1>31. TexturesOwn'
  BY <1>2, <1>24, ShownStay DEF Provenance
<1> QED
  BY <1>22, <1>23, <1>24, <1>26, <1>27, <1>29, <1>30, <1>31, Assemble

-----------------------------------------------------------------------------
(* Steps that are no request's, and the theorem.                           *)

\* The list of players and the budget play no part in it.
LEMMA SiteKeeps ==
  ASSUME Provenance, UNCHANGED <<algorithm, rows, caches, pc, loc, drawn, history>>,
         players' \subseteq Names, budget' \in Budget
  PROVE  Provenance'
<1>1. /\ UNCHANGED <<algorithm, rows, pc, loc, drawn, told, shown, legacy, ever, unsaved, renamed>>
      /\ UNCHANGED caches
  BY DEF history
<1>2. TypeOK
  BY DEF Provenance
<1>3. RowsGrow /\ Histories
  BY <1>1 DEF RowsGrow, Histories, Provenance, Truthful
<1>4. Known' = Known /\ Held' = Held /\ Pending' = Pending
  BY <1>1 DEF Known, Held, Batched, Pending
<1>5. Grows
  BY <1>3, <1>4 DEF Grows
<1>6. CachesSay
  BY <1>1, <1>2, CachesStay
<1>7. Says
  <2>1. ASSUME NEW m \in Spoken' PROVE m \in Sayable
    BY <1>1, <1>6, <2>1, SpokenIs, SpokenNext, SayableHas DEF CachesSay
  <2> QED
    BY <1>6, <2>1 DEF Says
<1>13. TypeOthers'
  BY <1>1, <1>2 DEF TypeOK, TypeOthers, Budget
<1>8. Truthful'
  BY <1>5, <1>7, <1>13, HeldTyped, TruthfulKept DEF Provenance
<1>9. ASSUME NEW s \in Threads PROVE LocalOf(s)'
  BY <1>1, <1>5, OthersKeep DEF Provenance
<1>10. Derived' /\ Apart'
  BY <1>1, <1>4, <1>5, NoneFresh DEF Provenance
<1>11. TexturesOwn'
  BY <1>1, <1>5, ShownStay DEF Provenance
<1>12. TypeOK'
  BY <1>6, <1>13, TypesNext
<1> QED
  BY <1>8, <1>9, <1>10, <1>11, <1>12 DEF Provenance

LEMMA EditsKeep ==
  ASSUME Provenance, AddPlayer \/ DeletePlayer \/ UNCHANGED vars
  PROVE  Provenance'
<1>1. TypeOK /\ players \subseteq Names /\ budget \in Budget
  BY DEF Provenance, TypeOK, Budget
<1>2. CASE AddPlayer
  <2>1. players' \subseteq Names /\ UNCHANGED <<algorithm, rows, caches, pc, loc, drawn, history>>
    BY <1>1, <1>2 DEF AddPlayer
  <2>2. budget' \in Budget
    BY <1>1, <1>2, Spends DEF AddPlayer, Edit
  <2> QED
    BY <2>1, <2>2, SiteKeeps
<1>3. CASE DeletePlayer
  <2>1. players' \subseteq Names /\ UNCHANGED <<algorithm, rows, caches, pc, loc, drawn, history>>
    BY <1>1, <1>3 DEF DeletePlayer
  <2>2. budget' \in Budget
    BY <1>1, <1>3, Spends DEF DeletePlayer, Edit
  <2> QED
    BY <2>1, <2>2, SiteKeeps
<1>4. CASE UNCHANGED vars
  BY <1>1, <1>4, SiteKeeps DEF vars
<1> QED
  BY <1>2, <1>3, <1>4

\* A node that starts reads rows into its empty caches.
LEMMA LoadedHeld ==
  ASSUME rows \in Seq(Mapping), NEW n \in Preloads
  PROVE  LET H == {rows[i] : i \in DOMAIN rows} IN
         /\ IsCache(Loaded(n, "name", "uuid"), Names, Uuids)
         /\ IsCache(Loaded(n, "uuid", "name"), Uuids, Names)
         /\ \A p \in Pairs(Loaded(n, "name", "uuid")) : Map(p[1], p[2]) \in H
         /\ \A p \in Pairs(Loaded(n, "uuid", "name")) : Map(p[2], p[1]) \in H
<1> DEFINE s == SubSeq(rows, 1, n)
           H == {rows[i] : i \in DOMAIN rows}
<1>1. Len(rows) \in Nat /\ DOMAIN rows = 1 .. Len(rows)
  OBVIOUS
<1>2. n \in Nat /\ n <= Len(rows)
  <2>1. n = 0 \/ n = (IF Len(rows) < Preload THEN Len(rows) ELSE Preload)
    BY DEF Preloads
  <2>2. Preload \in Nat
    BY CapacityAssumption
  <2> QED
    BY <1>1, <2>1, <2>2
<1>3. Loaded(n, "name", "uuid") = PutEach(<<>>, s, "name", "uuid")
      /\ Loaded(n, "uuid", "name") = PutEach(<<>>, s, "uuid", "name")
  BY DEF Loaded
<1>4. s \in Seq(Mapping) /\ Len(s) = n /\ \A i \in 1 .. n : s[i] = rows[i]
  BY <1>1, <1>2
<1> HIDE DEF s
<1>5. \A i \in DOMAIN s : s[i] \in H
  BY <1>1, <1>2, <1>4
<1> HIDE DEF H
<1>6. IsCache(<<>>, Names, Uuids) /\ IsCache(<<>>, Uuids, Names)
  BY CapacityAssumption DEF IsCache
<1>7. Pairs(<<>>) = {}
  BY DEF Pairs
<1>8. /\ IsCache(Loaded(n, "name", "uuid"), Names, Uuids)
      /\ IsCache(Loaded(n, "uuid", "name"), Uuids, Names)
      /\ \A p \in Pairs(Loaded(n, "name", "uuid")) : Map(p[1], p[2]) \in H
      /\ \A p \in Pairs(Loaded(n, "uuid", "name")) : Map(p[2], p[1]) \in H
  BY <1>3, <1>4, <1>5, <1>6, <1>7, PutsHeld
<1> QED
  BY <1>8 DEF H

LEMMA RestartKeeps ==
  ASSUME Provenance, NEW x \in Nodes, Restart(x)
  PROVE  Provenance'
<1>1. TypeOK /\ budget' \in Budget
  BY Spends DEF Provenance, Restart
<1>2. /\ UNCHANGED <<players, rows, drawn, told, shown, legacy, ever, renamed>>
      /\ pc' = [t \in Threads |-> IF NodeOf[t] = x THEN "idle" ELSE pc[t]]
      /\ loc' = [t \in Threads |-> IF NodeOf[t] = x THEN Idle ELSE loc[t]]
      /\ unsaved' = unsaved \cup UNION {loc[t].new : t \in {s \in Threads : NodeOf[s] = x}}
  BY DEF Restart
<1>3. ASSUME NEW s \in Threads
      PROVE  /\ NodeOf[s] = x => pc'[s] = "idle" /\ loc'[s] = Idle
             /\ NodeOf[s] # x => pc'[s] = pc[s] /\ loc'[s] = loc[s]
  BY <1>2
<1>4. Idle.new = {} /\ Idle.found = {}
  BY DEF Idle
<1>5. ASSUME NEW s \in Threads, NEW m \in loc[s].new
      PROVE  m \in loc'[s].new \cup unsaved'
  BY <1>2, <1>3, <1>5
<1>6. ASSUME NEW m \in unsaved' PROVE m \in Batched
  BY <1>2, <1>6 DEF Batched
<1>7. Batched' = Batched
  <2>1. ASSUME NEW s \in Threads, NEW m \in loc'[s].new PROVE m \in Batched
    BY <1>3, <1>4, <2>1 DEF Batched
  <2>2. unsaved \subseteq unsaved'
    BY <1>2
  <2>3. \A m \in Batched : m \in unsaved' \/ \E s \in Threads : m \in loc'[s].new
    BY <1>5, <2>2 DEF Batched
  <2>4. Batched' = unsaved' \cup UNION {loc'[s].new : s \in Threads}
    BY DEF Batched
  <2> HIDE DEF Batched
  <2> QED
    BY <1>6, <2>1, <2>3, <2>4
<1>8. Known' = Known /\ Held' = Held
  BY <1>2, <1>7 DEF Known, Held
<1>9. Grows
  <2>1. RowsGrow /\ Histories
    BY <1>2 DEF RowsGrow, Histories, Provenance, Truthful
  <2> QED
    BY <1>8, <2>1 DEF Grows
<1>10. CachesSay
  <2>1. PICK n \in Preloads : /\ byName' = [byName EXCEPT ![x] = Loaded(n, "name", "uuid")]
                              /\ byUuid' = [byUuid EXCEPT ![x] = Loaded(n, "uuid", "name")]
    BY DEF Restart
  <2>2. rows \in Seq(Mapping) /\ \A i \in DOMAIN rows : rows[i] \in Held'
    BY <1>1, <1>2, RowIs DEF TypeOK
  <2>3. /\ IsCache(Loaded(n, "name", "uuid"), Names, Uuids)
        /\ IsCache(Loaded(n, "uuid", "name"), Uuids, Names)
        /\ \A p \in Pairs(Loaded(n, "name", "uuid")) : Map(p[1], p[2]) \in Held'
        /\ \A p \in Pairs(Loaded(n, "uuid", "name")) : Map(p[2], p[1]) \in Held'
    <3> HIDE DEF Held
    <3> QED
      BY <2>2, LoadedHeld
  <2> QED
    BY <1>1, <2>1, <2>3, CachesChange
<1>11. Says
  <2>1. ASSUME NEW m \in Spoken' PROVE m \in Sayable
    <3>1. CASE \E y \in Nodes : m \in NameEntries(y)'
      BY <1>10, <3>1, SpokenIs, SayableHas DEF CachesSay
    <3>2. CASE \E s \in Threads : m \in loc'[s].found
      BY <1>3, <1>4, <3>2, SpokenIs, SayableHas
    <3>3. CASE \E s \in Threads : /\ pc'[s] \in {"textures", "firstName", "answer"}
                                  /\ m = Map(loc'[s].name, loc'[s].uuid)
      BY <1>3, <3>3, SpokenIs, SayableHas
    <3>4. CASE m \in Mapping /\ m.uuid \in told'[m.name]
      BY <1>2, <3>4, SpokenIs, SayableHas
    <3> QED
      BY <2>1, <3>1, <3>2, <3>3, <3>4, SpokenNext
  <2> QED
    BY <1>10, <2>1 DEF Says
<1>17. TypeOthers' /\ TypeOK'
  <2>1. pc' \in [Threads -> Steps] /\ loc' \in [Threads -> Local]
    <3>1. pc \in [Threads -> Steps] /\ loc \in [Threads -> Local] /\ "idle" \in Steps
      BY <1>1 DEF TypeOK, Steps
    <3> QED
      BY <1>2, <3>1, IdleTyped
  <2>2. unsaved' \subseteq Mapping
    <3>1. Known \subseteq Mapping
      BY <1>1, KnownTyped DEF Provenance
    <3> QED
      BY <1>6, <3>1 DEF Known
  <2>3. TypeOthers'
    <3>1. algorithm' \in [Nodes -> {"v3", "v4"}]
      BY <1>1 DEF Restart, TypeOK
    <3> QED
      BY <1>1, <1>2, <2>1, <2>2, <3>1 DEF TypeOK, TypeOthers, Steps, Budget
  <2> QED
    BY <1>10, <2>3, TypesNext
<1>12. Truthful'
  BY <1>9, <1>11, <1>17, HeldTyped, TruthfulKept DEF Provenance
<1>13. ASSUME NEW s \in Threads PROVE LocalOf(s)'
  <2>1. CASE NodeOf[s] = x
    BY <1>3, <1>4, <2>1, FS_EmptySet DEF LocalOf
  <2>2. CASE NodeOf[s] # x
    BY <1>3, <1>9, <2>2, OthersKeep DEF Provenance
  <2> QED
    BY <2>1, <2>2
<1>14. Pending' \subseteq Pending
  <2>1. ASSUME NEW s \in Threads, pc'[s] = "create" PROVE Map(loc'[s].asked, loc'[s].uuid) \in Pending
    BY <1>3, <2>1 DEF Pending
  <2>2. Pending' = {Map(loc'[s].asked, loc'[s].uuid) : s \in {r \in Threads : pc'[r] = "create"}}
    BY DEF Pending
  <2> HIDE DEF Pending
  <2> QED
    BY <2>1, <2>2
<1>15. Derived' /\ Apart'
  BY <1>2, <1>8, <1>9, <1>14, NoneFresh DEF Provenance
<1>16. TexturesOwn'
  BY <1>2, <1>9, ShownStay DEF Provenance
<1> QED
  BY <1>12, <1>13, <1>15, <1>16, <1>17 DEF Provenance

LEMMA ProvenanceInit == Init => Provenance
<1> SUFFICES ASSUME Init PROVE Provenance
  OBVIOUS
<1> DEFINE H == {rows[i] : i \in DOMAIN rows}
<1>1. /\ pc = [t \in Threads |-> "idle"] /\ loc = [t \in Threads |-> Idle] /\ drawn = {}
      /\ told = [n \in Names |-> {}] /\ shown = {} /\ unsaved = {} /\ renamed = {}
      /\ legacy = H /\ ever = H
  BY DEF Init
<1>2. Idle.new = {} /\ Idle.found = {}
  BY DEF Idle
<1>3. /\ algorithm \in [Nodes -> {"v3", "v4"}] /\ players \subseteq Names
      /\ rows \in Seq(Mapping) /\ budget \in Budget
  BY StartsAssumption DEF Init, Budget
<1>4. H \subseteq Mapping
  BY <1>3
<1>5. PICK ahead \in [Nodes -> Preloads] :
        /\ byName = [x \in Nodes |-> Loaded(ahead[x], "name", "uuid")]
        /\ byUuid = [x \in Nodes |-> Loaded(ahead[x], "uuid", "name")]
  BY DEF Init
<1>6. ASSUME NEW x \in Nodes
      PROVE  /\ byName[x] = Loaded(ahead[x], "name", "uuid") /\ byUuid[x] = Loaded(ahead[x], "uuid", "name")
             /\ IsCache(byName[x], Names, Uuids) /\ IsCache(byUuid[x], Uuids, Names)
             /\ \A p \in Pairs(byName[x]) : Map(p[1], p[2]) \in H
             /\ \A p \in Pairs(byUuid[x]) : Map(p[2], p[1]) \in H
  <2>1. ahead[x] \in Preloads
    OBVIOUS
  <2> HIDE DEF H
  <2>2. byName[x] = Loaded(ahead[x], "name", "uuid") /\ byUuid[x] = Loaded(ahead[x], "uuid", "name")
    BY <1>5
  <2> USE DEF H
  <2> QED
    BY <1>3, <2>1, <2>2, LoadedHeld
<1>7. \A x \in Nodes : NameEntries(x) \subseteq H /\ UuidEntries(x) \subseteq H
  <2> HIDE DEF H
  <2> QED
    BY <1>6, EntriesAre
<1>8. TypeOK
  <2>1. /\ byName \in [Nodes -> Seq([key : Names, value : Uuids])]
        /\ byUuid \in [Nodes -> Seq([key : Uuids, value : Names])]
    <3>1. \A x \in Nodes : /\ byName[x] \in Seq([key : Names, value : Uuids])
                           /\ byUuid[x] \in Seq([key : Uuids, value : Names])
      BY <1>6 DEF IsCache
    <3> QED
      BY <1>5, <3>1
  <2>2. \A x \in Nodes : IsCache(byName[x], Names, Uuids) /\ IsCache(byUuid[x], Uuids, Names)
    BY <1>6
  <2>3. legacy \subseteq Mapping /\ ever \subseteq Mapping
    BY <1>1, <1>4
  <2>4. pc \in [Threads -> Steps] /\ loc \in [Threads -> Local]
    BY <1>1, IdleTyped DEF Steps
  <2>5. /\ drawn \subseteq Uuids /\ told \in [Names -> SUBSET Uuids] /\ shown \subseteq Names \X Names
        /\ unsaved \subseteq Mapping /\ renamed \subseteq Names
    BY <1>1
  <2> QED
    BY <1>3, <2>1, <2>2, <2>3, <2>4, <2>5 DEF TypeOK, Steps, Budget
<1>9. ASSUME NEW t \in Threads PROVE LocalOf(t)
  BY <1>1, <1>2, FS_EmptySet DEF LocalOf
<1>10. Known = H /\ Held = H /\ Pending = {}
  <2>1. Batched = {}
    BY <1>1, <1>2 DEF Batched
  <2> QED
    BY <1>1, <2>1 DEF Known, Held, Pending
<1> HIDE DEF H
<1>11. Spoken \subseteq H
  <2>1. ASSUME NEW m \in Spoken PROVE m \in H
    <3>1. m \in Mapping => m.name \in Names
      BY DEF Mapping
    <3> QED
      BY <1>1, <1>2, <1>7, <2>1, <3>1, SpokenIs
  <2> QED
    BY <2>1
<1>12. Truthful
  <2>1. H \subseteq Like(H)
    BY <1>4, LikeIs
  <2>2. \A m \in Spoken : m \in Like(Known) /\ m \in Like(Held)
    BY <1>10, <1>11, <2>1
  <2>3. \A x \in Nodes : NameEntries(x) \cup UuidEntries(x) \subseteq Known
    BY <1>7, <1>10
  <2>4. legacy \cup {rows[i] : i \in DOMAIN rows} \subseteq ever
    BY <1>1 DEF H
  <2>5. Closed
    BY <1>1 DEF Closed
  <2> QED
    BY <2>2, <2>3, <2>4, <2>5 DEF Truthful
<1>13. Derived
  BY <1>1, <1>10 DEF Derived
<1>14. Apart
  BY <1>1, <1>10 DEF Apart, LegacyUuids
<1>15. TexturesOwn
  BY <1>1 DEF TexturesOwn
<1> QED
  BY <1>8, <1>9, <1>12, <1>13, <1>14, <1>15 DEF Provenance

LEMMA ProvenanceStep == Provenance /\ [Next]_vars => Provenance'
<1> SUFFICES ASSUME Provenance, [Next]_vars PROVE Provenance'
  OBVIOUS
<1>1. ASSUME NEW t \in Threads, Request(t) PROVE Provenance'
  <2>1. CASE GetProfileByName(t) \/ GetProfileByUUID(t) \/ GetOrCreateUUID(t) \/ FindOrGenerate(t)
             \/ Create(t) \/ GetNameByUUID(t) \/ FindName(t) \/ Answer(t)
    BY <2>1, GetProfileByNameKeeps, GetProfileByUUIDKeeps, GetOrCreateUUIDKeeps, FindOrGenerateKeeps,
       CreateKeeps, GetNameByUUIDKeeps, FindNameKeeps, AnswerKeeps
  <2>2. CASE GetProfilesByNames(t) \/ GetUser(t) \/ BatchGet(t) \/ BatchFind(t) \/ BatchInsert(t)
             \/ BatchAnswer(t)
    BY <2>2, GetProfilesByNamesKeeps, GetUserKeeps, BatchGetKeeps, BatchFindKeeps, BatchInsertKeeps,
       BatchAnswerKeeps
  <2>3. CASE RenamePlayer(t) \/ UpdateUUIDMapping(t) \/ CheckName(t) \/ SaveName(t)
    BY <2>3, RenamePlayerKeeps, UpdateUUIDMappingKeeps, CheckNameKeeps, SaveNameKeeps
  <2> QED
    BY <1>1, <2>1, <2>2, <2>3 DEF Request
<1>2. CASE AddPlayer \/ DeletePlayer \/ UNCHANGED vars
  BY <1>2, EditsKeep
<1>3. ASSUME NEW x \in Nodes, Restart(x) PROVE Provenance'
  BY <1>3, RestartKeeps
<1> QED
  BY <1>1, <1>2, <1>3 DEF Next

(***************************************************************************)
(* What is said of a name comes from rows of its spellings, and only       *)
(* renames make two mappings of one UUID that the table did not hold       *)
(* before, in every state that any requests, spellings, algorithms,        *)
(* restarts, failed INSERTs and renames lead to, from any table.           *)
(***************************************************************************)
THEOREM ProvenanceInvariant == Spec => []Provenance
BY ProvenanceInit, ProvenanceStep, PTL DEF Spec

(***************************************************************************)
(* The types, with what the LRU caches promise: no more entries than their *)
(* capacity, and of a key one (lru_cache.go).                              *)
(***************************************************************************)
THEOREM TypeCorrect == Spec => []TypeOK
<1>1. Provenance => TypeOK
  BY DEF Provenance
<1> QED
  BY <1>1, ProvenanceInvariant, PTL

(***************************************************************************)
(* A cached mapping has been a row, or is of a batch that has not inserted *)
(* it (uuid.go:238).                                                       *)
(***************************************************************************)
THEOREM CacheHolds == Spec => []CachedWasStored
<1>1. ASSUME Provenance PROVE CachedWasStored
  <2>1. ASSUME NEW x \in Nodes, NEW i \in DOMAIN byName[x]
        PROVE  Map(byName[x][i].key, byName[x][i].value) \in ever \cup Batched
    <3>1. Map(byName[x][i].key, byName[x][i].value) \in NameEntries(x)
      BY DEF NameEntries
    <3> QED
      BY <1>1, <3>1 DEF Provenance, Truthful, Known
  <2>2. ASSUME NEW x \in Nodes, NEW i \in DOMAIN byUuid[x]
        PROVE  Map(byUuid[x][i].value, byUuid[x][i].key) \in ever \cup Batched
    <3>1. Map(byUuid[x][i].value, byUuid[x][i].key) \in UuidEntries(x)
      BY DEF UuidEntries
    <3> QED
      BY <1>1, <3>1 DEF Provenance, Truthful, Known
  <2> QED
    BY <2>1, <2>2 DEF CachedWasStored
<1> QED
  BY <1>1, ProvenanceInvariant, PTL

(***************************************************************************)
(* Answers with two UUIDs for a name that nobody renamed: the table or a   *)
(* batch has both, for two spellings of the name (profiles.go:134,         *)
(* uuid.go:208), or one of them is random (uuid.go:96, uuid.go:238), or    *)
(* was there before.                                                       *)
(***************************************************************************)
THEOREM NamesKeepUuids == Spec => []AnswersAgree
<1>1. ASSUME Provenance PROVE AnswersAgree
  <2>1. SUFFICES ASSUME NEW n \in Names \ renamed, NEW u \in told[n], NEW w \in told[n], u # w
                 PROVE  \E m, k \in Held :
                          /\ Alike(m.name, n) /\ m.uuid = u
                          /\ Alike(k.name, n) /\ k.uuid = w
                          /\ m.name # k.name \/ {u, w} \cap drawn # {} \/ {m, k} \cap legacy # {}
    BY DEF AnswersAgree
  <2>2. ASSUME NEW v \in told[n]
        PROVE  \E m \in Held : Alike(m.name, n) /\ m.uuid = v
    <3>1. v \in Uuids
      BY <1>1 DEF Provenance, TypeOK
    <3>2. Map(n, v) \in Mapping /\ Map(n, v).name = n /\ Map(n, v).uuid = v
      BY <3>1 DEF Map, Mapping
    <3>3. Map(n, v) \in Spoken
      BY <2>2, <3>2, SpokenIs
    <3>4. Map(n, v) \in Like(Held)
      BY <1>1, <3>2, <3>3 DEF Provenance, Truthful
    <3> QED
      BY <3>2, <3>4 DEF Like
  <2>3. PICK m \in Held : Alike(m.name, n) /\ m.uuid = u
    BY <2>2
  <2>4. PICK k \in Held : Alike(k.name, n) /\ k.uuid = w
    BY <2>2
  <2>5. /\ m \in Known /\ k \in Known
        /\ m.name \in Names /\ k.name \in Names
    <3>1. Held \subseteq Known
      BY <1>1 DEF Provenance, Truthful, Held, Known
    <3>2. Held \subseteq Mapping
      BY <1>1, KnownTyped DEF Provenance
    <3> QED
      BY <3>1, <3>2 DEF Mapping
  <2>6. m.name \notin renamed /\ k.name \notin renamed
    <3>1. Closed
      BY <1>1 DEF Provenance, Truthful
    <3> QED
      BY <2>3, <2>4, <2>5, <3>1 DEF Closed
  <2>7. ASSUME m.name = k.name, {u, w} \cap drawn = {}, {m, k} \cap legacy = {}
        PROVE  FALSE
    <3>1. m.uuid = V3[m.name] /\ k.uuid = V3[k.name]
      BY <1>1, <2>3, <2>4, <2>5, <2>6, <2>7 DEF Provenance, Derived
    <3> QED
      BY <2>1, <2>3, <2>4, <2>7, <3>1
  <2> QED
    BY <2>3, <2>4, <2>7
<1> QED
  BY <1>1, ProvenanceInvariant, PTL

(***************************************************************************)
(* A profile that is answered with another player's textures: both names   *)
(* were of renames, and have had one UUID (uuid.go:172), or the table had  *)
(* their UUID before the nodes started.                                    *)
(***************************************************************************)
THEOREM TexturesHold == Spec => []TexturesOwn
<1>1. Provenance => TexturesOwn
  BY DEF Provenance
<1> QED
  BY <1>1, ProvenanceInvariant, PTL
================================================================================
