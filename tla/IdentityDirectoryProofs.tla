------------------------ MODULE IdentityDirectoryProofs ------------------------
(***************************************************************************)
(* A UUID that a caller was told is the player's for ever, and no other    *)
(* player's: IdentityDirectory keeps DirectoryInv, for any number of nodes *)
(* and players and any candidates.  It keeps CallsInv, too: an answer is   *)
(* true when it is given, and only allocations that draw one UUID deadlock.*)
(***************************************************************************)
EXTENDS IdentityDirectory, RowStoreProofs, WellFoundedInduction

\* The three kinds of keys are apart, and equal keys have equal indices.
LEMMA KeysDiffer ==
    ASSUME NEW a, NEW b
    PROVE  /\ Player(a) # Identity(b) /\ Player(a) # UuidKey(b) /\ Identity(a) # UuidKey(b)
           /\ Identity(a) = Identity(b) => a = b
           /\ UuidKey(a) = UuidKey(b) => a = b
BY DEF Player, Identity, UuidKey

\* What the committed row of each key can be.
LEMMA RowsHave ==
    ASSUME NEW f, Rows(f)
    PROVE  /\ \A p \in Pid : Player(p) \in DOMAIN f => f[Player(p)] \in PlayerRow \cup {NoRow}
           /\ \A p \in Pid : Identity(p) \in DOMAIN f =>
                                f[Identity(p)] \in IdentityRow \cup {NoRow}
           /\ \A x \in Uuid : UuidKey(x) \in DOMAIN f => f[UuidKey(x)] \in Pid \cup {None, NoRow}
<1>1. \A p : /\ Values(Player(p)) = PlayerRow /\ Values(Identity(p)) = IdentityRow
             /\ Values(UuidKey(p)) = Pid \cup {None}
  BY DEF Values, Player, Identity, UuidKey
<1> QED
  BY <1>1 DEF Rows

\* The same read from the types of single keys.
LEMMA RowsFrom ==
    ASSUME NEW f, DOMAIN f \subseteq Row,
           \A p \in Pid : Player(p) \in DOMAIN f => f[Player(p)] \in PlayerRow \cup {NoRow},
           \A p \in Pid : Identity(p) \in DOMAIN f => f[Identity(p)] \in IdentityRow \cup {NoRow},
           \A x \in Uuid : UuidKey(x) \in DOMAIN f => f[UuidKey(x)] \in Pid \cup {None, NoRow}
    PROVE  Rows(f)
<1>1. \A p : /\ Values(Player(p)) = PlayerRow /\ Values(Identity(p)) = IdentityRow
             /\ Values(UuidKey(p)) = Pid \cup {None}
  BY DEF Values, Player, Identity, UuidKey
<1> SUFFICES ASSUME NEW r \in DOMAIN f PROVE f[r] \in Values(r) \cup {NoRow}
  BY DEF Rows
<1>2. CASE \E p \in Pid : r = Player(p)
  BY <1>1, <1>2
<1>3. CASE \E p \in Pid : r = Identity(p)
  BY <1>1, <1>3
<1>4. CASE \E x \in Uuid : r = UuidKey(x)
  BY <1>1, <1>4
<1> QED
  BY <1>2, <1>3, <1>4 DEF Row

LEMMA InRow ==
    /\ \A p \in Pid : Player(p) \in Row /\ Identity(p) \in Row
    /\ \A x \in Uuid : UuidKey(x) \in Row
BY DEF Row

LEMMA ActiveRowFacts ==
    ASSUME NEW x \in Uuid
    PROVE  /\ ActiveRow(x) \in IdentityRow /\ ActiveRow(x) # NoRow
           /\ ActiveRow(x).uuid = x /\ ActiveRow(x).state = "active" /\ x # None
BY DirectoryAssumption DEF ActiveRow, IdentityRow

-----------------------------------------------------------------------------
\* Where t goes on with f found: nobody else moves, and answers have been found.
Moves(t, f) ==
    /\ DOMAIN pc' = Tx /\ loc' \in [Tx -> Local]
    /\ \A o \in Tx \ {t} : pc'[o] = pc[o] /\ loc'[o] = loc[o]
    /\ loc'[t].found = f
    /\ \A p \in loc'[t].answer : p \in loc[t].answer \/ f[p] # None
    /\ Visits(t)'

LEMMA FailMoves ==
    ASSUME NEW t \in Tx, TypeOK, Fail(t)
    PROVE  Moves(t, loc[t].found)
BY DEF TypeOK, Fail, Goto, Moves, Visits

LEMMA GotoMoves ==
    ASSUME NEW t \in Tx, NEW label, TypeOK, Goto(t, label), UNCHANGED loc, Visits(t),
           label \in {"recheck", "read", "ensure", "adopt", "commit"},
           label \in {"recheck", "read", "ensure"} => loc[t].at \in Pid,
           label = "adopt" => pc[t] = "insert"
    PROVE  Moves(t, loc[t].found)
BY DEF TypeOK, Goto, Moves, Visits

LEMMA AdvanceMoves ==
    ASSUME NEW t \in Tx, NEW l \in Local, TypeOK, Advance(t, l), l.answer = loc[t].answer
    PROVE  Moves(t, l.found)
<1>1. l.found \in [Pid -> Uuid \cup {None}] /\ l.todo \subseteq Pid /\ call[t].names \subseteq Name
  BY DEF Local, TypeOK, Call
<1>2. CASE l.todo = {} /\ Op(t) = "names" /\ Goto(t, "answer")
           /\ Become(t, [l EXCEPT !.at = None, !.names = call[t].names])
  BY <1>1, <1>2 DEF TypeOK, Goto, Become, Moves, Visits, Local
<1>3. CASE l.todo = {} /\ Goto(t, "commit")
           /\ Become(t, [l EXCEPT !.at = None, !.answer = {p \in Pid : l.found[p] # None}])
  BY <1>1, <1>3 DEF TypeOK, Goto, Become, Moves, Visits, Local
<1>4. ASSUME NEW p \in Smallest(l.todo), Become(t, [l EXCEPT !.at = p, !.todo = l.todo \ {p}]),
             Goto(t, IF Op(t) = "login" THEN "read" ELSE "lockPlayer")
      PROVE  Moves(t, l.found)
  <2>1. p \in Pid
    BY <1>1 DEF Smallest
  <2>2. [l EXCEPT !.at = p, !.todo = l.todo \ {p}] \in Local
    BY <1>1, <2>1 DEF Local
  <2> QED
    BY <1>4, <2>1, <2>2 DEF TypeOK, Goto, Become, Moves, Visits
<1> QED
  BY <1>2, <1>3, <1>4 DEF Advance

LEMMA SkipMoves ==
    ASSUME NEW t \in Tx, TypeOK, Skip(t)
    PROVE  Moves(t, loc[t].found)
<1>1. loc[t] \in Local
  BY DEF TypeOK
<1> QED
  BY <1>1, AdvanceMoves, FailMoves DEF Skip

LEMMA FoundMoves ==
    ASSUME NEW t \in Tx, NEW x \in Uuid, TypeOK, loc[t].at \in Pid, Found(t, x)
    PROVE  Moves(t, [loc[t].found EXCEPT ![loc[t].at] = x])
<1> DEFINE p == loc[t].at
           l == [loc[t] EXCEPT !.found[p] = x]
<1>1. loc[t] \in Local /\ loc[t].found \in [Pid -> Uuid \cup {None}]
  BY DEF TypeOK, Local
<1>2. l \in Local /\ l.found = [loc[t].found EXCEPT ![p] = x] /\ l.answer = loc[t].answer
  BY <1>1 DEF Local
<1>3. CASE Op(t) \in {"names", "login"}
  BY <1>2, <1>3, AdvanceMoves DEF Found
<1>4. CASE Op(t) \notin {"names", "login"}
  <2>1. Become(t, [l EXCEPT !.answer = {p}]) /\ Goto(t, "commit")
    BY <1>4 DEF Found
  <2>2. [l EXCEPT !.answer = {p}] \in Local /\ [l EXCEPT !.answer = {p}].found = l.found
        /\ [l EXCEPT !.answer = {p}].answer = {p} /\ l.found[p] = x /\ x # None
    <3>1. /\ [l EXCEPT !.answer = {p}] \in Local /\ [l EXCEPT !.answer = {p}].found = l.found
          /\ [l EXCEPT !.answer = {p}].answer = {p}
      <4> HIDE DEF l
      <4> QED
        BY <1>2 DEF Local
    <3>2. l.found[p] = x
      BY <1>1, <1>2
    <3>3. x # None
      BY DirectoryAssumption DEF DirectoryAssumption
    <3> QED
      BY <3>1, <3>2, <3>3
  <2> QED
    BY <2>1, <2>2, <1>2 DEF TypeOK, Goto, Become, Moves, Visits
<1> QED
  BY <1>3, <1>4

LEMMA DrawMoves ==
    ASSUME NEW t \in Tx, NEW n \in 0 .. 2, TypeOK, Draw(t, n), loc[t].at \in Pid, Newer(loc[t].at)
    PROVE  Moves(t, loc[t].found)
<1>1. PICK x \in Uuid : Become(t, [loc[t] EXCEPT !.uuid = x, !.attempt = n])
  BY DEF Draw
<1>2. [loc[t] EXCEPT !.uuid = x, !.attempt = n] \in Local
  <2>1. loc[t] \in Local
    BY DEF TypeOK
  <2> QED
    BY <2>1 DEF Local
<1> QED
  BY <1>1, <1>2 DEF TypeOK, Draw, Goto, Become, Moves, Visits, Newer, Local

-----------------------------------------------------------------------------
(* A statement that writes nothing keeps the invariant if what it finds is *)
(* in the transaction's view of the rows.                                  *)

SameWrites ==
    \A o \in Tx : /\ DOMAIN buf'[o] = DOMAIN buf[o]
                   /\ \A r \in DOMAIN buf[o] : buf'[o][r] = buf[o][r]

LEMMA ReadingKeeps ==
    ASSUME NEW t \in Tx, NEW f, DirectoryInv, Moves(t, f),
           call' \in [Tx -> Call], published' = published,
           db' = db, SameWrites, StoreShape', StoreInv',
           \A p \in Pid : loc[t].found[p] # None => f[p] # None,
           \A p \in Pid : f[p] # None => View(t, Identity(p)) = ActiveRow(f[p])
    PROVE  DirectoryInv'
<1>1. TypeOK'
  <2>1. DOMAIN db' = Row /\ Rows(db)
    BY DEF DirectoryInv, TypeOK
  <2>2. \A o \in Tx : Rows(seen'[o])
    BY <2>1 DEF StoreShape, StoreInv, SeenIsCurrent, Rows
  <2>3. \A o \in Tx : Rows(buf'[o])
    BY DEF DirectoryInv, TypeOK, Rows, SameWrites
  <2>4. Rows(db') /\ DOMAIN db' = Row
    BY <2>1
  <2> QED
    BY <2>2, <2>3, <2>4 DEF DirectoryInv, TypeOK, Moves, Rows, Values
<1>2. Permanent'
  BY DEF DirectoryInv, Permanent, Exists, Identity, UuidKey
<1>3. PublishedForGood'
  BY DEF DirectoryInv, PublishedForGood
<1>4. ASSUME NEW o \in Tx PROVE Inserted(o)'
  <2>1. \A r \in DOMAIN buf[o] : r \in DOMAIN seen[o] /\ seen[o][r] = db[r]
    BY DEF DirectoryInv, StoreInv, SeenIsCurrent, WritesLocked
  <2>2. \A r \in DOMAIN buf[o] : r \in DOMAIN seen'[o] /\ seen'[o][r] = db[r]
    BY DEF SameWrites, StoreInv, SeenIsCurrent, WritesLocked
  <2>3. Inserted(o) /\ DOMAIN buf'[o] = DOMAIN buf[o]
        /\ \A r \in DOMAIN buf[o] : buf'[o][r] = buf[o][r]
    BY DEF SameWrites, DirectoryInv
  <2>4. \A r \in DOMAIN buf'[o] : seen'[o][r] = NoRow
    BY <2>1, <2>2, <2>3 DEF Inserted
  <2>5. ASSUME NEW p \in Pid, Identity(p) \in DOMAIN buf[o]
        PROVE  /\ Newer(p)
               /\ \E x \in Uuid : /\ buf'[o][Identity(p)] = ActiveRow(x)
                                  /\ UuidKey(x) \in DOMAIN buf[o] /\ buf'[o][UuidKey(x)] = p
    BY <2>3, <2>5 DEF Inserted
  <2> QED
    BY <2>3, <2>4, <2>5 DEF Inserted, Newer, Identity, UuidKey, Player, ActiveRow
<1>5. ASSUME NEW o \in Tx PROVE Sound(o)'
  <2>1. \A p : View(o, Identity(p))' = View(o, Identity(p))
    BY DEF View, Identity, SameWrites
  <2>2. CASE o = t
    BY <2>1, <2>2 DEF DirectoryInv, Sound, Moves, ActiveRow, TypeOK, Local
  <2>3. CASE o # t
    BY <2>1, <2>3 DEF DirectoryInv, Sound, Moves, ActiveRow
  <2> QED
    BY <2>2, <2>3
<1>6. ASSUME NEW o \in Tx PROVE Visits(o)'
  BY DEF DirectoryInv, Visits, Moves
<1> QED
  BY <1>1, <1>2, <1>3, <1>4, <1>5, <1>6 DEF DirectoryInv

\* The same when nothing is locked either.
LEMMA LocalStepKeeps ==
    ASSUME NEW t \in Tx, DirectoryInv, Moves(t, loc[t].found), UNCHANGED <<store, call, published>>
    PROVE  DirectoryInv'
<1>1. StoreShape' /\ StoreInv' /\ SameWrites
  BY DEF SameWrites, DirectoryInv, TypeOK, store, StoreShape, StoreInv, SeenIsCurrent, LocksExclude, WritesLocked
<1>2. \A p \in Pid : loc[t].found[p] # None => View(t, Identity(p)) = ActiveRow(loc[t].found[p])
  BY DEF DirectoryInv, Sound
<1> QED
  BY <1>1, <1>2, ReadingKeeps DEF store, DirectoryInv, TypeOK

\* A statement that locks rows of Row for share and writes nothing.
LEMMA LockingKeepsStore ==
    ASSUME NEW t \in Tx, NEW sh, sh \subseteq Row, DirectoryInv, Statement(t, sh, {}, NoWrites)
    PROVE  db' = db /\ SameWrites /\ StoreShape' /\ StoreInv'
<1>1. DOMAIN NoWrites = {} /\ StoreShape /\ StoreInv /\ DOMAIN db = Row
  BY DEF NoWrites, DirectoryInv, TypeOK
<1>2. /\ db' = db /\ StoreShape' /\ StoreInv' /\ buf'[t] = Over(NoWrites, buf[t])
      /\ \A o \in Tx \ {t} : buf'[o] = buf[o]
  <2>1. /\ db' = db /\ buf'[t] = Over(NoWrites, buf[t])
        /\ \A o \in Tx \ {t} : buf'[o] = buf[o]
    BY <1>1, StatementEffect
  <2>2. StoreShape' /\ StoreInv'
    BY <1>1, StatementKeepsStore
  <2> QED
    BY <2>1, <2>2
<1>3. SameWrites
  BY <1>1, <1>2 DEF SameWrites, Over
<1> QED
  BY <1>2, <1>3

LEMMA LockingStepKeeps ==
    ASSUME NEW t \in Tx, NEW sh, sh \subseteq Row, DirectoryInv, Statement(t, sh, {}, NoWrites),
           Moves(t, loc[t].found), UNCHANGED <<call, published>>
    PROVE  DirectoryInv'
<1>1. db' = db /\ SameWrites /\ StoreShape' /\ StoreInv'
  BY LockingKeepsStore
<1>2. \A p \in Pid : loc[t].found[p] # None => View(t, Identity(p)) = ActiveRow(loc[t].found[p])
  BY DEF DirectoryInv, Sound
<1> QED
  BY <1>1, <1>2, ReadingKeeps DEF DirectoryInv, TypeOK

\* The visited player's row was read and is active.
LEMMA FoundKeeps ==
    ASSUME NEW t \in Tx, DirectoryInv, loc[t].at \in Pid,
           Stored(t) # NoRow, Stored(t).state = "active", Found(t, Stored(t).uuid),
           UNCHANGED <<store, call, published>>
    PROVE  DirectoryInv'
<1> DEFINE p == loc[t].at
           x == Stored(t).uuid
           f == [loc[t].found EXCEPT ![p] = x]
<1>1. x \in Uuid /\ Stored(t) = ActiveRow(x)
  <2>1. CASE Identity(p) \in DOMAIN buf[t]
    <3>1. PICK y \in Uuid : buf[t][Identity(p)] = ActiveRow(y)
      BY <2>1 DEF DirectoryInv, Inserted
    <3>2. Stored(t) = ActiveRow(y)
      BY <2>1, <3>1 DEF Stored, View
    <3> QED
      BY <3>2, ActiveRowFacts
  <2>2. CASE Identity(p) \notin DOMAIN buf[t]
    <3>1. Stored(t) = db[Identity(p)]
      BY <2>2 DEF Stored, View
    <3>2. Stored(t) \in IdentityRow
      BY <3>1, InRow, RowsHave DEF DirectoryInv, TypeOK
    <3>3. x \in Uuid
      BY <3>1 DEF DirectoryInv, Permanent, Exists
    <3> QED
      BY <3>2, <3>3 DEF IdentityRow, ActiveRow
  <2> QED
    BY <2>1, <2>2
<1>2. Moves(t, f)
  BY <1>1, FoundMoves DEF DirectoryInv
<1>3. /\ loc[t].found \in [Pid -> Uuid \cup {None}] /\ x # None
      /\ \A q \in Pid : loc[t].found[q] # None => View(t, Identity(q)) = ActiveRow(loc[t].found[q])
  BY <1>1, ActiveRowFacts DEF DirectoryInv, TypeOK, Local, Sound
<1>4. \A q \in Pid : f[q] = IF q = p THEN x ELSE loc[t].found[q]
  BY <1>3
<1>5. /\ \A q \in Pid : loc[t].found[q] # None => f[q] # None
      /\ \A q \in Pid : f[q] # None => View(t, Identity(q)) = ActiveRow(f[q])
  BY <1>1, <1>3, <1>4 DEF Stored
<1>6. StoreShape' /\ StoreInv' /\ SameWrites /\ db' = db
  BY DEF SameWrites, DirectoryInv, TypeOK, store, StoreShape, StoreInv, SeenIsCurrent,
         LocksExclude, WritesLocked
<1> QED
  BY <1>2, <1>5, <1>6, ReadingKeeps DEF DirectoryInv, TypeOK

-----------------------------------------------------------------------------
(* The statements of a call.                                               *)

LEMMA NoLocalTyped ==
    /\ NoLocal \in Local /\ NoLocal.found = [p \in Pid |-> None] /\ NoLocal.answer = {}
<1>1. /\ [p \in Pid |-> NoRow] \in [Pid -> PlayerRow \cup {NoRow}]
      /\ [p \in Pid |-> None] \in [Pid -> Uuid \cup {None}]
  OBVIOUS
<1> QED
  BY <1>1 DEF NoLocal, Local

LEMMA StartKeeps ==
    ASSUME NEW t \in Tx, NEW c \in Calls, DirectoryInv, Start(t, c)
    PROVE  DirectoryInv'
<1> DEFINE l == [NoLocal EXCEPT !.at = c.pid, !.names = c.names]
           found0 == [p \in Pid |-> None]
<1>1. c \in Call /\ WellFormed(c)
  BY DirectoryAssumption
<1>2. NoLocal \in Local /\ l \in Local /\ l.at = c.pid /\ l.found = found0 /\ l.answer = {}
  <2>1. NoLocal \in Local /\ NoLocal.found = found0 /\ NoLocal.answer = {}
    BY NoLocalTyped
  <2>2. c.pid \in Pid \cup {None} /\ c.names \subseteq Name
    BY <1>1 DEF Call
  <2> QED
    BY <2>1, <2>2 DEF Local
<1>3. /\ loc' = [loc EXCEPT ![t] = l] /\ DOMAIN pc' = Tx
      /\ \A o \in Tx \ {t} : pc'[o] = pc[o]
      /\ pc'[t] \in {"lockPlayer", "findUuid", "lockProfiles", "findNames"}
      /\ pc'[t] = "lockPlayer" => c.op = "ensure"
  BY <1>1 DEF Start, Become, Goto, DirectoryInv, TypeOK
<1>4. TypeOK'
  BY <1>1, <1>2, <1>3 DEF Start, DirectoryInv, TypeOK, store, StoreShape, Rows, Values
<1>5. \A o \in Tx : Visits(o)'
  BY <1>1, <1>2, <1>3 DEF Visits, DirectoryInv, TypeOK, WellFormed
<1>6. \A o \in Tx : Sound(o)'
  BY <1>2, <1>3 DEF Start, store, View, Sound, DirectoryInv, TypeOK, ActiveRow, Identity
<1>7. \A o \in Tx : Inserted(o)'
  BY DEF Start, store, Inserted, DirectoryInv, Newer, ActiveRow, Identity, Player, UuidKey
<1>8. StoreInv' /\ Permanent' /\ PublishedForGood'
  BY DEF Start, store, DirectoryInv, StoreInv, SeenIsCurrent, LocksExclude, WritesLocked,
         Permanent, PublishedForGood, Exists, Newer, ActiveRow, Identity, UuidKey
<1> QED
  BY <1>4, <1>5, <1>6, <1>7, <1>8 DEF DirectoryInv

LEMMA FindUuidKeeps ==
    ASSUME NEW t \in Tx, DirectoryInv, FindUuid(t)
    PROVE  DirectoryInv'
<1>1. CASE Fail(t)
  BY <1>1, FailMoves, LocalStepKeeps DEF FindUuid, DirectoryInv
<1>2. CASE ~Fail(t)
  <2>1. PICK p \in Pid : Become(t, [loc[t] EXCEPT !.at = p])
    BY <1>2 DEF FindUuid
  <2>2. [loc[t] EXCEPT !.at = p] \in Local
    <3>1. loc[t] \in Local
      BY DEF DirectoryInv, TypeOK
    <3> QED
      BY <3>1 DEF Local
  <2>3. Moves(t, loc[t].found)
    BY <1>2, <2>1, <2>2 DEF FindUuid, DirectoryInv, TypeOK, Goto, Become, Moves, Visits, Local
  <2> QED
    BY <2>3, LocalStepKeeps DEF FindUuid
<1> QED
  BY <1>1, <1>2

LEMMA FindNameKeeps ==
    ASSUME NEW t \in Tx, DirectoryInv, FindName(t)
    PROVE  DirectoryInv'
<1>1. loc[t] \in Local /\ TypeOK /\ pc[t] = "findNames"
  BY DEF DirectoryInv, TypeOK, FindName
<1>2. CASE Advance(t, loc[t])
  BY <1>1, <1>2, AdvanceMoves, LocalStepKeeps DEF FindName
<1>3. ASSUME NEW n \in loc[t].names,
             LET rest  == [loc[t] EXCEPT !.names = @ \ {n}]
                 named == {p \in Pid : UniquePlayerName(n, p)}
             IN  \/ /\ named = {} /\ Op(t) = "name" /\ Fail(t)
                 \/ /\ named \subseteq loc[t].todo /\ (named = {} => Op(t) = "names")
                    /\ Become(t, rest) /\ UNCHANGED pc
                 \/ \E p \in named \ loc[t].todo :
                       /\ Become(t, [rest EXCEPT !.todo = @ \cup {p}, !.candidate[p] = db[Player(p)],
                                                 !.candidate[p].name = n])
                       /\ UNCHANGED pc
      PROVE  Moves(t, loc[t].found)
  <2> DEFINE rest  == [loc[t] EXCEPT !.names = @ \ {n}]
             named == {p \in Pid : UniquePlayerName(n, p)}
  <2>1. rest \in Local /\ rest.found = loc[t].found /\ rest.answer = loc[t].answer
    BY <1>1 DEF Local
  <2>2. CASE Fail(t)
    BY <2>2, <1>1, FailMoves
  <2>3. CASE Become(t, rest) /\ UNCHANGED pc
    BY <1>1, <2>1, <2>3 DEF TypeOK, Become, Moves, Visits
  <2>4. ASSUME NEW p \in named \ loc[t].todo, UNCHANGED pc,
               Become(t, [rest EXCEPT !.todo = @ \cup {p}, !.candidate[p] = db[Player(p)],
                                      !.candidate[p].name = n])
        PROVE  Moves(t, loc[t].found)
    <3> DEFINE row == [db[Player(p)] EXCEPT !.name = n]
               l   == [rest EXCEPT !.todo = @ \cup {p}, !.candidate[p] = db[Player(p)],
                                   !.candidate[p].name = n]
    <3>1. p \in Pid /\ db[Player(p)] \in PlayerRow
      BY InRow, RowsHave DEF DirectoryInv, TypeOK, UniquePlayerName, Exists
    <3>2. row \in PlayerRow
      BY <1>1, <3>1 DEF PlayerRow, Local
    <3>3. l = [[rest EXCEPT !.todo = @ \cup {p}]
                  EXCEPT !.candidate = [[rest.candidate EXCEPT ![p] = db[Player(p)]] EXCEPT ![p] = row]]
      BY <2>1, <3>1 DEF Local
    <3>4. l \in Local /\ l.found = loc[t].found /\ l.answer = loc[t].answer
      <4> DEFINE c == [[rest.candidate EXCEPT ![p] = db[Player(p)]] EXCEPT ![p] = row]
      <4>1. c \in [Pid -> PlayerRow \cup {NoRow}]
        BY <2>1, <3>1, <3>2 DEF Local
      <4>2. l = [[rest EXCEPT !.todo = @ \cup {p}] EXCEPT !.candidate = c]
        BY <3>3
      <4> HIDE DEF c, l, rest
      <4>3. l \in Local /\ l.found = rest.found /\ l.answer = rest.answer
        BY <2>1, <3>1, <4>1, <4>2 DEF Local
      <4> QED
        BY <2>1, <4>3
    <3> QED
      BY <1>1, <2>4, <3>4 DEF TypeOK, Become, Moves, Visits
  <2> QED
    BY <1>3, <2>2, <2>3, <2>4
<1>4. CASE ~Advance(t, loc[t])
  BY <1>3, <1>4, LocalStepKeeps DEF FindName
<1> QED
  BY <1>2, <1>4

LEMMA LockPlayerKeeps ==
    ASSUME NEW t \in Tx, DirectoryInv, LockPlayer(t)
    PROVE  DirectoryInv'
<1>1. loc[t].at \in Pid /\ Visits(t) /\ TypeOK
  BY DEF LockPlayer, DirectoryInv, Visits
<1>2. SharesAt(t) \subseteq Row
  BY <1>1, InRow DEF LockPlayer, SharesAt, PlayerLock
<1>3. CASE Exists(Player(loc[t].at))
  BY <1>1, <1>2, <1>3, GotoMoves, LockingStepKeeps DEF LockPlayer
<1>4. CASE ~Exists(Player(loc[t].at))
  BY <1>1, <1>2, <1>4, SkipMoves, LockingStepKeeps DEF LockPlayer
<1> QED
  BY <1>3, <1>4

LEMMA RecheckKeeps ==
    ASSUME NEW t \in Tx, DirectoryInv, Recheck(t)
    PROVE  DirectoryInv'
<1>1. loc[t].at \in Pid /\ Visits(t) /\ TypeOK
  BY DEF Recheck, DirectoryInv, Visits
<1>2. Skip(t) \/ (Goto(t, "ensure") /\ UNCHANGED loc)
  BY DEF Recheck
<1>3. Moves(t, loc[t].found)
  BY <1>1, <1>2, SkipMoves, GotoMoves
<1> QED
  BY <1>3, LocalStepKeeps DEF Recheck

LEMMA LockProfilesKeeps ==
    ASSUME NEW t \in Tx, DirectoryInv, LockProfiles(t)
    PROVE  DirectoryInv'
<1> DEFINE l == [loc[t] EXCEPT !.todo = PlayersOf(call[t].uid)]
<1>1. TypeOK /\ loc[t] \in Local
  BY DEF DirectoryInv, TypeOK
<1>2. PlayersOf(call[t].uid) \subseteq Pid
  BY DEF PlayersOf
<1>3. l \in Local /\ l.found = loc[t].found /\ l.answer = loc[t].answer
  BY <1>1, <1>2 DEF Local
<1>4. SharesAt(t) \subseteq Row
  BY <1>2, InRow DEF LockProfiles, SharesAt
<1>5. Moves(t, loc[t].found)
  BY <1>1, <1>3, AdvanceMoves DEF LockProfiles
<1> QED
  BY <1>4, <1>5, LockingStepKeeps DEF LockProfiles

LEMMA ReadKeeps ==
    ASSUME NEW t \in Tx, DirectoryInv, Read(t)
    PROVE  DirectoryInv'
<1>1. loc[t].at \in Pid /\ Visits(t) /\ TypeOK /\ loc[t] \in Local
  BY DEF Read, DirectoryInv, Visits, TypeOK
<1>2. CASE Stored(t) # NoRow /\ Stored(t).state = "active" /\ Found(t, Stored(t).uuid)
  BY <1>1, <1>2, FoundKeeps DEF Read
<1>3. CASE Goto(t, "ensure") /\ UNCHANGED loc
  BY <1>1, <1>3, GotoMoves, LocalStepKeeps DEF Read
<1>4. CASE Advance(t, loc[t])
  BY <1>1, <1>4, AdvanceMoves, LocalStepKeeps DEF Read
<1>5. CASE Fail(t)
  BY <1>1, <1>5, FailMoves, LocalStepKeeps DEF Read
<1> QED
  BY <1>2, <1>3, <1>4, <1>5 DEF Read

LEMMA EnsureKeeps ==
    ASSUME NEW t \in Tx, DirectoryInv, Ensure(t)
    PROVE  DirectoryInv'
<1>1. loc[t].at \in Pid /\ TypeOK
  BY DEF Ensure, DirectoryInv, Visits
<1>2. CASE Stored(t) # NoRow /\ Stored(t).state = "active" /\ Found(t, Stored(t).uuid)
  BY <1>1, <1>2, FoundKeeps DEF Ensure
<1>3. CASE Skip(t)
  BY <1>1, <1>3, SkipMoves, LocalStepKeeps DEF Ensure
<1>4. CASE Newer(loc[t].at) /\ Draw(t, 0)
  BY <1>1, <1>4, DrawMoves, LocalStepKeeps DEF Ensure
<1> QED
  BY <1>2, <1>3, <1>4 DEF Ensure

LEMMA AdoptKeeps ==
    ASSUME NEW t \in Tx, DirectoryInv, Adopt(t)
    PROVE  DirectoryInv'
<1>1. loc[t].at \in Pid /\ Newer(loc[t].at) /\ TypeOK /\ loc[t].attempt \in 0 .. 2
  BY DEF Adopt, DirectoryInv, Visits, TypeOK, Local
<1>2. CASE Stored(t) # NoRow /\ Stored(t).state = "active" /\ Found(t, Existing(t))
  BY <1>1, <1>2, FoundKeeps DEF Adopt, Existing
<1>3. CASE Skip(t)
  BY <1>1, <1>3, SkipMoves, LocalStepKeeps DEF Adopt
<1>4. CASE ~LastAttempt(t) /\ Draw(t, loc[t].attempt + 1)
  <2>1. loc[t].attempt + 1 \in 0 .. 2
    BY <1>1, <1>4 DEF LastAttempt
  <2> QED
    BY <1>1, <1>4, <2>1, DrawMoves, LocalStepKeeps DEF Adopt
<1> QED
  BY <1>2, <1>3, <1>4 DEF Adopt

LEMMA AnswerKeeps ==
    ASSUME NEW t \in Tx, DirectoryInv, Answer(t)
    PROVE  DirectoryInv'
<1>1. TypeOK /\ loc[t] \in Local /\ Visits(t)
  BY DEF DirectoryInv, TypeOK
<1>2. CASE Goto(t, "commit") /\ UNCHANGED loc
  BY <1>1, <1>2, GotoMoves, LocalStepKeeps DEF Answer
<1>3. ASSUME NEW n \in loc[t].names, UNCHANGED pc,
             Become(t, [loc[t] EXCEPT !.names = @ \ {n},
                 !.answer = @ \cup {p \in Pid : UniquePlayerName(n, p) /\ loc[t].found[p] # None}])
      PROVE  Moves(t, loc[t].found)
  <2> DEFINE new == {p \in Pid : UniquePlayerName(n, p) /\ loc[t].found[p] # None}
             l   == [loc[t] EXCEPT !.names = @ \ {n}, !.answer = @ \cup new]
  <2>1. l \in Local /\ l.found = loc[t].found /\ l.answer = loc[t].answer \cup new /\ l.at = loc[t].at
        /\ l.uuid = loc[t].uuid
    BY <1>1 DEF Local
  <2>2. loc' = [loc EXCEPT ![t] = l] /\ pc' = pc
    BY <1>3 DEF Become
  <2> QED
    BY <1>1, <2>1, <2>2 DEF TypeOK, Moves, Visits
<1> QED
  BY <1>2, <1>3, LocalStepKeeps DEF Answer

LEMMA FailureKeeps ==
    ASSUME NEW t \in Tx, DirectoryInv, SqlError(t) \/ AbortVictim(t)
    PROVE  DirectoryInv'
BY FailMoves, LocalStepKeeps DEF SqlError, AbortVictim, DirectoryInv

-----------------------------------------------------------------------------
(* INSERT, COMMIT, ROLLBACK and the site.                                  *)

\* The row is written: what t finds is what it has just stored.
LEMMA InsertWriteKeeps ==
    ASSUME NEW t \in Tx, DirectoryInv, pc[t] = "insert", Duplicate(t) = {},
           Statement(t, {}, LocksAt(t), Over(Put(Identity(loc[t].at), ActiveRow(loc[t].uuid)),
                                             Put(UuidKey(loc[t].uuid), loc[t].at))),
           Found(t, loc[t].uuid), UNCHANGED <<call, published>>
    PROVE  DirectoryInv'
<1> DEFINE p == loc[t].at
           x == loc[t].uuid
           w == Over(Put(Identity(p), ActiveRow(x)), Put(UuidKey(x), p))
           f == [loc[t].found EXCEPT ![p] = x]
<1>1. p \in Pid /\ x \in Uuid /\ Newer(p) /\ TypeOK
  BY DEF DirectoryInv, Visits
<1>2. View(t, Identity(p)) = NoRow /\ View(t, UuidKey(x)) = NoRow
  BY DEF Duplicate, PidTaken, UuidTaken, Stored
<1>3. /\ DOMAIN w = {Identity(p), UuidKey(x)} /\ Identity(p) # UuidKey(x)
      /\ w[Identity(p)] = ActiveRow(x) /\ w[UuidKey(x)] = p
  <2>1. Identity(p) # UuidKey(x)
    BY KeysDiffer
  <2>2. DOMAIN Put(Identity(p), ActiveRow(x)) = {Identity(p)} /\ DOMAIN Put(UuidKey(x), p) = {UuidKey(x)}
        /\ Put(Identity(p), ActiveRow(x))[Identity(p)] = ActiveRow(x) /\ Put(UuidKey(x), p)[UuidKey(x)] = p
    BY DEF Put
  <2> QED
    BY <2>1, <2>2 DEF Over
<1>4. LocksAt(t) = DOMAIN w /\ DOMAIN w \subseteq Row /\ DOMAIN db = Row
  BY <1>1, <1>3, InRow DEF LocksAt, NewKeys, TypeOK
<1>5. /\ ActiveRow(x) \in IdentityRow /\ ActiveRow(x) # NoRow /\ x # None
      /\ ActiveRow(x).uuid = x /\ p # NoRow
  BY <1>1, ActiveRowFacts, DirectoryAssumption
<1>6. Identity(p) \notin DOMAIN buf[t] /\ db[Identity(p)] = NoRow /\ db[UuidKey(x)] = NoRow
  <2>1. ASSUME Identity(p) \in DOMAIN buf[t] PROVE FALSE
    <3>1. PICK y \in Uuid : buf[t][Identity(p)] = ActiveRow(y)
      BY <1>1, <2>1 DEF DirectoryInv, Inserted
    <3> QED
      BY <1>2, <2>1, <3>1, ActiveRowFacts DEF View
  <2>2. \A r \in DOMAIN buf[t] : db[r] = NoRow
    BY DEF DirectoryInv, Inserted, StoreInv, SeenIsCurrent, WritesLocked
  <2> QED
    BY <1>2, <2>1, <2>2 DEF View
<1>7. /\ db' = db /\ StoreShape' /\ StoreInv'
      /\ \A o \in Tx \ {t} : buf'[o] = buf[o]
      /\ DOMAIN buf'[t] = DOMAIN w \cup DOMAIN buf[t]
      /\ \A r \in DOMAIN buf'[t] : buf'[t][r] = IF r \in DOMAIN w THEN w[r] ELSE buf[t][r]
  <2>1. StoreShape /\ StoreInv /\ Statement(t, {}, DOMAIN w, w)
    BY <1>4 DEF DirectoryInv, TypeOK
  <2>2. db' = db /\ buf'[t] = Over(w, buf[t]) /\ \A o \in Tx \ {t} : buf'[o] = buf[o]
    BY <1>4, <2>1, StatementEffect
  <2>3. StoreShape' /\ StoreInv'
    BY <1>4, <2>1, StatementKeepsStore
  <2> QED
    BY <2>2, <2>3 DEF Over
<1>8. Moves(t, f) /\ loc[t].found \in [Pid -> Uuid \cup {None}]
  BY <1>1, FoundMoves DEF TypeOK, Local
<1>9. TypeOK'
  <2>1. \A o \in Tx : Rows(seen'[o])
    BY <1>1, <1>7 DEF StoreShape, StoreInv, SeenIsCurrent, Rows, TypeOK
  <2>2. Rows(buf'[t])
    <3>1. \A r \in DOMAIN buf[t] : r \in Row /\ buf[t][r] \in Values(r) \cup {NoRow}
      BY <1>1 DEF TypeOK, Rows
    <3>2. ActiveRow(x) \in Values(Identity(p)) /\ p \in Values(UuidKey(x))
      BY <1>1, <1>5 DEF Values, Identity, UuidKey
    <3> QED
      BY <1>3, <1>4, <1>7, <3>1, <3>2 DEF Rows
  <2>3. \A o \in Tx : Rows(buf'[o])
    BY <1>1, <1>7, <2>2 DEF TypeOK
  <2>4. DOMAIN db' = Row /\ Rows(db')
    BY <1>1, <1>7 DEF TypeOK
  <2> QED
    BY <1>1, <1>7, <1>8, <2>1, <2>3, <2>4 DEF TypeOK, Moves, Rows, Values
<1>10. Inserted(t)'
  <2>1. \A r \in DOMAIN buf'[t] : seen'[t][r] = NoRow
    <3>1. \A r \in DOMAIN buf'[t] : r \in DOMAIN seen'[t] /\ seen'[t][r] = db[r]
      BY <1>7 DEF StoreInv, SeenIsCurrent, WritesLocked
    <3>2. \A r \in DOMAIN buf[t] : db[r] = NoRow
      BY DEF DirectoryInv, Inserted, StoreInv, SeenIsCurrent, WritesLocked
    <3> QED
      BY <1>3, <1>6, <1>7, <3>1, <3>2
  <2>2. ASSUME NEW q \in Pid, Identity(q) \in DOMAIN buf'[t]
        PROVE  /\ Newer(q)
               /\ \E y \in Uuid : /\ buf'[t][Identity(q)] = ActiveRow(y)
                                  /\ UuidKey(y) \in DOMAIN buf'[t] /\ buf'[t][UuidKey(y)] = q
    <3>1. CASE q = p
      BY <1>1, <1>3, <1>7, <3>1
    <3>2. CASE q # p
      <4>1. Identity(q) # Identity(p) /\ Identity(q) # UuidKey(x)
        BY <3>2, KeysDiffer
      <4>2. Identity(q) \in DOMAIN buf[t] /\ Newer(q)
        BY <1>3, <1>7, <2>2, <4>1 DEF DirectoryInv, Inserted
      <4>3. PICK y \in Uuid : /\ buf[t][Identity(q)] = ActiveRow(y)
                              /\ UuidKey(y) \in DOMAIN buf[t] /\ buf[t][UuidKey(y)] = q
        BY <4>2 DEF DirectoryInv, Inserted
      <4>4. q # NoRow
        BY DirectoryAssumption
      <4>5. UuidKey(y) # UuidKey(x) /\ UuidKey(y) # Identity(p)
        BY <1>2, <4>3, <4>4, KeysDiffer DEF View
      <4> QED
        BY <1>3, <1>7, <4>1, <4>2, <4>3, <4>5
    <3> QED
      BY <3>1, <3>2
  <2>3. \A q \in Pid : Player(q) \notin DOMAIN buf'[t]
    <3>1. \A q \in Pid : Player(q) \notin DOMAIN buf[t]
      BY DEF DirectoryInv, Inserted
    <3>2. \A q \in Pid : Player(q) # Identity(p) /\ Player(q) # UuidKey(x)
      BY DEF Player, Identity, UuidKey
    <3> QED
      BY <1>3, <1>7, <3>1, <3>2
  <2> QED
    BY <2>1, <2>2, <2>3 DEF Inserted, Newer, Identity, UuidKey, Player, ActiveRow
<1>11. Sound(t)'
  <2>1. ASSUME NEW q \in Pid, f[q] # None
        PROVE  View(t, Identity(q))' = ActiveRow(f[q])
    <3>1. CASE q = p
      <4>1. Identity(q) \in DOMAIN buf'[t] /\ buf'[t][Identity(q)] = ActiveRow(x)
        BY <1>3, <1>7, <3>1
      <4>2. View(t, Identity(q))' = ActiveRow(x)
        BY <4>1 DEF View, Identity
      <4>3. f[q] = x
        BY <1>8, <3>1
      <4> QED
        BY <4>2, <4>3
    <3>2. CASE q # p
      <4>1. Identity(q) # Identity(p) /\ Identity(q) # UuidKey(x)
        BY <3>2, KeysDiffer
      <4>2. View(t, Identity(q))' = View(t, Identity(q))
        BY <1>3, <1>7, <4>1 DEF View, Identity
      <4>3. f[q] = loc[t].found[q]
        BY <1>8, <3>2
      <4> QED
        BY <2>1, <4>2, <4>3 DEF DirectoryInv, Sound
    <3> QED
      BY <3>1, <3>2
  <2>2. \A q \in loc[t].answer : f[q] # None
    BY <1>1, <1>5, <1>8 DEF DirectoryInv, Sound, TypeOK, Local
  <2> QED
    BY <1>8, <2>1, <2>2 DEF Moves, Sound, ActiveRow
<1>12. ASSUME NEW o \in Tx, o # t PROVE Inserted(o)' /\ Sound(o)'
  <2>1. /\ buf'[o] = buf[o] /\ loc'[o] = loc[o] /\ Inserted(o) /\ Sound(o)
        /\ \A q : View(o, Identity(q))' = View(o, Identity(q))
    BY <1>7, <1>8, <1>12 DEF View, Identity, Moves, DirectoryInv
  <2>2. \A r \in DOMAIN buf[o] : seen'[o][r] = seen[o][r]
    BY <1>7, <2>1 DEF DirectoryInv, StoreInv, SeenIsCurrent, WritesLocked
  <2> QED
    BY <2>1, <2>2 DEF Inserted, Sound, Newer, Identity, UuidKey, Player, ActiveRow
<1>13. Permanent' /\ PublishedForGood'
  BY <1>7 DEF DirectoryInv, Permanent, PublishedForGood, Exists, Identity, UuidKey, ActiveRow, Newer
<1>14. \A o \in Tx : Visits(o)'
  BY <1>8 DEF DirectoryInv, Visits, Moves
<1> QED
  BY <1>7, <1>9, <1>10, <1>11, <1>12, <1>13, <1>14 DEF DirectoryInv

LEMMA InsertKeeps ==
    ASSUME NEW t \in Tx, DirectoryInv, Insert(t)
    PROVE  DirectoryInv'
<1>1. loc[t].at \in Pid /\ loc[t].uuid \in Uuid /\ Visits(t) /\ TypeOK /\ pc[t] = "insert"
  BY DEF Insert, DirectoryInv, Visits
<1>2. CASE Duplicate(t) = {}
  BY <1>1, <1>2, InsertWriteKeeps DEF Insert
<1>3. CASE Duplicate(t) # {}
  <2>1. SharesAt(t) \subseteq Row
    BY <1>1, InRow DEF SharesAt, Duplicate
  <2>2. Moves(t, loc[t].found)
    BY <1>1, <1>3, GotoMoves DEF Insert
  <2> QED
    BY <1>3, <2>1, <2>2, LockingStepKeeps DEF Insert
<1> QED
  BY <1>2, <1>3

\* The end of a call leaves no Go variables and no locks.
LEMMA ReturnKeeps ==
    ASSUME NEW t \in Tx, DirectoryInv, Return(t), buf'[t] = NoWrites
    PROVE  /\ DOMAIN pc' = Tx /\ call' \in [Tx -> Call] /\ loc' \in [Tx -> Local]
           /\ \A o \in Tx \ {t} : pc'[o] = pc[o] /\ loc'[o] = loc[o]
           /\ Inserted(t)' /\ Sound(t)' /\ \A o \in Tx : Visits(o)'
<1>1. NoCall \in Call
  BY DEF NoCall, Call
<1>2. /\ DOMAIN pc' = Tx /\ call' \in [Tx -> Call] /\ loc' \in [Tx -> Local]
      /\ \A o \in Tx \ {t} : pc'[o] = pc[o] /\ loc'[o] = loc[o]
      /\ pc'[t] = "idle" /\ loc'[t] = NoLocal
  BY <1>1, NoLocalTyped DEF Return, Goto, DirectoryInv, TypeOK
<1>3. Inserted(t)'
  <2>1. DOMAIN buf'[t] = {}
    BY DEF NoWrites
  <2> QED
    BY <2>1 DEF Inserted
<1>4. Sound(t)'
  BY <1>2, NoLocalTyped DEF Sound
<1>5. \A o \in Tx : Visits(o)'
  BY <1>2 DEF Visits, DirectoryInv
<1> QED
  BY <1>2, <1>3, <1>4, <1>5

LEMMA RollbackKeeps ==
    ASSUME NEW t \in Tx, DirectoryInv, Rollback(t)
    PROVE  DirectoryInv'
<1>1. /\ StoreShape' /\ StoreInv' /\ db' = db /\ seen'[t] = NoWrites /\ buf'[t] = NoWrites
      /\ \A o \in Tx \ {t} : seen'[o] = seen[o] /\ buf'[o] = buf[o]
  BY RollbackKeepsStore DEF Rollback, DirectoryInv, TypeOK
<1>2. /\ DOMAIN pc' = Tx /\ call' \in [Tx -> Call] /\ loc' \in [Tx -> Local]
      /\ \A o \in Tx \ {t} : pc'[o] = pc[o] /\ loc'[o] = loc[o]
      /\ Inserted(t)' /\ Sound(t)' /\ \A o \in Tx : Visits(o)'
  BY <1>1, ReturnKeeps DEF Rollback
<1>3. TypeOK'
  <2>1. Rows(NoWrites)
    BY DEF Rows, NoWrites
  <2>2. \A o \in Tx : Rows(seen'[o]) /\ Rows(buf'[o])
    BY <1>1, <2>1 DEF DirectoryInv, TypeOK
  <2> QED
    BY <1>1, <1>2, <2>2 DEF Rollback, DirectoryInv, TypeOK, Rows, Values
<1>4. ASSUME NEW o \in Tx, o # t PROVE Inserted(o)' /\ Sound(o)'
  <2>1. /\ buf'[o] = buf[o] /\ seen'[o] = seen[o] /\ loc'[o] = loc[o] /\ Inserted(o) /\ Sound(o)
        /\ \A q : View(o, Identity(q))' = View(o, Identity(q))
    BY <1>1, <1>2, <1>4 DEF View, Identity, DirectoryInv
  <2> QED
    BY <2>1 DEF Inserted, Sound, Newer, Identity, UuidKey, Player, ActiveRow
<1>5. Permanent' /\ PublishedForGood'
  BY <1>1 DEF Rollback, DirectoryInv, Permanent, PublishedForGood, Exists, Identity, UuidKey,
              ActiveRow, Newer
<1> QED
  BY <1>1, <1>2, <1>3, <1>4, <1>5 DEF DirectoryInv

\* A commit adds identities of players that had none, and keys that were free.
LEMMA CommitKeeps ==
    ASSUME NEW t \in Tx, DirectoryInv, Commit(t)
    PROVE  DirectoryInv'
<1>1. /\ StoreShape' /\ StoreInv' /\ DOMAIN db' = Row /\ DOMAIN db = Row
      /\ \A r \in Row : db'[r] = IF r \in DOMAIN buf[t] THEN buf[t][r] ELSE db[r]
      /\ seen'[t] = NoWrites /\ buf'[t] = NoWrites
      /\ \A o \in Tx \ {t} : seen'[o] = seen[o] /\ buf'[o] = buf[o]
  BY CommitKeepsStore DEF Commit, DirectoryInv, TypeOK
<1>2. /\ DOMAIN pc' = Tx /\ call' \in [Tx -> Call] /\ loc' \in [Tx -> Local]
      /\ \A o \in Tx \ {t} : pc'[o] = pc[o] /\ loc'[o] = loc[o]
      /\ Inserted(t)' /\ Sound(t)' /\ \A o \in Tx : Visits(o)'
  BY <1>1, ReturnKeeps DEF Commit
<1>3. \A r \in Row : db[r] # NoRow => db'[r] = db[r]
  BY <1>1 DEF DirectoryInv, Inserted, StoreInv, SeenIsCurrent, WritesLocked
<1>4. \A p \in Pid : db'[Identity(p)] = View(t, Identity(p))
  BY <1>1, InRow DEF View
<1>5. loc[t].found \in [Pid -> Uuid \cup {None}] /\ loc[t].answer \subseteq Pid
  BY DEF DirectoryInv, TypeOK, Local
<1>6. TypeOK'
  <2>1. Rows(db')
    BY <1>1 DEF DirectoryInv, TypeOK, Rows
  <2>2. Rows(NoWrites)
    BY DEF Rows, NoWrites
  <2>3. \A o \in Tx : Rows(seen'[o]) /\ Rows(buf'[o])
    BY <1>1, <2>2 DEF DirectoryInv, TypeOK
  <2>4. published' \in [Pid -> SUBSET Uuid]
    <3>1. published \in [Pid -> SUBSET Uuid]
      BY DEF DirectoryInv, TypeOK
    <3>2. \A p \in loc[t].answer : loc[t].found[p] \in Uuid
      BY <1>5 DEF DirectoryInv, Sound
    <3> QED
      BY <3>1, <3>2 DEF Commit
  <2> QED
    BY <1>1, <1>2, <2>1, <2>3, <2>4 DEF TypeOK, Rows, Values
<1>7. ASSUME NEW o \in Tx, o # t PROVE Inserted(o)' /\ Sound(o)'
  <2>1. buf'[o] = buf[o] /\ seen'[o] = seen[o] /\ loc'[o] = loc[o] /\ Inserted(o) /\ Sound(o)
    BY <1>1, <1>2, <1>7 DEF DirectoryInv
  <2>2. ASSUME NEW p \in Pid, loc[o].found[p] # None
        PROVE  View(o, Identity(p))' = ActiveRow(loc[o].found[p])
    <3>1. loc[o].found[p] \in Uuid
      BY <2>2 DEF DirectoryInv, TypeOK, Local
    <3>2. View(o, Identity(p)) = ActiveRow(loc[o].found[p]) /\ View(o, Identity(p)) # NoRow
      BY <2>1, <2>2, <3>1, ActiveRowFacts DEF Sound
    <3>3. View(o, Identity(p))' = View(o, Identity(p))
      BY <1>3, <2>1, <3>2, InRow DEF View, Identity
    <3> QED
      BY <3>2, <3>3
  <2> QED
    BY <2>1, <2>2 DEF Inserted, Sound, Newer, Identity, UuidKey, Player, ActiveRow
<1>8. Permanent'
  <2>1. \A p \in Pid : InitialIdentities[p] # NoRow => db'[Identity(p)] = InitialIdentities[p]
    BY <1>3, InRow DEF DirectoryInv, Permanent
  <2>2. \A x \in Reserved : db'[UuidKey(x)] = None
    BY <1>3, InRow, DirectoryAssumption DEF DirectoryInv, Permanent
  <2>3. ASSUME NEW p \in Pid, db'[Identity(p)] # NoRow
        PROVE  /\ InitialIdentities[p] # NoRow \/ Newer(p)
               /\ db'[Identity(p)].state = "active" => db'[Identity(p)].uuid \in Uuid
               /\ db'[Identity(p)].uuid # None => db'[UuidKey(db'[Identity(p)].uuid)] = p
    <3>1. CASE Identity(p) \in DOMAIN buf[t]
      <4>1. Newer(p) /\ Inserted(t)
        BY <3>1 DEF DirectoryInv, Inserted
      <4>2. PICK x \in Uuid : /\ buf[t][Identity(p)] = ActiveRow(x)
                              /\ UuidKey(x) \in DOMAIN buf[t] /\ buf[t][UuidKey(x)] = p
        BY <3>1, <4>1 DEF Inserted
      <4>3. db'[Identity(p)] = ActiveRow(x) /\ db'[UuidKey(x)] = p
        BY <1>1, <3>1, <4>2, InRow
      <4> QED
        BY <4>1, <4>3, ActiveRowFacts
    <3>2. CASE Identity(p) \notin DOMAIN buf[t]
      <4>1. db'[Identity(p)] = db[Identity(p)]
        BY <1>1, <3>2, InRow
      <4>2. db[Identity(p)] \in IdentityRow
        BY <1>1, <2>3, <4>1, InRow, RowsHave DEF DirectoryInv, TypeOK
      <4>3. /\ InitialIdentities[p] # NoRow \/ Newer(p)
            /\ db[Identity(p)].state = "active" => db[Identity(p)].uuid \in Uuid
            /\ db[Identity(p)].uuid # None => db[UuidKey(db[Identity(p)].uuid)] = p
        BY <2>3, <4>1 DEF DirectoryInv, Permanent, Exists
      <4>4. ASSUME db[Identity(p)].uuid # None
            PROVE  db'[UuidKey(db[Identity(p)].uuid)] = p
        <5>1. db[Identity(p)].uuid \in Uuid
          BY <4>2, <4>4 DEF IdentityRow
        <5> QED
          BY <1>3, <4>3, <4>4, <5>1, InRow, DirectoryAssumption
      <4> QED
        BY <4>1, <4>3, <4>4
    <3> QED
      BY <3>1, <3>2
  <2> QED
    BY <2>1, <2>2, <2>3 DEF Permanent, Exists, Newer, Identity, UuidKey
<1>9. PublishedForGood'
  <2>1. ASSUME NEW p \in Pid, published'[p] # {}
        PROVE  \E x \in Uuid : published'[p] = {x} /\ db'[Identity(p)] = ActiveRow(x)
    <3>1. published \in [Pid -> SUBSET Uuid]
      BY DEF DirectoryInv, TypeOK
    <3>2. ASSUME NEW x \in Uuid, published[p] = {x}, db[Identity(p)] = ActiveRow(x)
          PROVE  db'[Identity(p)] = ActiveRow(x)
      BY <1>3, <3>2, InRow, ActiveRowFacts
    <3>3. published[p] # {} => \E x \in Uuid : published[p] = {x} /\ db'[Identity(p)] = ActiveRow(x)
      BY <3>2 DEF DirectoryInv, PublishedForGood
    <3>4. CASE published'[p] = published[p]
      BY <2>1, <3>3, <3>4
    <3>5. CASE p \in loc[t].answer /\ published'[p] = published[p] \cup {loc[t].found[p]}
      <4> DEFINE x == loc[t].found[p]
      <4>1. x \in Uuid /\ View(t, Identity(p)) = ActiveRow(x)
        BY <1>5, <3>5 DEF DirectoryInv, Sound
      <4>2. db'[Identity(p)] = ActiveRow(x)
        BY <1>4, <4>1
      <4>3. \A y \in Uuid : ActiveRow(y) = ActiveRow(x) => y = x
        BY <4>1, ActiveRowFacts
      <4>4. published'[p] = {x}
        BY <3>3, <3>5, <4>1, <4>2, <4>3
      <4> QED
        BY <4>1, <4>2, <4>4
    <3> QED
      BY <3>1, <3>4, <3>5 DEF Commit
  <2> QED
    BY <2>1 DEF PublishedForGood, ActiveRow, Identity
<1> QED
  BY <1>1, <1>2, <1>6, <1>7, <1>8, <1>9 DEF DirectoryInv

\* The site writes players only, and not while somebody holds their lock.
LEMMA SetPlayerKeeps ==
    ASSUME NEW p \in Pid, NEW row, DirectoryInv, SetPlayer(p, row)
    PROVE  DirectoryInv'
<1> DEFINE w == Put(Player(p), row)
<1>1. DOMAIN w = {Player(p)} /\ w[Player(p)] = row /\ row \in PlayerRow \cup {NoRow}
  BY DirectoryAssumption DEF Put, SetPlayer
<1>2. /\ StoreShape' /\ StoreInv' /\ DOMAIN db' = Row /\ DOMAIN db = Row
      /\ \A r \in Row : db'[r] = IF r \in DOMAIN w THEN w[r] ELSE db[r]
      /\ seen' = seen /\ buf' = buf
  BY <1>1, InRow, AutoCommitKeepsStore DEF SetPlayer, DirectoryInv, TypeOK
<1>3. /\ \A q \in Pid : db'[Identity(q)] = db[Identity(q)]
      /\ \A x \in Uuid : db'[UuidKey(x)] = db[UuidKey(x)]
  BY <1>1, <1>2, InRow, KeysDiffer
<1>4. UNCHANGED <<pc, call, loc, published>>
  BY DEF SetPlayer
<1>5. TypeOK'
  <2>1. Values(Player(p)) = PlayerRow
    BY DEF Values, Player
  <2>2. Rows(db')
    BY <1>1, <1>2, <2>1 DEF DirectoryInv, TypeOK, Rows
  <2> QED
    BY <1>2, <1>4, <2>2 DEF DirectoryInv, TypeOK, Rows, Values
<1>6. Permanent'
  <2>1. \A q \in Pid : db[Identity(q)] # NoRow /\ db[Identity(q)].uuid # None
                          => db[Identity(q)].uuid \in Uuid
    BY <1>2, InRow, RowsHave DEF DirectoryInv, TypeOK, IdentityRow
  <2>2. \A x \in Reserved : x \in Uuid
    BY DirectoryAssumption
  <2> QED
    BY <1>3, <2>1, <2>2 DEF DirectoryInv, Permanent, Exists, Newer, Identity, UuidKey
<1>7. PublishedForGood'
  BY <1>3, <1>4 DEF DirectoryInv, PublishedForGood, Identity, ActiveRow
<1>8. ASSUME NEW o \in Tx PROVE Inserted(o)' /\ Sound(o)' /\ Visits(o)'
  <2>1. \A q \in Pid : View(o, Identity(q))' = View(o, Identity(q))
    BY <1>2, <1>3 DEF View, Identity
  <2> QED
    BY <1>2, <1>4, <2>1 DEF DirectoryInv, Inserted, Sound, Visits, Newer, Identity, UuidKey, Player,
                            ActiveRow
<1> QED
  BY <1>2, <1>5, <1>6, <1>7, <1>8 DEF DirectoryInv

LEMMA InitKeeps == Init => DirectoryInv
<1> SUFFICES ASSUME Init PROVE DirectoryInv
  OBVIOUS
<1>1. /\ DOMAIN db = Row /\ \A p \in Pid : /\ db[Player(p)] = InitialPlayers[p]
                                           /\ db[Identity(p)] = InitialIdentities[p]
      /\ \A x \in Uuid : db[UuidKey(x)] = UuidOwner(x)
  BY InRow DEF Init, StoreInit, Player, Identity, UuidKey
<1>2. \A x \in Uuid : UuidOwner(x) \in Pid \cup {None, NoRow}
  BY DEF UuidOwner
<1>3. /\ \A t \in Tx : DOMAIN seen[t] = {} /\ DOMAIN buf[t] = {} /\ excl[t] = {}
      /\ DOMAIN seen = Tx /\ DOMAIN buf = Tx /\ DOMAIN excl = Tx
  BY DEF Init, StoreInit, NoWrites
<1>4. Rows(db)
  BY <1>1, <1>2, RowsFrom, DirectoryAssumption
<1>5. TypeOK
  <2>1. NoCall \in Call
    BY DEF NoCall, Call
  <2> QED
    BY <1>1, <1>3, <1>4, <2>1, NoLocalTyped DEF Init, TypeOK, StoreShape, Rows
<1>6. StoreInv
  BY <1>3 DEF StoreInv, SeenIsCurrent, LocksExclude, WritesLocked
<1>7. Permanent
  <2>1. \A x \in Reserved : db[UuidKey(x)] = None
    BY <1>1, DirectoryAssumption DEF UuidOwner
  <2>2. ASSUME NEW p \in Pid, InitialIdentities[p] # NoRow
        PROVE  /\ InitialIdentities[p].state = "active" => InitialIdentities[p].uuid \in Uuid
               /\ InitialIdentities[p].uuid # None => db[UuidKey(InitialIdentities[p].uuid)] = p
    <3> DEFINE x == InitialIdentities[p].uuid
    <3>1. InitialIdentities[p] \in IdentityRow /\ (InitialIdentities[p].state = "blocked" <=> x = None)
      BY <2>2, DirectoryAssumption
    <3>2. x \in Uuid \cup {None}
      BY <3>1 DEF IdentityRow
    <3>3. ASSUME x # None PROVE db[UuidKey(x)] = p
      <4>1. x \notin Reserved /\ \A q \in Pid \ {p} : InitialIdentities[q] # NoRow
                                                          => InitialIdentities[q].uuid # x
        BY <2>2, <3>3, DirectoryAssumption
      <4>2. UuidOwner(x) = p
        BY <2>2, <4>1 DEF UuidOwner
      <4> QED
        BY <1>1, <3>2, <3>3, <4>2
    <3> QED
      BY <3>1, <3>2, <3>3
  <2> QED
    BY <1>1, <2>1, <2>2 DEF Permanent, Exists
<1>8. PublishedForGood
  BY DEF Init, PublishedForGood
<1>9. ASSUME NEW t \in Tx PROVE Inserted(t) /\ Sound(t) /\ Visits(t)
  BY <1>3, NoLocalTyped DEF Init, Inserted, Sound, Visits
<1> QED
  BY <1>5, <1>6, <1>7, <1>8, <1>9 DEF DirectoryInv

LEMMA NextKeeps == DirectoryInv /\ [Next]_vars => DirectoryInv'
<1> SUFFICES ASSUME DirectoryInv, [Next]_vars PROVE DirectoryInv'
  OBVIOUS
<1>1. ASSUME NEW t \in Tx, NEW c \in Calls, Start(t, c) PROVE DirectoryInv'
  BY <1>1, StartKeeps
<1>2. ASSUME NEW t \in Tx, Step(t) PROVE DirectoryInv'
  BY <1>2, FindUuidKeeps, FindNameKeeps, LockPlayerKeeps, RecheckKeeps, LockProfilesKeeps, ReadKeeps,
     EnsureKeeps, InsertKeeps, AdoptKeeps, AnswerKeeps, CommitKeeps, RollbackKeeps DEF Step
<1>3. ASSUME NEW t \in Tx, SqlError(t) \/ AbortVictim(t) PROVE DirectoryInv'
  BY <1>3, FailureKeeps
<1>4. ASSUME NEW p \in Pid, NEW row \in Edits[p], SetPlayer(p, row) PROVE DirectoryInv'
  BY <1>4, SetPlayerKeeps
<1>5. CASE UNCHANGED vars
  <2>1. UNCHANGED <<db, seen, excl, buf, pc, call, loc, published>>
    BY <1>5 DEF vars, store
  <2>2. TypeOK'
    BY <2>1 DEF DirectoryInv, TypeOK, StoreShape, Rows, Values
  <2>3. StoreInv' /\ Permanent' /\ PublishedForGood'
    BY <2>1 DEF DirectoryInv, StoreInv, SeenIsCurrent, LocksExclude, WritesLocked, Permanent,
                PublishedForGood, Exists, Newer, ActiveRow, Identity, UuidKey
  <2>4. ASSUME NEW t \in Tx PROVE Inserted(t)' /\ Sound(t)' /\ Visits(t)'
    <3>1. \A p : View(t, Identity(p))' = View(t, Identity(p))
      BY <2>1 DEF View, Identity
    <3> QED
      BY <2>1, <3>1 DEF DirectoryInv, Inserted, Sound, Visits, Newer, ActiveRow, Identity, UuidKey,
                        Player
  <2> QED
    BY <2>2, <2>3, <2>4 DEF DirectoryInv
<1> QED
  BY <1>1, <1>2, <1>3, <1>4, <1>5 DEF Next

-----------------------------------------------------------------------------
\* At every statement of every call, what is found is stored and what is stored stays
\* (service.go:177-232): the inductive invariant of the identity directory.
THEOREM DirectoryInvariant == Spec => []DirectoryInv
BY InitKeeps, NextKeeps, PTL DEF Spec

\* The UUID that a caller was told stays the player's, whatever other nodes, failures and the
\* site do (service.go:198-232).
THEOREM UuidIsForGood == Spec => []PublishedForGood
<1>1. DirectoryInv => PublishedForGood
  BY DEF DirectoryInv
<1> QED
  BY <1>1, DirectoryInvariant, PTL

\* No UUID is told of two players, and no reserved or retired one is given away (service.go:222-231).
THEOREM UuidsAreApart == Spec => []OnePlayerPerUuid
<1>1. DirectoryInv => OnePlayerPerUuid
  <2> SUFFICES ASSUME DirectoryInv, NEW p \in Pid, published[p] # {}
               PROVE  /\ published[p] \cap Reserved = {}
                      /\ \A q \in Pid \ {p} : /\ published[p] \cap published[q] = {}
                                              /\ InitialIdentities[q] # NoRow =>
                                                    InitialIdentities[q].uuid \notin published[p]
    BY DEF OnePlayerPerUuid
  <2>1. ASSUME NEW q \in Pid, published[q] # {}
        PROVE  \E x \in Uuid : published[q] = {x} /\ db[UuidKey(x)] = q
    <3>1. PICK x \in Uuid : published[q] = {x} /\ db[Identity(q)] = ActiveRow(x)
      BY <2>1 DEF DirectoryInv, PublishedForGood
    <3> QED
      BY <3>1, ActiveRowFacts DEF DirectoryInv, Permanent, Exists
  <2>2. PICK x \in Uuid : published[p] = {x} /\ db[UuidKey(x)] = p
    BY <2>1
  <2>3. x \notin Reserved
    BY <2>2, DirectoryAssumption DEF DirectoryInv, Permanent
  <2>4. ASSUME NEW q \in Pid \ {p} PROVE x \notin published[q]
    BY <2>1, <2>2, <2>4
  <2>5. ASSUME NEW q \in Pid \ {p}, InitialIdentities[q] # NoRow PROVE InitialIdentities[q].uuid # x
    <3>1. db[Identity(q)] = InitialIdentities[q] /\ x # None
      BY <2>5, ActiveRowFacts DEF DirectoryInv, Permanent
    <3> QED
      BY <2>2, <2>5, <3>1 DEF DirectoryInv, Permanent, Exists
  <2> QED
    BY <2>2, <2>3, <2>4, <2>5
<1> QED
  BY <1>1, DirectoryInvariant, PTL

\* Looking a player of the migrated site up never gives it a UUID (service.go:203-205).
THEOREM MigratedPlayersKeepTheirs == Spec => []MigrationDecides
<1>1. DirectoryInv => MigrationDecides
  <2> SUFFICES ASSUME DirectoryInv, NEW p \in Pid, p <= Watermark \/ InitialIdentities[p] # NoRow,
                      published[p] # {}
               PROVE  InitialIdentities[p] # NoRow /\ InitialIdentities[p].state = "active"
    BY DEF MigrationDecides
  <2>1. PICK x \in Uuid : db[Identity(p)] = ActiveRow(x)
    BY DEF DirectoryInv, PublishedForGood
  <2>2. db[Identity(p)] # NoRow /\ db[Identity(p)].state = "active"
    BY <2>1, ActiveRowFacts
  <2>3. InitialIdentities[p] # NoRow \/ p > Watermark
    BY <2>2 DEF DirectoryInv, Permanent, Exists, Newer
  <2>4. p \in Nat /\ Watermark \in Nat
    BY DirectoryAssumption
  <2>5. InitialIdentities[p] # NoRow
    BY <2>3, <2>4
  <2> QED
    BY <2>2, <2>5 DEF DirectoryInv, Permanent
<1> QED
  BY <1>1, DirectoryInvariant, PTL

-----------------------------------------------------------------------------
(* CallsInv: what each call has made sure of.                              *)

Calling(t) == Route(t) /\ Asks(t) /\ Reached(t) /\ OwnLocks(t) /\ InOrder(t)

\* A transaction that does not move, while committed identities stay.
LEMMA OthersKeepCalling ==
    ASSUME NEW o \in Tx, DirectoryInv, Calling(o),
           pc'[o] = pc[o], call'[o] = call[o], loc'[o] = loc[o],
           seen'[o] = seen[o], excl'[o] = excl[o], buf'[o] = buf[o],
           \A p \in Pid : db[Identity(p)] # NoRow => db'[Identity(p)] = db[Identity(p)]
    PROVE  Calling(o)'
<1>1. Route(o)'
  BY DEF Calling, Route, Op
<1>2. \A p : (Asked(o, p) => Asked(o, p)') /\ (Locked(o, p) => Locked(o, p)')
  BY DEF Asked, Locked, Op, Player
<1>3. Asks(o)'
  BY <1>2 DEF Calling, Asks, Op
<1>4. Reached(o)'
  <2>1. pc[o] \in {"lockPlayer", "read"} => loc[o].at \in Pid
    BY DEF DirectoryInv, Visits
  <2>2. ActiveRow(call[o].uuid) # NoRow
    BY DirectoryAssumption DEF DirectoryInv, TypeOK, Call, ActiveRow, IdentityRow
  <2> QED
    BY <1>2, <2>1, <2>2 DEF Calling, Reached, Op, Identity, ActiveRow
<1>5. OwnLocks(o)' /\ InOrder(o)'
  BY DEF Calling, OwnLocks, InOrder, Visiting, Identity
<1> QED
  BY <1>1, <1>3, <1>4, <1>5 DEF Calling

-----------------------------------------------------------------------------
\* What t still has locked after a statement.
Keeps(t) ==
    /\ call' = call /\ db' = db
    /\ \A r \in DOMAIN seen[t] : r \in DOMAIN seen'[t] /\ seen'[t][r] = seen[t][r]

\* With the Go variables l, t knows of names and players what Asks says.
Knows(t, l) ==
    /\ l.names \subseteq call[t].names
    /\ \A p \in Pid : l.candidate[p] # NoRow => l.candidate[p].name \in call[t].names
    /\ Op(t) \in {"name", "names"} => \A p \in l.todo : l.candidate[p] # NoRow
    /\ Op(t) \in {"ensure", "uuid"} => l.todo = {}
    /\ Op(t) = "login" => \A p \in l.todo : Asked(t, p)'
    /\ Op(t) = "uuid" => \A p \in Pid : l.found[p] \in {None, call[t].uuid}
    /\ \A p \in Pid : l.found[p] # None => Asked(t, p)'

\* All that t has inserted is of players before those still to visit.
Behind(t, l) ==
    \A p \in Pid : Identity(p) \in DOMAIN buf'[t] => \A q \in l.todo : p < q

LEMMA KeepsAsked ==
    ASSUME NEW t \in Tx, NEW p, Keeps(t)
    PROVE  (Asked(t, p) => Asked(t, p)') /\ (Locked(t, p) => Locked(t, p)')
BY DEF Keeps, Asked, Locked, Op, Player

LEMMA StillKnows ==
    ASSUME NEW t \in Tx, Asks(t), Keeps(t)
    PROVE  Knows(t, loc[t])
BY KeepsAsked DEF Asks, Knows

\* The next statement visits no player.
LEMMA KnowsEnds ==
    ASSUME NEW t \in Tx, NEW l, DirectoryInv, Keeps(t), OwnLocks(t)', Knows(t, l), Behind(t, l),
           loc'[t] = l, pc'[t] \in {"answer", "commit", "fail"}
    PROVE  Calling(t)'
<1>1. Route(t)' /\ Reached(t)'
  BY DEF Route, Reached
<1>2. Asks(t)'
  BY DEF Asks, Knows, Keeps, Op
<1>3. InOrder(t)'
  BY DEF InOrder, Visiting, Behind, Identity
<1> QED
  BY <1>1, <1>2, <1>3 DEF Calling

LEMMA FailCalls ==
    ASSUME NEW t \in Tx, DirectoryInv, Keeps(t), OwnLocks(t)', Knows(t, loc[t]), Behind(t, loc[t]),
           Fail(t)
    PROVE  Calling(t)'
BY KnowsEnds DEF Fail, Goto, DirectoryInv, TypeOK

\* The next player of a loop is one that was asked for, and after all that is inserted.
LEMMA AdvanceCalls ==
    ASSUME NEW t \in Tx, NEW l \in Local, DirectoryInv, Keeps(t), OwnLocks(t)', Knows(t, l),
           Behind(t, l), Advance(t, l), Op(t) # "uuid"
    PROVE  Calling(t)'
<1>1. t \in DOMAIN pc /\ t \in DOMAIN loc /\ l.todo \subseteq Pid
  BY DEF DirectoryInv, TypeOK, Local
<1>2. CASE l.todo = {} /\ Op(t) = "names" /\ Goto(t, "answer")
           /\ Become(t, [l EXCEPT !.at = None, !.names = call[t].names])
  <2> DEFINE m == [l EXCEPT !.at = None, !.names = call[t].names]
  <2>1. /\ m.names = call[t].names /\ m.candidate = l.candidate /\ m.todo = l.todo
        /\ m.found = l.found
    BY DEF Local
  <2>2. Knows(t, m) /\ Behind(t, m)
    BY <2>1 DEF Knows, Behind
  <2> QED
    BY <1>1, <1>2, <2>2, KnowsEnds DEF Goto, Become
<1>3. CASE l.todo = {} /\ Goto(t, "commit")
           /\ Become(t, [l EXCEPT !.at = None, !.answer = {p \in Pid : l.found[p] # None}])
  <2> DEFINE m == [l EXCEPT !.at = None, !.answer = {p \in Pid : l.found[p] # None}]
  <2>1. /\ m.names = l.names /\ m.candidate = l.candidate /\ m.todo = l.todo
        /\ m.found = l.found
    BY DEF Local
  <2>2. Knows(t, m) /\ Behind(t, m)
    BY <2>1 DEF Knows, Behind
  <2> QED
    BY <1>1, <1>3, <2>2, KnowsEnds DEF Goto, Become
<1>4. ASSUME NEW p \in Smallest(l.todo), Become(t, [l EXCEPT !.at = p, !.todo = l.todo \ {p}]),
             Goto(t, IF Op(t) = "login" THEN "read" ELSE "lockPlayer")
      PROVE  Calling(t)'
  <2> DEFINE m == [l EXCEPT !.at = p, !.todo = l.todo \ {p}]
  <2>1. /\ m.names = l.names /\ m.candidate = l.candidate /\ m.todo = l.todo \ {p}
        /\ m.found = l.found /\ m.at = p
    BY DEF Local
  <2>2. /\ loc'[t] = m /\ pc'[t] = IF Op(t) = "login" THEN "read" ELSE "lockPlayer"
        /\ p \in l.todo /\ p \in Nat /\ (\A q \in l.todo : q \in Nat /\ p <= q) /\ Op(t)' = Op(t)
    BY <1>1, <1>4, DirectoryAssumption DEF Goto, Become, Smallest, Keeps, Op
  <2>3. Route(t)'
    BY <2>2 DEF Route
  <2>4. Asks(t)'
    BY <2>1, <2>2 DEF Asks, Knows, Keeps, Op
  <2>5. Reached(t)'
    BY <2>1, <2>2 DEF Reached, Knows
  <2>6. InOrder(t)'
    BY <2>1, <2>2 DEF InOrder, Visiting, Behind, Identity
  <2> QED
    BY <2>3, <2>4, <2>5, <2>6 DEF Calling
<1> QED
  BY <1>2, <1>3, <1>4 DEF Advance

LEMMA SkipCalls ==
    ASSUME NEW t \in Tx, DirectoryInv, Keeps(t), OwnLocks(t)', Knows(t, loc[t]), Behind(t, loc[t]),
           Skip(t)
    PROVE  Calling(t)'
<1>1. loc[t] \in Local
  BY DEF DirectoryInv, TypeOK
<1> QED
  BY <1>1, AdvanceCalls, FailCalls DEF Skip

\* The player found is one that was asked for, under the UUID asked for.
LEMMA FoundCalls ==
    ASSUME NEW t \in Tx, NEW x \in Uuid, NEW p \in Pid, DirectoryInv, Keeps(t), OwnLocks(t)',
           Knows(t, loc[t]), Behind(t, loc[t]), p = loc[t].at, Asked(t, p)', Found(t, x),
           Op(t) = "uuid" => x = call[t].uuid
    PROVE  Calling(t)'
<1> DEFINE l == [loc[t] EXCEPT !.found[p] = x]
<1>1. loc[t] \in Local /\ loc[t].found \in [Pid -> Uuid \cup {None}]
  BY DEF DirectoryInv, TypeOK, Local
<1>2. /\ l \in Local /\ l.found = [loc[t].found EXCEPT ![p] = x]
      /\ l.names = loc[t].names /\ l.candidate = loc[t].candidate /\ l.todo = loc[t].todo
  BY <1>1 DEF Local
<1>3. \A q \in Pid : l.found[q] = IF q = p THEN x ELSE loc[t].found[q]
  BY <1>1, <1>2
<1>4. Knows(t, l) /\ Behind(t, l)
  BY <1>2, <1>3 DEF Knows, Behind
<1>5. CASE Op(t) \in {"names", "login"}
  BY <1>2, <1>4, <1>5, AdvanceCalls DEF Found
<1>6. CASE Op(t) \notin {"names", "login"}
  <2> DEFINE m == [l EXCEPT !.answer = {p}]
  <2>1. /\ m.names = l.names /\ m.candidate = l.candidate /\ m.todo = l.todo
        /\ m.found = l.found
    BY <1>2 DEF Local
  <2>2. Knows(t, m) /\ Behind(t, m)
    BY <1>4, <2>1 DEF Knows, Behind
  <2>3. Become(t, m) /\ Goto(t, "commit")
    BY <1>6 DEF Found
  <2>4. loc'[t] = m /\ pc'[t] = "commit"
    BY <2>3 DEF Become, Goto, DirectoryInv, TypeOK
  <2> QED
    BY <2>2, <2>4, KnowsEnds
<1> QED
  BY <1>5, <1>6

\* The visited player goes on to the next statement.
LEMMA VisitCalls ==
    ASSUME NEW t \in Tx, NEW l, DirectoryInv, Keeps(t), OwnLocks(t)', Knows(t, l), InOrder(t),
           pc[t] \in Visiting, DOMAIN buf'[t] = DOMAIN buf[t],
           loc'[t] = l, l.at = loc[t].at, l.todo = loc[t].todo,
           pc'[t] \in Visiting \ {"lockPlayer"}, Route(t)', Reached(t)'
    PROVE  Calling(t)'
<1>1. Asks(t)'
  BY DEF Asks, Knows, Keeps, Op
<1>2. InOrder(t)'
  BY DEF InOrder, Visiting, Identity
<1> QED
  BY <1>1, <1>2 DEF Calling

LEMMA StillBehind ==
    ASSUME NEW t \in Tx, InOrder(t), DOMAIN buf'[t] = DOMAIN buf[t]
    PROVE  Behind(t, loc[t])
BY DEF InOrder, Behind

-----------------------------------------------------------------------------
(* What the statements of a call keep.                                     *)

\* t has all it had, and knows all it knew.
Carries(t) ==
    /\ Keeps(t) /\ OwnLocks(t)' /\ DOMAIN buf'[t] = DOMAIN buf[t]
    /\ Knows(t, loc[t]) /\ Behind(t, loc[t])

LEMMA LocalCarries ==
    ASSUME NEW t \in Tx, DirectoryInv, Calling(t), UNCHANGED <<store, call>>
    PROVE  Carries(t)
<1>1. Keeps(t) /\ DOMAIN buf'[t] = DOMAIN buf[t]
  BY DEF Keeps, store
<1>2. OwnLocks(t)'
  BY DEF Calling, OwnLocks, store
<1> QED
  BY <1>1, <1>2, StillKnows, StillBehind DEF Calling, Carries

\* A locking read keeps the rows that it found, and only those.
LEMMA LockingCarries ==
    ASSUME NEW t \in Tx, NEW sh \in SUBSET Row, DirectoryInv, Calling(t), call' = call,
           Statement(t, sh, {}, NoWrites)
    PROVE  /\ Carries(t)
           /\ \A r \in sh : db[r] # NoRow => r \in DOMAIN seen'[t] /\ seen'[t][r] = db[r]
<1> DEFINE held == {r \in sh : db[r] # NoRow} \cup ({r \in {} : db[r] # NoRow} \cup DOMAIN NoWrites)
<1>1. DOMAIN NoWrites = {} /\ held = {r \in sh : db[r] # NoRow}
  BY DEF NoWrites
<1>2. /\ db' = db /\ excl'[t] = excl[t]
      /\ seen'[t] = Over([r \in held |-> db[r]], seen[t]) /\ buf'[t] = Over(NoWrites, buf[t])
  <2>1. t \in DOMAIN seen /\ t \in DOMAIN excl /\ t \in DOMAIN buf
    BY DEF DirectoryInv, TypeOK, StoreShape
  <2> QED
    BY <1>1, <2>1 DEF Statement
<1>3. /\ DOMAIN seen'[t] = held \cup DOMAIN seen[t]
      /\ \A r \in DOMAIN seen'[t] : seen'[t][r] = IF r \in held THEN db[r] ELSE seen[t][r]
      /\ DOMAIN buf'[t] = DOMAIN buf[t]
  BY <1>1, <1>2 DEF Over
<1>4. \A r \in DOMAIN seen[t] : seen[t][r] = db[r]
  BY DEF DirectoryInv, StoreInv, SeenIsCurrent
<1>5. Keeps(t)
  BY <1>2, <1>3, <1>4 DEF Keeps
<1>6. OwnLocks(t)'
  BY <1>1, <1>2, <1>3 DEF Calling, OwnLocks
<1> QED
  BY <1>1, <1>3, <1>5, <1>6, StillKnows, StillBehind DEF Calling, Carries

\* The visited player's UUID, if its row is active: a lookup by UUID finds the one it asked for.
LEMMA StoredUuid ==
    ASSUME NEW t \in Tx, DirectoryInv, Calling(t), loc[t].at \in Pid,
           Stored(t) # NoRow, Stored(t).state = "active"
    PROVE  /\ Stored(t).uuid \in Uuid
           /\ pc[t] = "read" /\ Op(t) = "uuid" => Stored(t).uuid = call[t].uuid
<1> DEFINE p == loc[t].at
<1>1. CASE Identity(p) \in DOMAIN buf[t]
  <2>1. PICK y \in Uuid : buf[t][Identity(p)] = ActiveRow(y)
    BY <1>1 DEF DirectoryInv, Inserted
  <2>2. Stored(t).uuid = y
    BY <1>1, <2>1, ActiveRowFacts DEF Stored, View
  <2>3. db[Identity(p)] = NoRow
    BY <1>1 DEF DirectoryInv, Inserted, StoreInv, SeenIsCurrent, WritesLocked
  <2>4. ActiveRow(call[t].uuid) # NoRow
    BY DirectoryAssumption DEF DirectoryInv, TypeOK, Call, ActiveRow, IdentityRow
  <2> QED
    BY <2>2, <2>3, <2>4 DEF Calling, Reached
<1>2. CASE Identity(p) \notin DOMAIN buf[t]
  <2>1. Stored(t) = db[Identity(p)]
    BY <1>2 DEF Stored, View
  <2>2. Stored(t).uuid \in Uuid
    BY <2>1 DEF DirectoryInv, Permanent, Exists
  <2> QED
    BY <2>1, <2>2 DEF Calling, Reached, ActiveRow
<1> QED
  BY <1>1, <1>2

LEMMA StoredCalls ==
    ASSUME NEW t \in Tx, DirectoryInv, Calling(t), pc[t] \in {"read", "ensure", "adopt"},
           Stored(t) # NoRow, Stored(t).state = "active", Found(t, Stored(t).uuid),
           UNCHANGED <<store, call>>
    PROVE  Calling(t)'
<1>1. PICK p \in Pid : p = loc[t].at
  BY DEF DirectoryInv, Visits
<1>2. Carries(t)
  BY LocalCarries
<1>3. Asked(t, p)'
  BY <1>1, <1>2, KeepsAsked DEF Carries, Calling, Reached
<1>4. /\ Stored(t).uuid \in Uuid
      /\ Op(t) = "uuid" => Stored(t).uuid = call[t].uuid
  BY <1>1, StoredUuid DEF Calling, Route
<1> QED
  BY <1>1, <1>2, <1>3, <1>4, FoundCalls DEF Carries

LEMMA StartCalls ==
    ASSUME NEW t \in Tx, NEW c \in Calls, DirectoryInv, Calling(t), Start(t, c)
    PROVE  Calling(t)'
<1> DEFINE l == [NoLocal EXCEPT !.at = c.pid, !.names = c.names]
<1>1. c \in Call /\ c.op \in {"ensure", "uuid", "name", "names", "login"}
  BY DirectoryAssumption DEF Call
<1>2. /\ l.names = c.names /\ l.todo = {} /\ l.candidate = [p \in Pid |-> NoRow]
      /\ l.found = [p \in Pid |-> None]
  BY DEF NoLocal
<1>3. /\ loc'[t] = l /\ call'[t] = c /\ seen' = seen /\ excl' = excl /\ buf' = buf
      /\ pc'[t] = CASE c.op = "ensure" -> "lockPlayer"
                    [] c.op = "uuid"   -> "findUuid"
                    [] c.op = "login"  -> "lockProfiles"
                    [] OTHER           -> "findNames"
      /\ pc[t] = "idle"
  BY DEF Start, store, Goto, Become, DirectoryInv, TypeOK
<1>4. Route(t)' /\ Reached(t)'
  BY <1>1, <1>3 DEF Route, Reached, Op
<1>5. Asks(t)'
  BY <1>2, <1>3 DEF Asks, Op
<1>6. DOMAIN buf[t] = {}
  BY <1>3 DEF Calling, InOrder, Visiting
<1>7. OwnLocks(t)' /\ InOrder(t)'
  BY <1>2, <1>3, <1>6 DEF Calling, OwnLocks, InOrder, Visiting
<1> QED
  BY <1>4, <1>5, <1>7 DEF Calling

LEMMA FindUuidCalls ==
    ASSUME NEW t \in Tx, DirectoryInv, Calling(t), FindUuid(t)
    PROVE  Calling(t)'
<1>1. Carries(t)
  BY LocalCarries DEF FindUuid
<1>2. CASE Fail(t)
  BY <1>1, <1>2, FailCalls DEF Carries
<1>3. CASE ~Fail(t)
  <2>1. PICK p \in Pid : db[Identity(p)] = ActiveRow(call[t].uuid) /\ Become(t, [loc[t] EXCEPT !.at = p])
    BY <1>3 DEF FindUuid
  <2> DEFINE l == [loc[t] EXCEPT !.at = p]
  <2>2. /\ l.names = loc[t].names /\ l.todo = loc[t].todo /\ l.candidate = loc[t].candidate
        /\ l.found = loc[t].found /\ l.at = p
    BY DEF DirectoryInv, TypeOK, Local
  <2>3. /\ loc'[t] = l /\ pc'[t] = "lockPlayer" /\ call' = call /\ db' = db /\ buf' = buf
        /\ Op(t) = "uuid" /\ pc[t] = "findUuid"
    BY <1>3, <2>1 DEF FindUuid, store, Become, Goto, DirectoryInv, TypeOK, Calling, Route
  <2>4. loc[t].todo = {} /\ DOMAIN buf[t] = {}
    BY <2>3 DEF Calling, Asks, InOrder, Visiting
  <2>5. Route(t)'
    BY <2>3 DEF Route, Op
  <2>6. Asks(t)'
    BY <1>1, <2>2, <2>3 DEF Asks, Carries, Knows, Op
  <2>7. Reached(t)'
    BY <2>1, <2>2, <2>3 DEF Reached, Op, Identity, ActiveRow
  <2>8. InOrder(t)'
    BY <2>2, <2>3, <2>4 DEF InOrder
  <2> QED
    BY <1>1, <2>5, <2>6, <2>7, <2>8 DEF Calling, Carries
<1> QED
  BY <1>2, <1>3

LEMMA FindNameCalls ==
    ASSUME NEW t \in Tx, DirectoryInv, Calling(t), FindName(t)
    PROVE  Calling(t)'
<1>1. /\ Carries(t) /\ loc[t] \in Local /\ Op(t) \in {"name", "names"} /\ DOMAIN buf[t] = {}
      /\ pc[t] = "findNames"
  BY LocalCarries DEF FindName, DirectoryInv, TypeOK, Calling, Route, InOrder, Visiting
<1>2. CASE Advance(t, loc[t])
  BY <1>1, <1>2, AdvanceCalls DEF Carries
<1>3. ASSUME NEW l \in Local, Knows(t, l), loc'[t] = l, pc'[t] = pc[t]
      PROVE  Calling(t)'
  <2>1. call' = call /\ buf' = buf
    BY DEF FindName, store
  <2>2. Route(t)' /\ Reached(t)'
    BY <1>1, <1>3, <2>1 DEF Route, Reached, Op
  <2>3. Asks(t)'
    BY <1>3, <2>1 DEF Asks, Knows, Op
  <2>4. InOrder(t)'
    BY <1>1, <1>3, <2>1 DEF InOrder, Visiting
  <2> QED
    BY <1>1, <2>2, <2>3, <2>4 DEF Calling, Carries
<1>4. ASSUME NEW n \in loc[t].names,
             LET rest  == [loc[t] EXCEPT !.names = @ \ {n}]
                 named == {p \in Pid : UniquePlayerName(n, p)}
             IN  \/ /\ named = {} /\ Op(t) = "name" /\ Fail(t)
                 \/ /\ named \subseteq loc[t].todo /\ (named = {} => Op(t) = "names")
                    /\ Become(t, rest) /\ UNCHANGED pc
                 \/ \E p \in named \ loc[t].todo :
                       /\ Become(t, [rest EXCEPT !.todo = @ \cup {p}, !.candidate[p] = db[Player(p)],
                                                 !.candidate[p].name = n])
                       /\ UNCHANGED pc
      PROVE  Calling(t)'
  <2> DEFINE rest  == [loc[t] EXCEPT !.names = @ \ {n}]
             named == {p \in Pid : UniquePlayerName(n, p)}
  <2>1. /\ rest \in Local /\ rest.names = loc[t].names \ {n} /\ rest.todo = loc[t].todo
        /\ rest.candidate = loc[t].candidate /\ rest.found = loc[t].found
    BY <1>1 DEF Local
  <2>2. Knows(t, rest) /\ n \in call[t].names
    BY <1>1, <2>1 DEF Carries, Knows
  <2>3. CASE Fail(t)
    BY <1>1, <2>3, FailCalls DEF Carries
  <2>4. CASE Become(t, rest) /\ UNCHANGED pc
    BY <1>3, <2>1, <2>2, <2>4 DEF Become, DirectoryInv, TypeOK
  <2>5. ASSUME NEW p \in named \ loc[t].todo, UNCHANGED pc,
               Become(t, [rest EXCEPT !.todo = @ \cup {p}, !.candidate[p] = db[Player(p)],
                                      !.candidate[p].name = n])
        PROVE  Calling(t)'
    <3> DEFINE row == [db[Player(p)] EXCEPT !.name = n]
               l   == [rest EXCEPT !.todo = @ \cup {p}, !.candidate[p] = db[Player(p)],
                                   !.candidate[p].name = n]
    <3>1. p \in Pid /\ db[Player(p)] \in PlayerRow
      BY InRow, RowsHave DEF DirectoryInv, TypeOK, UniquePlayerName, Exists
    <3>2. row \in PlayerRow /\ row # NoRow /\ row.name = n
      BY <1>1, <3>1, DirectoryAssumption DEF PlayerRow, Local
    <3>3. l = [[rest EXCEPT !.todo = @ \cup {p}]
                  EXCEPT !.candidate = [[rest.candidate EXCEPT ![p] = db[Player(p)]] EXCEPT ![p] = row]]
      BY <2>1, <3>1 DEF Local
    <3>4. /\ l \in Local /\ l.names = rest.names /\ l.todo = rest.todo \cup {p}
          /\ l.found = rest.found
          /\ \A q \in Pid : l.candidate[q] = IF q = p THEN row ELSE rest.candidate[q]
      BY <2>1, <3>1, <3>2, <3>3 DEF Local
    <3>5. Knows(t, l)
      <4> HIDE DEF l, row, rest
      <4>1. Op(t) \in {"name", "names"}
        BY <1>1
      <4>2. l.names \subseteq call[t].names
        BY <2>2, <3>4 DEF Knows
      <4>3. \A q \in Pid : l.candidate[q] # NoRow => l.candidate[q].name \in call[t].names
        BY <2>2, <3>2, <3>4 DEF Knows
      <4>4. \A q \in l.todo : l.candidate[q] # NoRow
        <5>1. \A q \in rest.todo : q \in Pid /\ rest.candidate[q] # NoRow
          BY <2>1, <2>2, <4>1 DEF Knows, Local
        <5> QED
          BY <3>1, <3>2, <3>4, <5>1
      <4>5. \A q \in Pid : l.found[q] # None => Asked(t, q)'
        BY <2>2, <3>4 DEF Knows
      <4> QED
        BY <4>1, <4>2, <4>3, <4>4, <4>5 DEF Knows
    <3>6. loc'[t] = l
      BY <2>5 DEF Become, DirectoryInv, TypeOK
    <3> QED
      BY <1>3, <2>5, <3>4, <3>5, <3>6
  <2> QED
    BY <1>4, <2>3, <2>4, <2>5
<1> QED
  BY <1>2, <1>4 DEF FindName

LEMMA SharesOfRow ==
    ASSUME NEW t \in Tx, DirectoryInv
    PROVE  SharesAt(t) \in SUBSET Row
<1>1. pc[t] \in {"lockPlayer", "insert"} => loc[t].at \in Pid
  BY DEF DirectoryInv, Visits
<1>2. pc[t] = "insert" => loc[t].uuid \in Uuid
  BY DEF DirectoryInv, Visits
<1>3. PlayersOf(call[t].uid) \subseteq Pid
  BY DEF PlayersOf
<1> QED
  BY <1>1, <1>2, <1>3, InRow DEF SharesAt, PlayerLock, Duplicate

LEMMA LockPlayerCalls ==
    ASSUME NEW t \in Tx, DirectoryInv, Calling(t), LockPlayer(t)
    PROVE  Calling(t)'
<1>1. PICK p \in Pid : p = loc[t].at
  BY DEF LockPlayer, DirectoryInv, Visits
<1>2. /\ pc[t] = "lockPlayer" /\ SharesAt(t) = {Player(p)} /\ call' = call
      /\ Statement(t, SharesAt(t), {}, NoWrites)
  BY <1>1 DEF LockPlayer, SharesAt, PlayerLock
<1>3. Carries(t) /\ (Exists(Player(p)) => Locked(t, p)')
  BY <1>2, LockingCarries, SharesOfRow DEF Locked, Exists, Player
<1>4. CASE ~Exists(Player(p))
  BY <1>1, <1>3, <1>4, SkipCalls DEF LockPlayer, Carries
<1>5. CASE Exists(Player(p))
  <2>1. /\ loc'[t] = loc[t] /\ db' = db /\ Op(t)' = Op(t)
        /\ pc'[t] = CASE Op(t) = "ensure" -> "ensure" [] Op(t) = "uuid" -> "read" [] OTHER -> "recheck"
    BY <1>1, <1>3, <1>5 DEF LockPlayer, Goto, Op, Carries, Keeps, DirectoryInv, TypeOK
  <2>2. Op(t) \in {"ensure", "uuid", "name", "names"}
    BY <1>2 DEF Calling, Route, DirectoryInv, TypeOK, Call, Op
  <2>3. Op(t) \in {"ensure", "uuid"} => Asked(t, p)'
    BY <1>3, <1>5, <2>1 DEF Asked
  <2>4. Route(t)' /\ pc'[t] \in Visiting \ {"lockPlayer"}
    BY <2>1, <2>2 DEF Route, Visiting
  <2>5. Reached(t)'
    BY <1>1, <1>2, <1>3, <1>5, <2>1, <2>2, <2>3 DEF Reached, Calling, Identity, ActiveRow
  <2> QED
    BY <1>2, <1>3, <2>1, <2>4, <2>5, VisitCalls DEF Carries, Calling, Visiting
<1> QED
  BY <1>4, <1>5

\* The lock was taken before the name was looked up again.
LEMMA RecheckCalls ==
    ASSUME NEW t \in Tx, DirectoryInv, Calling(t), Recheck(t)
    PROVE  Calling(t)'
<1>1. PICK p \in Pid : p = loc[t].at
  BY DEF Recheck, DirectoryInv, Visits
<1>2. Carries(t) /\ pc[t] = "recheck"
  BY LocalCarries DEF Recheck
<1>3. CASE Skip(t)
  BY <1>2, <1>3, SkipCalls DEF Carries
<1>4. CASE ~Skip(t)
  <2>1. /\ loc'[t] = loc[t] /\ pc'[t] = "ensure" /\ Op(t)' = Op(t)
        /\ UniquePlayerName(loc[t].candidate[p].name, p)
    BY <1>1, <1>4 DEF Recheck, Goto, Op, DirectoryInv, TypeOK
  <2>2. db[Player(p)].name \in call[t].names
    BY <1>1, <1>2, <2>1 DEF UniquePlayerName, Calling, Reached, Asks
  <2>3. Op(t) \in {"name", "names"} /\ Locked(t, p)
    BY <1>1, <1>2 DEF Calling, Reached, Route
  <2>4. Asked(t, p)
    BY <2>2, <2>3 DEF Asked, Locked, DirectoryInv, StoreInv, SeenIsCurrent
  <2>5. Asked(t, p)'
    BY <1>2, <2>4, KeepsAsked DEF Carries
  <2>6. Route(t)' /\ Reached(t)'
    BY <1>1, <2>1, <2>3, <2>5 DEF Route, Reached
  <2> QED
    BY <1>2, <2>1, <2>6, VisitCalls DEF Carries, Calling, Visiting
<1> QED
  BY <1>3, <1>4

LEMMA LockProfilesCalls ==
    ASSUME NEW t \in Tx, DirectoryInv, Calling(t), LockProfiles(t)
    PROVE  Calling(t)'
<1> DEFINE mine == PlayersOf(call[t].uid)
           l == [loc[t] EXCEPT !.todo = mine]
<1>1. /\ pc[t] = "lockProfiles" /\ SharesAt(t) = {Player(p) : p \in mine} /\ call' = call
      /\ Statement(t, SharesAt(t), {}, NoWrites) /\ Op(t) = "login" /\ DOMAIN buf[t] = {}
      /\ mine \subseteq Pid /\ loc[t] \in Local
  BY DEF LockProfiles, SharesAt, Calling, Route, InOrder, Visiting, PlayersOf, DirectoryInv, TypeOK
<1>2. /\ Carries(t)
      /\ \A p \in mine : Player(p) \in DOMAIN seen'[t] /\ seen'[t][Player(p)] = db[Player(p)]
  BY <1>1, LockingCarries, SharesOfRow DEF PlayersOf, Exists
<1>3. ASSUME NEW p \in mine PROVE Asked(t, p)'
  <2>1. Op(t)' = "login" /\ call'[t].uid = call[t].uid
    BY <1>1 DEF Op
  <2>2. db[Player(p)] # NoRow /\ db[Player(p)].owner = call[t].uid
    BY DEF PlayersOf, Exists
  <2> QED
    BY <1>2, <2>1, <2>2 DEF Asked, Locked, Player
<1>4. /\ l \in Local /\ l.names = loc[t].names /\ l.candidate = loc[t].candidate
      /\ l.found = loc[t].found /\ l.todo = mine
  BY <1>1 DEF Local
<1>5. Knows(t, l) /\ Behind(t, l)
  BY <1>1, <1>2, <1>3, <1>4 DEF Carries, Knows, Behind
<1> QED
  BY <1>1, <1>2, <1>4, <1>5, AdvanceCalls DEF LockProfiles, Carries

LEMMA ReadCalls ==
    ASSUME NEW t \in Tx, DirectoryInv, Calling(t), Read(t)
    PROVE  Calling(t)'
<1>1. /\ Carries(t) /\ pc[t] = "read" /\ loc[t].at \in Pid /\ loc[t] \in Local
      /\ Op(t) \in {"uuid", "login"}
  BY LocalCarries DEF Read, DirectoryInv, Visits, TypeOK, Calling, Route
<1>2. CASE Stored(t) # NoRow /\ Stored(t).state = "active" /\ Found(t, Stored(t).uuid)
  BY <1>1, <1>2, StoredCalls DEF Read
<1>3. CASE Op(t) = "login" /\ Goto(t, "ensure") /\ UNCHANGED loc
  <2>1. loc'[t] = loc[t] /\ pc'[t] = "ensure" /\ Op(t)' = Op(t)
    BY <1>1, <1>3 DEF Goto, Op, Carries, Keeps, DirectoryInv, TypeOK
  <2>2. PICK p \in Pid : p = loc[t].at
    BY <1>1
  <2>3. Asked(t, p)'
    BY <1>1, <2>2, KeepsAsked DEF Carries, Calling, Reached
  <2>4. Route(t)' /\ Reached(t)'
    BY <1>3, <2>1, <2>2, <2>3 DEF Route, Reached
  <2> QED
    BY <1>1, <2>1, <2>4, VisitCalls DEF Carries, Calling, Visiting
<1>4. CASE Op(t) = "login" /\ Advance(t, loc[t])
  BY <1>1, <1>4, AdvanceCalls DEF Carries
<1>5. CASE Fail(t)
  BY <1>1, <1>5, FailCalls DEF Carries
<1> QED
  BY <1>2, <1>3, <1>4, <1>5 DEF Read

LEMMA DrawCalls ==
    ASSUME NEW t \in Tx, NEW n, DirectoryInv, Calling(t), pc[t] \in {"ensure", "adopt"},
           Draw(t, n), UNCHANGED <<store, call>>
    PROVE  Calling(t)'
<1>1. PICK p \in Pid : p = loc[t].at
  BY DEF DirectoryInv, Visits
<1>2. PICK x \in Uuid : Become(t, [loc[t] EXCEPT !.uuid = x, !.attempt = n])
  BY DEF Draw
<1> DEFINE l == [loc[t] EXCEPT !.uuid = x, !.attempt = n]
<1>3. /\ l.names = loc[t].names /\ l.todo = loc[t].todo /\ l.candidate = loc[t].candidate
      /\ l.found = loc[t].found /\ l.at = loc[t].at
  BY DEF DirectoryInv, TypeOK, Local
<1>4. loc'[t] = l /\ pc'[t] = "insert" /\ Op(t)' = Op(t) /\ Carries(t) /\ Op(t) # "uuid"
  BY <1>2, LocalCarries DEF Draw, Become, Goto, Op, DirectoryInv, TypeOK, Calling, Route
<1>5. Asked(t, p)'
  BY <1>1, <1>4, KeepsAsked DEF Carries, Calling, Reached
<1>6. Route(t)' /\ Reached(t)'
  BY <1>1, <1>3, <1>4, <1>5 DEF Route, Reached
<1>7. Knows(t, l)
  BY <1>3, <1>4 DEF Carries, Knows
<1> QED
  BY <1>3, <1>4, <1>6, <1>7, VisitCalls DEF Carries, Calling, Visiting

LEMMA EnsureCalls ==
    ASSUME NEW t \in Tx, DirectoryInv, Calling(t), Ensure(t)
    PROVE  Calling(t)'
<1>1. Carries(t) /\ pc[t] = "ensure"
  BY LocalCarries DEF Ensure
<1>2. CASE Stored(t) # NoRow /\ Stored(t).state = "active" /\ Found(t, Stored(t).uuid)
  BY <1>1, <1>2, StoredCalls DEF Ensure
<1>3. CASE Skip(t)
  BY <1>1, <1>3, SkipCalls DEF Carries
<1>4. CASE Draw(t, 0)
  BY <1>1, <1>4, DrawCalls DEF Ensure
<1> QED
  BY <1>2, <1>3, <1>4 DEF Ensure

LEMMA AdoptCalls ==
    ASSUME NEW t \in Tx, DirectoryInv, Calling(t), Adopt(t)
    PROVE  Calling(t)'
<1>1. Carries(t) /\ pc[t] = "adopt"
  BY LocalCarries DEF Adopt
<1>2. CASE Stored(t) # NoRow /\ Stored(t).state = "active" /\ Found(t, Existing(t))
  BY <1>1, <1>2, StoredCalls DEF Adopt, Existing
<1>3. CASE Skip(t)
  BY <1>1, <1>3, SkipCalls DEF Carries
<1>4. CASE Draw(t, loc[t].attempt + 1)
  BY <1>1, <1>4, DrawCalls DEF Adopt
<1> QED
  BY <1>2, <1>3, <1>4 DEF Adopt

\* What is inserted is locked exclusively, and of a player before those still to visit.
LEMMA InsertWriteCalls ==
    ASSUME NEW t \in Tx, DirectoryInv, Calling(t), pc[t] = "insert", Duplicate(t) = {},
           Statement(t, {}, LocksAt(t), Over(Put(Identity(loc[t].at), ActiveRow(loc[t].uuid)),
                                             Put(UuidKey(loc[t].uuid), loc[t].at))),
           Found(t, loc[t].uuid), call' = call
    PROVE  Calling(t)'
<1>1. PICK p \in Pid : p = loc[t].at
  BY DEF DirectoryInv, Visits
<1>2. PICK x \in Uuid : x = loc[t].uuid
  BY DEF DirectoryInv, Visits
<1> DEFINE w == Over(Put(Identity(p), ActiveRow(x)), Put(UuidKey(x), p))
           locked == {r \in LocksAt(t) : db[r] # NoRow} \cup DOMAIN w
           held   == {r \in {} : db[r] # NoRow} \cup locked
<1>3. /\ DOMAIN w = {Identity(p), UuidKey(x)} /\ LocksAt(t) = DOMAIN w
      /\ held = DOMAIN w /\ locked = DOMAIN w
  BY <1>1, <1>2 DEF Over, Put, LocksAt, NewKeys
<1>4. /\ db' = db /\ excl'[t] = excl[t] \cup locked
      /\ seen'[t] = Over([r \in held |-> db[r]], seen[t]) /\ buf'[t] = Over(w, buf[t])
  <2>1. t \in DOMAIN seen /\ t \in DOMAIN excl /\ t \in DOMAIN buf
    BY DEF DirectoryInv, TypeOK, StoreShape
  <2>2. Statement(t, {}, LocksAt(t), w)
    BY <1>1, <1>2
  <2> HIDE DEF w
  <2> QED
    BY <2>1, <2>2 DEF Statement
<1>5. /\ DOMAIN seen'[t] = DOMAIN w \cup DOMAIN seen[t]
      /\ \A r \in DOMAIN seen'[t] : seen'[t][r] = IF r \in DOMAIN w THEN db[r] ELSE seen[t][r]
      /\ DOMAIN buf'[t] = DOMAIN w \cup DOMAIN buf[t]
  <2> HIDE DEF w
  <2> QED
    BY <1>3, <1>4 DEF Over
<1>6. Keeps(t)
  <2>1. \A r \in DOMAIN seen[t] : seen[t][r] = db[r]
    BY DEF DirectoryInv, StoreInv, SeenIsCurrent
  <2> QED
    BY <1>4, <1>5, <2>1 DEF Keeps
<1>7. OwnLocks(t)'
  BY <1>3, <1>4, <1>5 DEF Calling, OwnLocks
<1>8. Behind(t, loc[t])
  <2>1. ASSUME NEW q \in Pid, Identity(q) \in DOMAIN buf'[t] PROVE q = p \/ Identity(q) \in DOMAIN buf[t]
    BY <1>3, <1>5, <2>1, KeysDiffer
  <2>2. \A q \in loc[t].todo : p < q
    BY <1>1 DEF Calling, InOrder, Visiting
  <2> QED
    BY <2>1, <2>2 DEF Calling, InOrder, Behind
<1>9. Asked(t, p)' /\ Knows(t, loc[t]) /\ Op(t) # "uuid"
  BY <1>1, <1>6, KeepsAsked, StillKnows DEF Calling, Reached, Route
<1> QED
  BY <1>1, <1>2, <1>6, <1>7, <1>8, <1>9, FoundCalls

LEMMA InsertCalls ==
    ASSUME NEW t \in Tx, DirectoryInv, Calling(t), Insert(t)
    PROVE  Calling(t)'
<1>1. PICK p \in Pid : p = loc[t].at
  BY DEF Insert, DirectoryInv, Visits
<1>2. CASE Duplicate(t) = {}
  BY <1>2, InsertWriteCalls DEF Insert
<1>3. CASE Duplicate(t) # {}
  <2>1. /\ Carries(t) /\ pc[t] = "insert" /\ loc'[t] = loc[t] /\ pc'[t] = "adopt" /\ Op(t)' = Op(t)
    BY <1>3, LockingCarries, SharesOfRow DEF Insert, Goto, Op, DirectoryInv, TypeOK
  <2>2. Asked(t, p)' /\ Op(t) # "uuid"
    BY <1>1, <2>1, KeepsAsked DEF Carries, Calling, Reached, Route
  <2>3. Route(t)' /\ Reached(t)'
    BY <1>1, <2>1, <2>2 DEF Route, Reached
  <2> QED
    BY <2>1, <2>3, VisitCalls DEF Carries, Calling, Visiting
<1> QED
  BY <1>2, <1>3

LEMMA AnswerCalls ==
    ASSUME NEW t \in Tx, DirectoryInv, Calling(t), Answer(t)
    PROVE  Calling(t)'
<1>1. Carries(t) /\ loc[t] \in Local /\ pc[t] = "answer"
  BY LocalCarries DEF Answer, DirectoryInv, TypeOK
<1>2. CASE Goto(t, "commit") /\ UNCHANGED loc
  BY <1>1, <1>2, KnowsEnds DEF Carries, Goto, DirectoryInv, TypeOK
<1>3. ASSUME NEW n \in loc[t].names, UNCHANGED pc,
             Become(t, [loc[t] EXCEPT !.names = @ \ {n},
                 !.answer = @ \cup {p \in Pid : UniquePlayerName(n, p) /\ loc[t].found[p] # None}])
      PROVE  Calling(t)'
  <2> DEFINE new == {p \in Pid : UniquePlayerName(n, p) /\ loc[t].found[p] # None}
             l   == [loc[t] EXCEPT !.names = @ \ {n}, !.answer = @ \cup new]
  <2>1. /\ l.names = loc[t].names \ {n} /\ l.candidate = loc[t].candidate /\ l.todo = loc[t].todo
        /\ l.found = loc[t].found
    BY <1>1 DEF Local
  <2>2. Knows(t, l) /\ Behind(t, l)
    BY <1>1, <2>1 DEF Carries, Knows, Behind
  <2>3. loc'[t] = l /\ pc'[t] = "answer"
    BY <1>1, <1>3 DEF Become, DirectoryInv, TypeOK
  <2> QED
    BY <1>1, <2>2, <2>3, KnowsEnds DEF Carries
<1> QED
  BY <1>2, <1>3 DEF Answer

\* A call that has returned has asked for nothing and holds nothing.
LEMMA ReturnCalls ==
    ASSUME NEW t \in Tx, DirectoryInv, Commit(t) \/ Rollback(t)
    PROVE  Calling(t)'
<1>1. /\ pc'[t] = "idle" /\ call'[t] = NoCall /\ loc'[t] = NoLocal
      /\ seen'[t] = NoWrites /\ excl'[t] = {} /\ buf'[t] = NoWrites
  BY DEF Commit, Rollback, CommitTx, RollbackTx, Release, Return, Goto, DirectoryInv, TypeOK, StoreShape
<1>2. DOMAIN seen'[t] = {} /\ DOMAIN buf'[t] = {}
  BY <1>1 DEF NoWrites
<1>3. Route(t)' /\ Reached(t)'
  BY <1>1 DEF Route, Reached
<1>4. Asks(t)'
  BY <1>1 DEF Asks, Op, NoCall, NoLocal
<1>5. OwnLocks(t)' /\ InOrder(t)'
  BY <1>1, <1>2 DEF OwnLocks, InOrder, Visiting
<1> QED
  BY <1>3, <1>4, <1>5 DEF Calling

LEMMA FailureCalls ==
    ASSUME NEW t \in Tx, DirectoryInv, Calling(t), SqlError(t) \/ AbortVictim(t)
    PROVE  Calling(t)'
BY LocalCarries, FailCalls DEF SqlError, AbortVictim, Carries

-----------------------------------------------------------------------------
(* The other transactions, the site and the first state.                   *)

OnlyOf(t) == \A o \in Tx \ {t} : pc'[o] = pc[o] /\ loc'[o] = loc[o]

LEMMA ControlIsLocal ==
    ASSUME NEW t \in Tx, TypeOK
    PROVE  /\ \A l : Advance(t, l) => OnlyOf(t)
           /\ Fail(t) => OnlyOf(t)
           /\ Skip(t) => OnlyOf(t)
           /\ \A x : Found(t, x) => OnlyOf(t)
           /\ \A n : Draw(t, n) => OnlyOf(t)
<1>1. ASSUME NEW l, Advance(t, l) PROVE OnlyOf(t)
  BY <1>1 DEF Advance, Goto, Become, OnlyOf, TypeOK
<1>2. ASSUME Fail(t) PROVE OnlyOf(t)
  BY <1>2 DEF Fail, Goto, OnlyOf, TypeOK
<1>3. ASSUME NEW x, Found(t, x) PROVE OnlyOf(t)
  BY <1>1, <1>3 DEF Found, Goto, Become, OnlyOf, TypeOK
<1>4. ASSUME NEW n, Draw(t, n) PROVE OnlyOf(t)
  BY <1>4 DEF Draw, Goto, Become, OnlyOf, TypeOK
<1> QED
  BY <1>1, <1>2, <1>3, <1>4 DEF Skip

\* What a statement of t leaves to the others.
LEMMA StatementIsLocal ==
    ASSUME NEW t \in Tx, NEW sh, NEW ex, NEW w, TypeOK, Statement(t, sh, ex, w)
    PROVE  db' = db /\ \A o \in Tx \ {t} : /\ seen'[o] = seen[o] /\ excl'[o] = excl[o]
                                           /\ buf'[o] = buf[o]
BY DEF Statement, TypeOK, StoreShape

\* A transaction that moves alone.
Alone(t) ==
    /\ \A o \in Tx \ {t} : /\ pc'[o] = pc[o] /\ call'[o] = call[o] /\ loc'[o] = loc[o]
                           /\ seen'[o] = seen[o] /\ excl'[o] = excl[o] /\ buf'[o] = buf[o]
    /\ \A p \in Pid : db[Identity(p)] # NoRow => db'[Identity(p)] = db[Identity(p)]

LEMMA StepIsAlone ==
    ASSUME NEW t \in Tx, DirectoryInv,
           (\E c \in Calls : Start(t, c)) \/ Step(t) \/ SqlError(t) \/ AbortVictim(t)
    PROVE  Alone(t)
<1>1. TypeOK
  BY DEF DirectoryInv
<1>2. CASE \E c \in Calls : Start(t, c)
  <2>1. OnlyOf(t) /\ \A o \in Tx \ {t} : call'[o] = call[o]
    BY <1>1, <1>2 DEF Start, Goto, Become, OnlyOf, TypeOK
  <2> QED
    BY <1>2, <2>1 DEF Start, store, OnlyOf, Alone
<1>3. CASE FindUuid(t) \/ FindName(t) \/ Recheck(t) \/ Read(t) \/ Ensure(t) \/ Adopt(t) \/ Answer(t)
           \/ SqlError(t) \/ AbortVictim(t)
  <2>1. UNCHANGED <<store, call>>
    BY <1>3 DEF FindUuid, FindName, Recheck, Read, Ensure, Adopt, Answer, SqlError, AbortVictim
  <2>2. ASSUME FindUuid(t) PROVE OnlyOf(t)
    BY <1>1, <2>2, ControlIsLocal DEF FindUuid, Goto, Become, OnlyOf, TypeOK
  <2>3. ASSUME FindName(t) PROVE OnlyOf(t)
    BY <1>1, <2>3, ControlIsLocal DEF FindName, Become, OnlyOf, TypeOK
  <2>4. ASSUME Recheck(t) \/ Read(t) PROVE OnlyOf(t)
    BY <1>1, <2>4, ControlIsLocal DEF Recheck, Read, Goto, OnlyOf, TypeOK
  <2>5. ASSUME Ensure(t) \/ Adopt(t) PROVE OnlyOf(t)
    BY <1>1, <2>5, ControlIsLocal DEF Ensure, Adopt
  <2>6. ASSUME Answer(t) PROVE OnlyOf(t)
    BY <1>1, <2>6 DEF Answer, Goto, Become, OnlyOf, TypeOK
  <2>7. ASSUME SqlError(t) \/ AbortVictim(t) PROVE OnlyOf(t)
    BY <1>1, <2>7, ControlIsLocal DEF SqlError, AbortVictim
  <2> QED
    BY <1>3, <2>1, <2>2, <2>3, <2>4, <2>5, <2>6, <2>7 DEF store, OnlyOf, Alone
<1>4. CASE LockPlayer(t) \/ LockProfiles(t) \/ Insert(t)
  <2>1. call' = call /\ OnlyOf(t)
    BY <1>1, <1>4, ControlIsLocal DEF LockPlayer, LockProfiles, Insert, Goto, OnlyOf, TypeOK
  <2>2. \E sh, ex, w : Statement(t, sh, ex, w)
    BY <1>4 DEF LockPlayer, LockProfiles, Insert
  <2>3. db' = db /\ \A o \in Tx \ {t} : seen'[o] = seen[o] /\ excl'[o] = excl[o] /\ buf'[o] = buf[o]
    BY <1>1, <2>2, StatementIsLocal
  <2> QED
    BY <2>1, <2>3 DEF OnlyOf, Alone
<1>5. CASE Commit(t) \/ Rollback(t)
  <2>1. \A o \in Tx \ {t} : /\ pc'[o] = pc[o] /\ call'[o] = call[o] /\ loc'[o] = loc[o]
                            /\ seen'[o] = seen[o] /\ excl'[o] = excl[o] /\ buf'[o] = buf[o]
    BY <1>1, <1>5 DEF Commit, Rollback, CommitTx, RollbackTx, Release, Return, Goto, TypeOK, StoreShape
  <2>2. \A r \in DOMAIN buf[t] : db[r] = NoRow
    BY DEF DirectoryInv, Inserted, StoreInv, SeenIsCurrent, WritesLocked
  <2>3. \A r \in Row : db[r] # NoRow => db'[r] = db[r]
    BY <1>1, <1>5, <2>2 DEF Commit, Rollback, CommitTx, RollbackTx, Over, TypeOK
  <2> QED
    BY <2>1, <2>3, InRow DEF Alone
<1> QED
  BY <1>2, <1>3, <1>4, <1>5 DEF Step

LEMMA SetPlayerCalls ==
    ASSUME NEW p \in Pid, NEW row, NEW o \in Tx, DirectoryInv, Calling(o), SetPlayer(p, row)
    PROVE  Calling(o)'
<1> DEFINE w == Put(Player(p), row)
<1>1. db' = Over(w, db) /\ DOMAIN w = {Player(p)} /\ UNCHANGED <<seen, excl, buf, pc, call, loc>>
  BY DEF SetPlayer, AutoCommit, Put
<1>2. \A q \in Pid : db'[Identity(q)] = db[Identity(q)]
  <2>1. \A q \in Pid : Identity(q) \in DOMAIN db /\ Identity(q) \notin DOMAIN w
    BY <1>1, InRow, KeysDiffer DEF DirectoryInv, TypeOK
  <2> HIDE DEF w
  <2> QED
    BY <1>1, <2>1 DEF Over
<1> QED
  BY <1>1, <1>2, OthersKeepCalling

LEMMA InitCalls == Init => CallsInv
<1> SUFFICES ASSUME Init, NEW t \in Tx PROVE Calling(t)
  BY InitKeeps DEF CallsInv, Calling
<1>1. /\ pc[t] = "idle" /\ call[t] = NoCall /\ loc[t] = NoLocal
      /\ DOMAIN seen[t] = {} /\ DOMAIN buf[t] = {} /\ excl[t] = {}
  BY DEF Init, StoreInit, NoWrites
<1>2. Route(t) /\ Reached(t)
  BY <1>1 DEF Route, Reached
<1>3. Asks(t)
  BY <1>1 DEF Asks, Op, NoCall, NoLocal
<1>4. OwnLocks(t) /\ InOrder(t)
  BY <1>1 DEF OwnLocks, InOrder, Visiting
<1> QED
  BY <1>2, <1>3, <1>4 DEF Calling

LEMMA NextCalls == CallsInv /\ [Next]_vars => CallsInv'
<1> SUFFICES ASSUME CallsInv, [Next]_vars PROVE CallsInv'
  OBVIOUS
<1>1. DirectoryInv /\ DirectoryInv' /\ \A t \in Tx : Calling(t)
  BY NextKeeps DEF CallsInv, Calling
<1>2. ASSUME NEW t \in Tx,
             (\E c \in Calls : Start(t, c)) \/ Step(t) \/ SqlError(t) \/ AbortVictim(t)
      PROVE  \A o \in Tx : Calling(o)'
  <2>1. Calling(t)'
    BY <1>1, <1>2, StartCalls, FindUuidCalls, FindNameCalls, LockPlayerCalls, RecheckCalls,
       LockProfilesCalls, ReadCalls, EnsureCalls, InsertCalls, AdoptCalls, AnswerCalls, ReturnCalls,
       FailureCalls DEF Step
  <2>2. Alone(t)
    BY <1>1, <1>2, StepIsAlone
  <2>3. ASSUME NEW o \in Tx, o # t PROVE Calling(o)'
    BY <1>1, <2>2, <2>3, OthersKeepCalling DEF Alone
  <2> QED
    BY <2>1, <2>3
<1>3. ASSUME NEW p \in Pid, NEW row \in Edits[p], SetPlayer(p, row) PROVE \A o \in Tx : Calling(o)'
  BY <1>1, <1>3, SetPlayerCalls
<1>4. ASSUME UNCHANGED vars PROVE \A o \in Tx : Calling(o)'
  BY <1>1, <1>4, OthersKeepCalling DEF vars, store
<1>5. \A o \in Tx : Calling(o)'
  BY <1>2, <1>3, <1>4 DEF Next
<1> QED
  BY <1>1, <1>5 DEF CallsInv, Calling

-----------------------------------------------------------------------------
\* A call finds UUIDs of players only that it has locked and checked, in pid order
\* (profiles.go:36-139, authenticate.go:144-179): the inductive invariant of the calls.
THEOREM CallsInvariant == Spec => []CallsInv
BY InitCalls, NextCalls, PTL DEF Spec

\* What a call is about to answer is true of the rows that are stored, and is what the call asked
\* for (profiles.go:36-139).
THEOREM AnswersHold == Spec => []AnswerHolds
<1>1. CallsInv => AnswerHolds
  <2> SUFFICES ASSUME CallsInv, NEW t \in Tx, pc[t] = "commit", NEW p \in loc[t].answer
               PROVE  /\ Exists(Player(p)) /\ View(t, Identity(p)) = ActiveRow(loc[t].found[p])
                      /\ Op(t) \in {"name", "names"} => db[Player(p)].name \in call[t].names
                      /\ Op(t) = "uuid" => loc[t].found[p] = call[t].uuid
                      /\ Op(t) = "login" => db[Player(p)].owner = call[t].uid
    BY DEF AnswerHolds
  <2>1. p \in Pid /\ loc[t].found[p] # None /\ View(t, Identity(p)) = ActiveRow(loc[t].found[p])
    BY DEF CallsInv, DirectoryInv, TypeOK, Local, Sound
  <2>2. Asked(t, p) /\ (Op(t) = "uuid" => loc[t].found[p] = call[t].uuid)
    BY <2>1 DEF CallsInv, Asks
  <2>3. \A r \in DOMAIN seen[t] : seen[t][r] = db[r]
    BY DEF CallsInv, DirectoryInv, StoreInv, SeenIsCurrent
  <2> QED
    BY <2>1, <2>2, <2>3 DEF Asked, Locked, Exists
<1> QED
  BY <1>1, CallsInvariant, PTL

-----------------------------------------------------------------------------
(* Deadlocks.                                                              *)

LEMMA LeastPid ==
    ASSUME NEW S, S \subseteq Pid, S # {}
    PROVE  \E p \in S : \A q \in S : ~(q < p)
<1> DEFINE R == {ss \in Nat \X Nat : ss[1] < ss[2]}
<1>1. IsWellFoundedOn(R, Nat)
  BY NatLessThanWellFounded DEF OpToRel
<1>2. S \subseteq Nat
  BY DirectoryAssumption
<1>3. \A q, p \in S : <<q, p>> \in R <=> q < p
  BY <1>2
<1> HIDE DEF R
<1>4. \E p \in S : \A q \in S : <<q, p>> \notin R
  BY <1>1, <1>2, WFMin
<1> QED
  BY <1>3, <1>4

\* Nobody waits for a share lock: only the keys of new identities are locked exclusively, and no
\* call sees another's uncommitted row.
LEMMA SharesAreFree ==
    ASSUME NEW t \in Tx, NEW o \in Tx, o # t, CallsInv
    PROVE  SharesAt(t) \cap excl[o] = {}
<1>1. excl[o] = DOMAIN buf[o] /\ Inserted(o)
  BY DEF CallsInv, OwnLocks, DirectoryInv
<1>2. \A r \in DOMAIN buf[o] : db[r] = NoRow
  BY DEF CallsInv, DirectoryInv, Inserted, StoreInv, SeenIsCurrent, WritesLocked
<1>3. DOMAIN buf[t] \cap DOMAIN buf[o] = {}
  BY DEF CallsInv, DirectoryInv, StoreInv, LocksExclude, WritesLocked
<1>4. CASE pc[t] = "lockPlayer"
  <2>1. loc[t].at \in Pid
    BY <1>4 DEF CallsInv, DirectoryInv, Visits
  <2> QED
    BY <1>1, <1>4, <2>1 DEF SharesAt, PlayerLock, Inserted
<1>5. CASE pc[t] = "lockProfiles"
  BY <1>1, <1>5 DEF SharesAt, PlayersOf, Inserted
<1>6. CASE pc[t] = "insert"
  <2>1. SharesAt(t) = Duplicate(t)
    BY <1>6 DEF SharesAt
  <2>2. \A r \in Duplicate(t) : View(t, r) # NoRow
    BY DEF Duplicate, PidTaken, UuidTaken, Stored
  <2> QED
    BY <1>1, <1>2, <1>3, <2>1, <2>2 DEF View
<1> QED
  BY <1>4, <1>5, <1>6 DEF SharesAt

\* Who waits for the key of a player's identity waits for a call that is past that player.
LEMMA WaitsForLater ==
    ASSUME NEW t \in Tx, NEW o \in Tx, CallsInv, WaitsFor(t, o), pc[o] = "insert",
           UuidKey(loc[t].uuid) \notin LocksAt(t) \cap DOMAIN seen[o]
    PROVE  pc[t] = "insert" /\ loc[t].at \in Pid /\ loc[t].at < loc[o].at
<1>1. LocksAt(t) \cap DOMAIN seen[o] # {}
  BY SharesAreFree DEF WaitsFor
<1>2. pc[t] = "insert" /\ Duplicate(t) = {} /\ LocksAt(t) = {Identity(loc[t].at), UuidKey(loc[t].uuid)}
  BY <1>1 DEF LocksAt, NewKeys
<1>3. PICK p \in Pid : p = loc[t].at
  BY <1>2 DEF CallsInv, DirectoryInv, Visits
<1>4. Identity(p) \in DOMAIN seen[o] /\ View(t, Identity(p)) = NoRow
  BY <1>1, <1>2, <1>3 DEF Duplicate, PidTaken, Stored
<1>5. db[Identity(p)] = NoRow
  <2>1. \A r \in DOMAIN buf[t] : db[r] = NoRow
    BY DEF CallsInv, DirectoryInv, Inserted, StoreInv, SeenIsCurrent, WritesLocked
  <2> QED
    BY <1>4, <2>1 DEF View
<1>6. Identity(p) \in DOMAIN buf[o]
  BY <1>4, <1>5 DEF CallsInv, OwnLocks, DirectoryInv, StoreInv, SeenIsCurrent
<1> QED
  BY <1>2, <1>3, <1>6 DEF CallsInv, InOrder, Visiting

\* Batches and logins insert identities in pid order, so nobody waits in a ring for them: a
\* deadlock needs a drawn UUID that another call has just drawn (profiles.go:73,
\* authenticate.go:145).
THEOREM DeadlocksAreCollisions == Spec => []OnlyCollisionsDeadlock
<1>1. CallsInv => OnlyCollisionsDeadlock
  <2> SUFFICES ASSUME CallsInv, NEW C \in SUBSET Tx, C # {}, Deadlock(C),
                      \A t, o \in C : WaitsFor(t, o) =>
                          UuidKey(loc[t].uuid) \notin LocksAt(t) \cap DOMAIN seen[o]
               PROVE  FALSE
    BY DEF OnlyCollisionsDeadlock
  <2>1. \A t \in C : pc[t] = "insert" /\ loc[t].at \in Pid
    <3> SUFFICES ASSUME NEW t \in C PROVE pc[t] = "insert" /\ loc[t].at \in Pid
      OBVIOUS
    <3>1. PICK o \in C : WaitsFor(t, o)
      BY DEF Deadlock
    <3>2. LocksAt(t) # {}
      BY <3>1, SharesAreFree DEF WaitsFor
    <3> QED
      BY <3>2 DEF LocksAt, CallsInv, DirectoryInv, Visits
  <2> DEFINE visited == {loc[t].at : t \in C}
  <2>2. visited \subseteq Pid /\ visited # {}
    BY <2>1
  <2>3. PICK p \in visited : \A q \in visited : ~(q < p)
    <3> HIDE DEF visited
    <3> QED
      BY <2>2, LeastPid
  <2>4. PICK o \in C : p = loc[o].at
    BY DEF visited
  <2>5. PICK t \in C : WaitsFor(t, o)
    BY DEF Deadlock
  <2>6. loc[t].at < loc[o].at
    BY <2>1, <2>5, WaitsForLater
  <2> QED
    BY <2>3, <2>4, <2>6
<1> QED
  BY <1>1, CallsInvariant, PTL
================================================================================
