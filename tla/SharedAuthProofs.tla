-------------------------- MODULE SharedAuthProofs --------------------------
(***************************************************************************)
(* The checks of a SharedAuth transaction still hold when it commits, for  *)
(* any number of nodes, accounts, players, tokens and sessions.  Inductive *)
(* is preserved by every action, and implies TypeOK, GateQuiet and         *)
(* AuthorizedAtCommit.                                                     *)
(***************************************************************************)
EXTENDS SharedAuthInv, RowStoreProofs

-----------------------------------------------------------------------------
(* Keys and rows.                                                          *)

LEMMA KeysInRow ==
    /\ Gate \in Row
    /\ \A u \in Uid : User(u) \in Row /\ Subject(u) \in Row
    /\ \A h \in Hash : Token(h) \in Row
    /\ \A p \in Pid : Player(p) \in Row /\ Identity(p) \in Row
    /\ \A s \in Server : Session(s) \in Row
BY DEF Row, User, Subject, Token, Player, Identity, Session

LEMMA KeyValues ==
    /\ Values(Gate) = {"active", "staged"}
    /\ \A u : Values(User(u)) = UserRow /\ Values(Subject(u)) = Nat \ {0}
    /\ \A h : Values(Token(h)) = TokenRow
    /\ \A p : Values(Player(p)) = PlayerRow /\ Values(Identity(p)) = IdentityState
    /\ \A s : Values(Session(s)) = SessionRow
BY DEF Values, Gate, User, Subject, Token, Player, Identity, Session

LEMMA KeysDiffer ==
    /\ \A u, h, p, s : /\ Gate # User(u) /\ Gate # Subject(u) /\ Gate # Token(h)
                       /\ Gate # Player(p) /\ Gate # Identity(p) /\ Gate # Session(s)
                       /\ Identity(p) # User(u) /\ Identity(p) # Subject(u)
                       /\ Identity(p) # Token(h) /\ Identity(p) # Player(p)
                       /\ Identity(p) # Session(s)
                       /\ Subject(u) # Token(h) /\ Subject(u) # Session(s)
    /\ \A p, q : Identity(p) # Player(q) /\ (Identity(p) = Identity(q) => p = q)
BY DEF Gate, User, Subject, Token, Player, Identity, Session

LEMMA RowsOver ==
    ASSUME NEW f, NEW g, Rows(f), Rows(g)
    PROVE  Rows(Over(f, g))
BY DEF Rows, Over

LEMMA RowsPut ==
    ASSUME NEW r \in Row, NEW v \in Values(r) \cup {NoRow}
    PROVE  Rows(Put(r, v)) /\ DOMAIN Put(r, v) = {r} /\ Put(r, v)[r] = v
BY DEF Rows, Put

\* A new row of a token.
LEMMA RowsToken ==
    ASSUME NEW h \in Hash, NEW v \in TokenRow
    PROVE  Rows(Put(Token(h), v))
<1>1. Token(h) \in Row
  BY KeysInRow
<1>2. v \in Values(Token(h)) \cup {NoRow}
  BY KeyValues
<1> QED
  BY <1>1, <1>2, RowsPut

LEMMA RowsDrop ==
    ASSUME NEW S, S \subseteq Row
    PROVE  Rows(Drop(S)) /\ DOMAIN Drop(S) = S /\ \A r \in S : Drop(S)[r] = NoRow
BY DEF Rows, Drop

LEMMA RowsNone == Rows(NoWrites) /\ DOMAIN NoWrites = {}
BY DEF Rows, NoWrites

\* What is stored has the type of its table.
LEMMA Stores ==
    ASSUME StoreTypeOK
    PROVE  /\ \A r \in Row : db[r] \in Values(r) \cup {NoRow}
           /\ \A t \in Tx : \A r \in DOMAIN seen[t] : seen[t][r] \in Values(r) \cup {NoRow}
           /\ \A t \in Tx : \A r \in DOMAIN buf[t] : buf[t][r] \in Values(r) \cup {NoRow}
           /\ \A t \in Tx : DOMAIN seen[t] \subseteq Row /\ DOMAIN buf[t] \subseteq Row
BY DEF StoreTypeOK, Rows

-----------------------------------------------------------------------------
(* Statements.                                                             *)

LEMMA StatementTypes ==
    ASSUME NEW t \in Tx, NEW sh, NEW ex, NEW w, sh \subseteq Row, ex \subseteq Row, Rows(w),
           StoreTypeOK, StoreInv, Statement(t, sh, ex, w)
    PROVE  /\ StoreTypeOK' /\ StoreInv' /\ db' = db
           /\ \A o \in Tx \ {t} : seen'[o] = seen[o] /\ buf'[o] = buf[o]
           /\ buf'[t] = Over(w, buf[t])
           /\ DOMAIN seen[t] \subseteq DOMAIN seen'[t]
           /\ \A r \in DOMAIN seen[t] : seen'[t][r] = seen[t][r]
           /\ \A r \in sh \cup ex : db[r] # NoRow => r \in DOMAIN seen'[t]
           /\ \A r \in DOMAIN w : r \in DOMAIN seen'[t]
           /\ \A r \in DOMAIN seen'[t] : seen'[t][r] = db[r]
<1>1. sh \subseteq DOMAIN db /\ ex \subseteq DOMAIN db /\ DOMAIN w \subseteq DOMAIN db /\ StoreShape
  BY DEF StoreTypeOK, Rows
<1>2. StoreShape' /\ StoreInv'
  BY <1>1, StatementKeepsStore
<1>3. /\ db' = db
      /\ \A o \in Tx \ {t} : seen'[o] = seen[o] /\ buf'[o] = buf[o]
      /\ buf'[t] = Over(w, buf[t])
      /\ DOMAIN seen[t] \subseteq DOMAIN seen'[t]
      /\ \A r \in sh \cup ex : db[r] # NoRow => r \in DOMAIN seen'[t]
      /\ DOMAIN w \subseteq DOMAIN seen'[t]
      /\ DOMAIN seen'[t] \subseteq Row
      /\ \A r \in DOMAIN seen'[t] : seen'[t][r] = db[r]
  <2>1. DOMAIN seen[t] \subseteq Row /\ DOMAIN w \subseteq Row
    BY DEF StoreTypeOK, Rows
  <2> QED
    BY <1>1, <2>1, StatementEffect
<1>4. \A r \in DOMAIN seen[t] : seen'[t][r] = seen[t][r]
  BY <1>3 DEF StoreInv, SeenIsCurrent
<1>5. Rows(buf'[t])
  BY <1>3, RowsOver DEF StoreTypeOK
<1>6. Rows(seen'[t])
  BY <1>3 DEF StoreTypeOK, Rows
<1>7. \A o \in Tx : Rows(seen'[o]) /\ Rows(buf'[o])
  BY <1>3, <1>5, <1>6 DEF StoreTypeOK
<1>8. DOMAIN db' = Row /\ Rows(db')
  BY <1>3 DEF StoreTypeOK
<1>9. StoreTypeOK'
  BY <1>2, <1>7, <1>8 DEF StoreTypeOK, Rows, Values
<1> QED
  BY <1>2, <1>3, <1>4, <1>9

\* A plain SELECT, or nothing.
LEMMA ReadTypes ==
    ASSUME StoreTypeOK, StoreInv, UNCHANGED store
    PROVE  StoreTypeOK' /\ StoreInv'
<1>1. db' = db /\ seen' = seen /\ excl' = excl /\ buf' = buf
  BY DEF store
<1>2. StoreTypeOK'
  <2>1. StoreShape'
    BY <1>1 DEF StoreTypeOK, StoreShape
  <2>2. (DOMAIN db = Row /\ Rows(db))'
    BY <1>1 DEF StoreTypeOK, Rows, Values
  <2>3. (\A t \in Tx : Rows(seen[t]) /\ Rows(buf[t]))'
    BY <1>1 DEF StoreTypeOK, Rows, Values
  <2> QED
    BY <2>1, <2>2, <2>3 DEF StoreTypeOK
<1>3. StoreInv'
  <2>1. SeenIsCurrent' /\ LocksExclude'
    BY <1>1 DEF StoreInv, SeenIsCurrent, LocksExclude
  <2>2. WritesLocked'
    BY <1>1 DEF StoreInv, WritesLocked
  <2> QED
    BY <2>1, <2>2 DEF StoreInv
<1> QED
  BY <1>2, <1>3

LEMMA CommitTypes ==
    ASSUME NEW t \in Tx, StoreTypeOK, StoreInv, CommitTx(t)
    PROVE  /\ StoreTypeOK' /\ StoreInv' /\ DOMAIN buf'[t] = {}
           /\ \A r \in Row : db'[r] = IF r \in DOMAIN buf[t] THEN buf[t][r] ELSE db[r]
           /\ \A o \in Tx \ {t} : seen'[o] = seen[o] /\ buf'[o] = buf[o]
<1>1. /\ StoreShape' /\ StoreInv' /\ DOMAIN db' = DOMAIN db
      /\ \A r \in DOMAIN db : db'[r] = IF r \in DOMAIN buf[t] THEN buf[t][r] ELSE db[r]
      /\ seen'[t] = NoWrites /\ buf'[t] = NoWrites
      /\ \A o \in Tx \ {t} : seen'[o] = seen[o] /\ buf'[o] = buf[o]
  BY CommitKeepsStore DEF StoreTypeOK
<1>2. DOMAIN db' = Row /\ Rows(db')
  BY <1>1 DEF StoreTypeOK, Rows
<1>3. \A o \in Tx : Rows(seen'[o]) /\ Rows(buf'[o])
  BY <1>1, RowsNone DEF StoreTypeOK
<1>4. StoreTypeOK'
  BY <1>1, <1>2, <1>3 DEF StoreTypeOK, Rows, Values
<1>5. \A r \in Row : db'[r] = IF r \in DOMAIN buf[t] THEN buf[t][r] ELSE db[r]
  BY <1>1 DEF StoreTypeOK
<1> QED
  BY <1>1, <1>4, <1>5, RowsNone

LEMMA RollbackTypes ==
    ASSUME NEW t \in Tx, StoreTypeOK, StoreInv, RollbackTx(t)
    PROVE  /\ StoreTypeOK' /\ StoreInv' /\ db' = db /\ DOMAIN buf'[t] = {}
           /\ \A o \in Tx \ {t} : seen'[o] = seen[o] /\ buf'[o] = buf[o]
<1>1. /\ StoreShape' /\ StoreInv' /\ db' = db
      /\ seen'[t] = NoWrites /\ buf'[t] = NoWrites
      /\ \A o \in Tx \ {t} : seen'[o] = seen[o] /\ buf'[o] = buf[o]
  BY RollbackKeepsStore DEF StoreTypeOK
<1>2. \A o \in Tx : Rows(seen'[o]) /\ Rows(buf'[o])
  BY <1>1, RowsNone DEF StoreTypeOK
<1>3. StoreTypeOK'
  BY <1>1, <1>2 DEF StoreTypeOK, Rows, Values
<1> QED
  BY <1>1, <1>3, RowsNone

LEMMA AutoCommitTypes ==
    ASSUME NEW w, Rows(w), StoreTypeOK, StoreInv, AutoCommit(w)
    PROVE  /\ StoreTypeOK' /\ StoreInv' /\ seen' = seen /\ buf' = buf
           /\ \A r \in Row : db'[r] = IF r \in DOMAIN w THEN w[r] ELSE db[r]
           /\ \A o \in Tx : DOMAIN w \cap DOMAIN seen[o] = {}
<1>1. /\ StoreShape' /\ StoreInv' /\ DOMAIN db' = DOMAIN db
      /\ \A r \in DOMAIN db : db'[r] = IF r \in DOMAIN w THEN w[r] ELSE db[r]
      /\ seen' = seen /\ buf' = buf
      /\ \A o \in Tx : DOMAIN w \cap DOMAIN seen[o] = {}
  <2>1. DOMAIN w \subseteq DOMAIN db
    BY DEF StoreTypeOK, Rows
  <2> QED
    BY <2>1, AutoCommitKeepsStore DEF StoreTypeOK
<1>2. DOMAIN db' = Row /\ Rows(db')
  BY <1>1 DEF StoreTypeOK, Rows
<1> QED
  BY <1>1, <1>2 DEF StoreTypeOK, Rows, Values

-----------------------------------------------------------------------------
(* Local state.                                                            *)

LocalTypeOK == now \in Nat /\ DOMAIN pc = Tx /\ call \in [Tx -> Call] /\ loc \in [Tx -> Local]

\* The other transactions are where they were.
OthersStay(t) ==
    \A o \in Tx \ {t} : /\ pc'[o] = pc[o] /\ call'[o] = call[o] /\ loc'[o] = loc[o]
                        /\ seen'[o] = seen[o] /\ buf'[o] = buf[o]

ActiveStays(o) == GateRead(o) => \A p \in Pid : Active(p) => Active(p)'

LEMMA NoCallTyped ==
    NoCall \in Call /\ WellFormed(NoCall) /\ NoCall.op = "cleanup" /\ NoLocal \in Local
BY DEF NoCall, Call, WellFormed, NoLocal, Local

LEMMA GotoEffect ==
    ASSUME DOMAIN pc = Tx, NEW t \in Tx, NEW label, Goto(t, label)
    PROVE  DOMAIN pc' = Tx /\ pc'[t] = label /\ \A o \in Tx \ {t} : pc'[o] = pc[o]
BY DEF Goto

LEMMA CheckEffect ==
    ASSUME DOMAIN pc = Tx, NEW t \in Tx, NEW ok, NEW label, Check(t, ok, label)
    PROVE  /\ DOMAIN pc' = Tx /\ \A o \in Tx \ {t} : pc'[o] = pc[o]
           /\ pc'[t] = IF ok THEN label ELSE "fail"
BY DEF Check, Goto

LEMMA ReturnEffect ==
    ASSUME LocalTypeOK, NEW t \in Tx, Return(t)
    PROVE  /\ DOMAIN pc' = Tx /\ call' \in [Tx -> Call] /\ loc' \in [Tx -> Local]
           /\ pc'[t] = "idle" /\ call'[t] = NoCall /\ loc'[t] = NoLocal
           /\ \A o \in Tx \ {t} : pc'[o] = pc[o] /\ call'[o] = call[o] /\ loc'[o] = loc[o]
BY NoCallTyped DEF LocalTypeOK, Return, Goto

\* A transaction knows what it knew while others move, as long as identities it may rely on
\* stay active.
LEMMA KnowsStays ==
    ASSUME NEW o \in Tx, Knows(o), ActiveStays(o),
           pc'[o] = pc[o], call'[o] = call[o], loc'[o] = loc[o],
           seen'[o] = seen[o], buf'[o] = buf[o]
    PROVE  Knows(o)'
<1>1. Route(o)' /\ Arguments(o)'
  BY DEF Knows, Route, Arguments, Op, Authorizes, WellFormed
<1>2. pc'[o] \notin Outside => GateRead(o)'
  BY DEF Knows, GateRead, Outside
<1>3. Authorizes(o)' = Authorizes(o) /\ Op(o)' = Op(o)
  BY DEF Authorizes, Op
<1>4. Authorizes(o) /\ pc[o] \notin Unauthorized =>
        /\ UserRead(o)'
        /\ pc[o] # "lockGeneration" => SubjectRead(o)'
        /\ pc[o] \notin {"lockGeneration", "lockToken"} => TokenRead(o)'
        /\ pc[o] = "lockPlayer" => seen'[o][Token(loc'[o].token)].identity # None
  BY DEF Knows, UserRead, SubjectRead, TokenRead, Allowed, MatchesClient
<1>5. ASSUME Authorizes(o), pc[o] \notin Unauthorized,
             pc[o] \notin {"lockGeneration", "lockToken", "lockPlayer"}
      PROVE  PlayerRead(o)'
  <2>1. PlayerRead(o) /\ GateRead(o)
    BY <1>5 DEF Knows, Unauthorized
  <2> QED
    BY <2>1 DEF PlayerRead, ActiveStays
<1>6. pc[o] \in {"lockVictims", "loginProfiles", "bind", "issue"} /\ Op(o) = "authenticate"
        => SubjectEnsured(o)'
  BY DEF Knows, SubjectEnsured
<1>7. WritesOf(o)'
  BY DEF Knows, WritesOf, Authorizes, Op
<1>8. Authorizes(o) /\ pc[o] \in (Unauthorized \ {"fail"})
                             \cup {"lockGeneration", "lockToken", "lockPlayer"}
        => loc'[o].identity = None
  BY DEF Knows
<1> QED
  BY <1>1, <1>2, <1>3, <1>4, <1>5, <1>6, <1>7, <1>8 DEF Knows

\* One transaction moves: it is enough to look at that one.
LEMMA OneMoves ==
    ASSUME Inductive, NEW t \in Tx, StoreTypeOK', StoreInv', LocalTypeOK', OthersStay(t),
           \A o \in Tx \ {t} : ActiveStays(o), Knows(t)'
    PROVE  Inductive'
<1>1. TypeOK'
  BY DEF LocalTypeOK, TypeOK
<1>2. ASSUME NEW o \in Tx PROVE Knows(o)'
  <2>1. CASE o = t
    BY <2>1
  <2>2. CASE o # t
    BY <2>2, KnowsStays DEF OthersStay, Inductive
  <2> QED
    BY <2>1, <2>2
<1> QED
  BY <1>1, <1>2 DEF Inductive

LEMMA SameRowsActive ==
    ASSUME db' = db
    PROVE  \A o \in Tx : ActiveStays(o)
BY DEF ActiveStays, Active

LEMMA KnowsIdle ==
    ASSUME NEW t \in Tx, pc'[t] = "idle", call'[t] = NoCall, loc'[t] = NoLocal,
           DOMAIN buf'[t] = {}
    PROVE  Knows(t)'
BY NoCallTyped DEF Knows, Route, Arguments, WritesOf, Op, Authorizes, Outside, Unauthorized

LEMMA KnowsFail ==
    ASSUME NEW t \in Tx, pc'[t] = "fail", call'[t] = call[t], WellFormed(call[t]),
           Op(t) \in {"authenticate", "signout"} => loc'[t].uid \in Uid, WritesOf(t)'
    PROVE  Knows(t)'
BY DEF Knows, Route, Arguments, Op, Authorizes, Outside, Unauthorized, WellFormed

\* Its Go variables stay in type, and only t's program counter and variables change.
LocalStep(t) ==
    /\ LocalTypeOK'
    /\ \A o \in Tx \ {t} : pc'[o] = pc[o] /\ call'[o] = call[o] /\ loc'[o] = loc[o]

LEMMA GotoStep ==
    ASSUME LocalTypeOK, NEW t \in Tx, NEW label, Goto(t, label), UNCHANGED <<local, loc>>
    PROVE  LocalStep(t) /\ pc'[t] = label /\ call' = call /\ loc' = loc
<1>1. now' = now /\ call' = call /\ loc' = loc
  BY DEF local
<1> QED
  BY <1>1, GotoEffect DEF LocalStep, LocalTypeOK

LEMMA CheckStep ==
    ASSUME LocalTypeOK, NEW t \in Tx, NEW ok, NEW label, Check(t, ok, label),
           UNCHANGED <<local, loc>>
    PROVE  /\ LocalStep(t) /\ call' = call /\ loc' = loc
           /\ pc'[t] = IF ok THEN label ELSE "fail"
<1>1. now' = now /\ call' = call /\ loc' = loc
  BY DEF local
<1> QED
  BY <1>1, CheckEffect DEF LocalStep, LocalTypeOK

LEMMA ReturnStep ==
    ASSUME LocalTypeOK, NEW t \in Tx, Return(t), now' = now
    PROVE  LocalStep(t) /\ pc'[t] = "idle" /\ call'[t] = NoCall /\ loc'[t] = NoLocal
BY ReturnEffect DEF LocalStep, LocalTypeOK

\* A step that reads, and a step that is a statement, keep the invariant if t keeps its part.
LEMMA ReadStep ==
    ASSUME Inductive, NEW t \in Tx, UNCHANGED store, LocalStep(t), Knows(t)'
    PROVE  Inductive'
<1>1. db' = db /\ seen' = seen /\ buf' = buf
  BY DEF store
<1>2. StoreTypeOK' /\ StoreInv'
  BY ReadTypes DEF Inductive, TypeOK
<1> QED
  BY <1>1, <1>2, SameRowsActive, OneMoves DEF LocalStep, OthersStay

LEMMA StatementStep ==
    ASSUME Inductive, NEW t \in Tx, NEW sh, NEW ex, NEW w,
           sh \subseteq Row, ex \subseteq Row, Rows(w),
           Statement(t, sh, ex, w), LocalStep(t), Knows(t)'
    PROVE  Inductive'
<1>1. /\ StoreTypeOK' /\ StoreInv' /\ db' = db
      /\ \A o \in Tx \ {t} : seen'[o] = seen[o] /\ buf'[o] = buf[o]
  BY StatementTypes DEF Inductive, TypeOK
<1> QED
  BY <1>1, SameRowsActive, OneMoves DEF LocalStep, OthersStay

LEMMA Parts ==
    ASSUME Inductive
    PROVE  LocalTypeOK /\ StoreTypeOK /\ StoreInv /\ \A t \in Tx : Knows(t)
BY DEF Inductive, TypeOK, LocalTypeOK

\* What reading under locks adds to what t knows.
LEMMA StatementReads ==
    ASSUME Inductive, NEW t \in Tx, NEW sh, NEW ex, NEW w, sh \subseteq Row, ex \subseteq Row,
           Rows(w), Statement(t, sh, ex, w)
    PROVE  /\ db' = db /\ buf'[t] = Over(w, buf[t])
           /\ DOMAIN seen[t] \subseteq DOMAIN seen'[t]
           /\ \A r \in DOMAIN seen[t] : seen'[t][r] = seen[t][r]
           /\ \A r \in sh \cup ex : db[r] # NoRow => r \in DOMAIN seen'[t] /\ seen'[t][r] = db[r]
           /\ \A r \in DOMAIN w : r \in DOMAIN seen'[t]
           /\ \A r \in DOMAIN seen[t] : seen[t][r] = db[r]
<1>1. StoreTypeOK /\ StoreInv
  BY Parts
<1> QED
  BY <1>1, StatementTypes DEF StoreInv, SeenIsCurrent

LEMMA NoWritesAdded ==
    ASSUME NEW f
    PROVE  /\ DOMAIN Over(NoWrites, f) = DOMAIN f
           /\ \A r \in DOMAIN f : Over(NoWrites, f)[r] = f[r]
BY DEF Over, NoWrites

\* More reads take nothing away from what t knows.
LEMMA ReadsKept ==
    ASSUME NEW t \in Tx, DOMAIN seen[t] \subseteq DOMAIN seen'[t],
           \A r \in DOMAIN seen[t] : seen'[t][r] = seen[t][r],
           call'[t] = call[t], loc'[t].uid = loc[t].uid, loc'[t].token = loc[t].token
    PROVE  /\ GateRead(t) => GateRead(t)'
           /\ UserRead(t) => UserRead(t)'
           /\ SubjectRead(t) => SubjectRead(t)'
           /\ SubjectRead(t) /\ TokenRead(t) => TokenRead(t)'
           /\ TokenRead(t) /\ PlayerRead(t) /\ db' = db /\ loc'[t].identity = loc[t].identity
                => PlayerRead(t)'
<1>1. (GateRead(t) => GateRead(t)') /\ (UserRead(t) => UserRead(t)')
      /\ (SubjectRead(t) => SubjectRead(t)')
  BY DEF GateRead, UserRead, SubjectRead, Allowed
<1>2. SubjectRead(t) /\ TokenRead(t) => TokenRead(t)'
  BY DEF SubjectRead, TokenRead, MatchesClient
<1>3. TokenRead(t) /\ PlayerRead(t) /\ db' = db /\ loc'[t].identity = loc[t].identity
        => PlayerRead(t)'
  BY DEF TokenRead, PlayerRead, Active
<1> QED
  BY <1>1, <1>2, <1>3

LEMMA WritesKept ==
    ASSUME NEW t \in Tx, NEW w, WritesOf(t), buf'[t] = Over(w, buf[t]), call'[t] = call[t],
           pc'[t] \notin {"idle", "resolve", "verify", "begin"},
           Authorizes(t) => \A u \in Uid : Subject(u) \notin DOMAIN w,
           \A u \in Uid : Subject(u) \in DOMAIN w => w[Subject(u)] # NoRow,
           \A p \in Pid : Identity(p) \in DOMAIN w => w[Identity(p)] = "active"
    PROVE  WritesOf(t)'
BY DEF WritesOf, Over, Authorizes, Op

\* Nothing is written.
LEMMA WritesUnchanged ==
    ASSUME NEW t \in Tx, WritesOf(t), buf'[t] = buf[t] \/ buf'[t] = Over(NoWrites, buf[t]),
           call'[t] = call[t], pc'[t] \notin {"idle", "resolve", "verify", "begin"}
    PROVE  WritesOf(t)'
<1>1. CASE buf'[t] = buf[t]
  BY <1>1 DEF WritesOf, Authorizes, Op
<1>2. CASE buf'[t] = Over(NoWrites, buf[t])
  BY <1>2, WritesKept, RowsNone
<1> QED
  BY <1>1, <1>2

\* All that authorize establishes.
Authorized(t) == GateRead(t) /\ UserRead(t) /\ SubjectRead(t) /\ TokenRead(t) /\ PlayerRead(t)

LEMMA KnowsAuthorized ==
    ASSUME NEW t \in Tx, Route(t)', Arguments(t)', WritesOf(t)', Authorized(t)',
           Authorizes(t)',
           pc'[t] \notin Unauthorized \cup {"lockGeneration", "lockToken", "lockPlayer"}
    PROVE  Knows(t)'
BY DEF Knows, Authorized, Authorizes

LEMMA IsAuthorized ==
    ASSUME NEW t \in Tx, Knows(t), Authorizes(t),
           pc[t] \notin Unauthorized \cup {"lockGeneration", "lockToken", "lockPlayer"}
    PROVE  Authorized(t)
BY DEF Knows, Authorized, Unauthorized

LEMMA StaysAuthorized ==
    ASSUME NEW t \in Tx, Authorized(t), DOMAIN seen[t] \subseteq DOMAIN seen'[t],
           \A r \in DOMAIN seen[t] : seen'[t][r] = seen[t][r],
           call'[t] = call[t], loc' = loc, db' = db
    PROVE  Authorized(t)'
BY ReadsKept DEF Authorized

\* An authorized call goes on (or fails) without touching subjects and identities.
LEMMA AuthorizedGoesOn ==
    ASSUME NEW t \in Tx, NEW w, Knows(t), Authorizes(t),
           pc[t] \notin Unauthorized \cup {"lockGeneration", "lockToken", "lockPlayer"},
           pc'[t] = "fail" \/ pc'[t] \notin Unauthorized \cup {"lockGeneration", "lockToken", "lockPlayer"},
           Route(t)', call' = call, loc' = loc, db' = db, buf'[t] = Over(w, buf[t]),
           DOMAIN seen[t] \subseteq DOMAIN seen'[t],
           \A r \in DOMAIN seen[t] : seen'[t][r] = seen[t][r],
           \A u \in Uid : Subject(u) \notin DOMAIN w,
           \A p \in Pid : Identity(p) \notin DOMAIN w
    PROVE  Knows(t)'
<1>1. Authorized(t)' /\ Authorizes(t)'
  BY IsAuthorized, StaysAuthorized DEF Authorizes, Op
<1>2. WritesOf(t)'
  BY WritesKept DEF Knows, Unauthorized, Outside
<1>3. CASE pc'[t] = "fail"
  BY <1>2, <1>3, KnowsFail DEF Knows, Arguments, Authorizes
<1>4. CASE pc'[t] # "fail"
  <2>1. Arguments(t)'
    BY <1>4 DEF Knows, Arguments, Op, Authorizes, Unauthorized, Outside, WellFormed
  <2> QED
    BY <1>1, <1>2, <1>4, <2>1, KnowsAuthorized
<1> QED
  BY <1>3, <1>4

\* A call that does not authorize a token goes on.
LEMMA OtherGoesOn ==
    ASSUME NEW t \in Tx, ~Authorizes(t), call' = call, Route(t)', Arguments(t)', WritesOf(t)',
           GateRead(t)',
           pc'[t] \in {"lockVictims", "loginProfiles", "bind", "issue"} /\ Op(t) = "authenticate"
              => SubjectEnsured(t)'
    PROVE  Knows(t)'
BY DEF Knows, Authorizes, Op

LEMMA EnsuredKept ==
    ASSUME NEW t \in Tx, NEW w, SubjectEnsured(t), buf'[t] = Over(w, buf[t]),
           DOMAIN seen[t] \subseteq DOMAIN seen'[t],
           \A r \in DOMAIN seen[t] : seen'[t][r] = seen[t][r], loc'[t].uid = loc[t].uid
    PROVE  SubjectEnsured(t)'
BY DEF SubjectEnsured, Over

\* What any statement of t leaves it with.
LEMMA StatementLeaves ==
    ASSUME Inductive, NEW t \in Tx, NEW sh, NEW ex, NEW w, sh \subseteq Row, ex \subseteq Row,
           Rows(w), Statement(t, sh, ex, w)
    PROVE  /\ db' = db /\ buf'[t] = Over(w, buf[t])
           /\ DOMAIN seen[t] \subseteq DOMAIN seen'[t]
           /\ \A r \in DOMAIN seen[t] : seen'[t][r] = seen[t][r]
BY StatementReads

-----------------------------------------------------------------------------
(* Calls.                                                                  *)

LEMMA StartKeeps ==
    ASSUME SharedAuthAssumption, Inductive, NEW t \in Tx, NEW c \in Calls, Start(t, c)
    PROVE  Inductive'
<1>1. /\ pc[t] = "idle" /\ db' = db /\ seen' = seen /\ buf' = buf /\ now' = now
      /\ call' = [call EXCEPT ![t] = c] /\ loc' = [loc EXCEPT ![t].token = c.token]
      /\ c \in Call /\ WellFormed(c)
  BY DEF Start, store, SharedAuthAssumption
<1>2. LocalTypeOK /\ Knows(t) /\ StoreTypeOK /\ StoreInv
  BY DEF Inductive, TypeOK, LocalTypeOK
<1>3. /\ pc'[t] = IF c.op \in {"authenticate", "signout"} THEN "resolve" ELSE "begin"
      /\ DOMAIN pc' = Tx /\ \A o \in Tx \ {t} : pc'[o] = pc[o]
  BY <1>2, GotoEffect DEF Start, LocalTypeOK
<1>4. call'[t] = c /\ loc'[t].token = c.token /\ loc'[t].identity = loc[t].identity
  BY <1>1, <1>2 DEF LocalTypeOK, Local
<1>5. LocalTypeOK'
  <2>1. call' \in [Tx -> Call]
    BY <1>1, <1>2 DEF LocalTypeOK
  <2>2. c.token \in Hash \cup {None} /\ loc[t] \in Local
    BY <1>1, <1>2 DEF LocalTypeOK, Call
  <2>3. [loc[t] EXCEPT !.token = c.token] \in Local
    BY <2>2 DEF Local
  <2>4. loc' \in [Tx -> Local]
    BY <1>1, <1>2, <2>3 DEF LocalTypeOK
  <2> QED
    BY <1>1, <1>2, <1>3, <2>1, <2>4 DEF LocalTypeOK
<1>6. Knows(t)'
  <2>1. loc[t].identity = None /\ DOMAIN buf[t] = {}
    BY <1>1, <1>2 DEF Knows, Arguments, WritesOf, NoLocal
  <2> QED
    BY <1>1, <1>3, <1>4, <2>1
    DEF Knows, Route, Arguments, WritesOf, Op, Authorizes, Outside, Unauthorized, WellFormed
<1>7. StoreTypeOK' /\ StoreInv' /\ \A o \in Tx : ActiveStays(o)
  BY <1>1, <1>2, ReadTypes, SameRowsActive DEF Start
<1>8. OthersStay(t)
  BY <1>1, <1>2, <1>3 DEF OthersStay, LocalTypeOK
<1> QED
  BY <1>5, <1>6, <1>7, <1>8, OneMoves

LEMMA ResolveKeeps ==
    ASSUME Inductive, NEW t \in Tx, Resolve(t)
    PROVE  Inductive'
<1>1. /\ pc[t] = "resolve" /\ UNCHANGED store /\ now' = now /\ buf' = buf
      /\ LocalTypeOK /\ Knows(t)
  BY Parts DEF Resolve, store
<1>2. CASE \E u \in Uid : loc' = [loc EXCEPT ![t].uid = u] /\ Goto(t, "verify") /\ UNCHANGED call
  <2>1. PICK u \in Uid : loc' = [loc EXCEPT ![t].uid = u] /\ Goto(t, "verify") /\ UNCHANGED call
    BY <1>2
  <2>2. DOMAIN pc' = Tx /\ pc'[t] = "verify" /\ \A o \in Tx \ {t} : pc'[o] = pc[o]
    BY <1>1, <2>1, GotoEffect DEF LocalTypeOK
  <2>3. LocalStep(t) /\ loc'[t].uid = u /\ call' = call
    BY <1>1, <2>1, <2>2 DEF LocalStep, LocalTypeOK, Local
  <2>4. Knows(t)'
    BY <1>1, <2>2, <2>3
    DEF Knows, Route, Arguments, WritesOf, Op, Authorizes, Outside, Unauthorized, WellFormed
  <2> QED
    BY <1>1, <2>3, <2>4, ReadStep
<1>3. CASE Return(t)
  <2>1. LocalStep(t) /\ Knows(t)'
    BY <1>1, <1>3, ReturnStep, KnowsIdle DEF Knows, WritesOf
  <2> QED
    BY <1>1, <2>1, ReadStep
<1> QED
  BY <1>2, <1>3 DEF Resolve

LEMMA VerifyKeeps ==
    ASSUME Inductive, NEW t \in Tx, Verify(t)
    PROVE  Inductive'
<1>1. /\ pc[t] = "verify" /\ UNCHANGED store /\ now' = now /\ buf' = buf
      /\ LocalTypeOK /\ Knows(t)
  BY Parts DEF Verify, store
<1>2. CASE Goto(t, "begin") /\ UNCHANGED <<call, loc>>
  <2>1. LocalStep(t) /\ pc'[t] = "begin" /\ call' = call /\ loc' = loc
    BY <1>1, <1>2, GotoStep DEF local
  <2>2. Knows(t)'
    BY <1>1, <2>1
    DEF Knows, Route, Arguments, WritesOf, Op, Authorizes, Outside, Unauthorized, WellFormed
  <2> QED
    BY <1>1, <2>1, <2>2, ReadStep
<1>3. CASE Return(t)
  <2>1. LocalStep(t) /\ Knows(t)'
    BY <1>1, <1>3, ReturnStep, KnowsIdle DEF Knows, WritesOf
  <2> QED
    BY <1>1, <2>1, ReadStep
<1> QED
  BY <1>2, <1>3 DEF Verify

\* transact: the gate is read under a lock.
LEMMA BeginKeeps ==
    ASSUME SharedAuthAssumption, Inductive, NEW t \in Tx, Begin(t)
    PROVE  Inductive'
<1>1. pc[t] = "begin" /\ LocalTypeOK /\ Knows(t)
  BY Parts DEF Begin
<1>2. SharesAt(t) = {Gate}
  BY <1>1 DEF SharesAt, GateLock
<1>3. Statement(t, {Gate}, {}, NoWrites) /\ {Gate} \subseteq Row
  BY <1>2, KeysInRow DEF Begin
<1>4. /\ db' = db /\ DOMAIN buf'[t] = {}
      /\ db[Gate] # NoRow => Gate \in DOMAIN seen'[t] /\ seen'[t][Gate] = db[Gate]
  <2>1. buf'[t] = Over(NoWrites, buf[t]) /\ DOMAIN buf[t] = {}
    BY <1>1, <1>3, RowsNone, StatementReads DEF Knows, WritesOf
  <2>2. DOMAIN buf'[t] = {}
    BY <2>1, NoWritesAdded
  <2>3. \A r \in {Gate} \cup {} : db[r] # NoRow => r \in DOMAIN seen'[t] /\ seen'[t][r] = db[r]
    BY <1>3, RowsNone, StatementReads
  <2> QED
    BY <2>2, <2>3, <1>3, RowsNone, StatementReads
<1>5. /\ LocalStep(t) /\ call' = call /\ loc' = loc
      /\ pc'[t] = IF db[Gate] = "active"
                  THEN CASE Op(t) \in {"authenticate", "signout"} -> "lockUser"
                         [] Op(t) = "hasJoined" -> "findSession"
                         [] Op(t) = "cleanup"   -> "deleteTokens"
                         [] OTHER               -> "findOwner"
                  ELSE "fail"
  BY <1>1, CheckStep DEF Begin
<1>6. WritesOf(t)'
  BY <1>4 DEF WritesOf
<1>7. Knows(t)'
  <2>1. CASE db[Gate] = "active"
    <3>1. GateRead(t)'
      BY <2>1, <1>4 DEF GateRead, SharedAuthAssumption
    <3>2. call[t] \in Call
      BY <1>1 DEF LocalTypeOK
    <3> QED
      BY <1>1, <1>5, <1>6, <2>1, <3>1, <3>2
      DEF Knows, Route, Arguments, Op, Authorizes, Outside, Unauthorized, WellFormed, Call
  <2>2. CASE db[Gate] # "active"
    BY <1>1, <1>5, <1>6, <2>2, KnowsFail DEF Knows, Arguments, Op
  <2> QED
    BY <2>1, <2>2
<1> QED
  BY <1>3, <1>5, <1>7, RowsNone, StatementStep

-----------------------------------------------------------------------------
(* authorize.                                                              *)

LEMMA FindOwnerKeeps ==
    ASSUME SharedAuthAssumption, Inductive, NEW t \in Tx, FindOwner(t)
    PROVE  Inductive'
<1> DEFINE token == db[Token(loc[t].token)]
<1>1. /\ pc[t] = "findOwner" /\ UNCHANGED store /\ UNCHANGED local
      /\ db' = db /\ seen' = seen /\ buf' = buf /\ now' = now /\ call' = call
      /\ LocalTypeOK /\ Knows(t) /\ StoreTypeOK
  BY Parts DEF FindOwner, store, local
<1>2. /\ Authorizes(t) \/ (Op(t) = "invalidate" /\ ~Authorizes(t))
      /\ loc[t].token \in Hash /\ GateRead(t)
      /\ Authorizes(t) => loc[t].identity = None
  <2>1. Authorizes(t) \/ (Op(t) = "invalidate" /\ ~Authorizes(t))
    <3>1. Authorizes(t) \/ Op(t) = "invalidate"
      BY <1>1 DEF Knows, Route
    <3> QED
      BY <3>1 DEF Authorizes
  <2>2. loc[t].token \in Hash /\ GateRead(t)
    BY <1>1 DEF Knows, Arguments, Outside
  <2>3. Authorizes(t) => loc[t].identity = None
    BY <1>1 DEF Knows, Unauthorized
  <2> QED
    BY <2>1, <2>2, <2>3
<1>3. CASE token # NoRow
  <2>1. loc' = [loc EXCEPT ![t].uid = token.owner] /\ Goto(t, "lockUser")
    BY <1>3 DEF FindOwner
  <2>2. token.owner \in Uid
    <3>1. token \in TokenRow
      BY <1>1, <1>2, <1>3, Stores, KeysInRow, KeyValues
    <3> QED
      BY <3>1 DEF TokenRow
  <2>3. DOMAIN pc' = Tx /\ pc'[t] = "lockUser" /\ \A o \in Tx \ {t} : pc'[o] = pc[o]
    BY <1>1, <2>1, GotoEffect DEF LocalTypeOK
  <2>4. /\ LocalStep(t) /\ loc'[t].uid = token.owner /\ loc'[t].token = loc[t].token
        /\ loc'[t].identity = loc[t].identity
    <3> HIDE DEF token
    <3> QED
      BY <1>1, <2>1, <2>2, <2>3 DEF LocalStep, LocalTypeOK, Local
  <2>5. WritesOf(t)' /\ GateRead(t)'
    BY <1>1, <1>2, <2>3, WritesUnchanged DEF Knows, GateRead
  <2>6. Knows(t)'
    BY <1>1, <1>2, <2>2, <2>3, <2>4, <2>5
    DEF Knows, Route, Arguments, Op, Authorizes, Outside, Unauthorized, WellFormed
  <2> QED
    BY <1>1, <2>4, <2>6, ReadStep
<1>4. CASE token = NoRow
  <2>1. Check(t, Op(t) = "invalidate", "commit") /\ loc' = loc
    BY <1>4 DEF FindOwner
  <2>2. LocalStep(t) /\ pc'[t] = IF Op(t) = "invalidate" THEN "commit" ELSE "fail"
    BY <1>1, <2>1, CheckStep
  <2>3. WritesOf(t)' /\ GateRead(t)'
    BY <1>1, <1>2, <2>2, WritesUnchanged DEF Knows, GateRead
  <2>4. Knows(t)'
    BY <1>1, <1>2, <2>1, <2>2, <2>3
    DEF Knows, Route, Arguments, Op, Authorizes, Outside, Unauthorized, WellFormed
  <2> QED
    BY <1>1, <2>2, <2>4, ReadStep
<1> QED
  BY <1>3, <1>4

LEMMA LockUserKeeps ==
    ASSUME SharedAuthAssumption, Inductive, NEW t \in Tx, LockUser(t)
    PROVE  Inductive'
<1> DEFINE user == db[User(loc[t].uid)]
           ok == \/ Op(t) = "invalidate"
                 \/ Authorizes(t) /\ user # NoRow /\ Allowed(user)
                 \/ Op(t) \in {"authenticate", "signout"} /\ CredentialsHold(t, user)
           next == IF Op(t) \in {"authenticate", "signout"} THEN "checkLogin" ELSE "lockGeneration"
<1>1. pc[t] = "lockUser" /\ LocalTypeOK /\ Knows(t)
  BY Parts DEF LockUser
<1>2. loc[t].uid \in Uid /\ SharesAt(t) = {User(loc[t].uid)} /\ {User(loc[t].uid)} \subseteq Row
  BY <1>1, KeysInRow DEF Knows, Arguments, SharesAt, UserLock
<1>3. Statement(t, {User(loc[t].uid)}, {}, NoWrites)
  BY <1>2 DEF LockUser
<1>4. /\ db' = db /\ buf'[t] = Over(NoWrites, buf[t])
      /\ DOMAIN seen[t] \subseteq DOMAIN seen'[t]
      /\ \A r \in DOMAIN seen[t] : seen'[t][r] = seen[t][r]
      /\ \A r \in {User(loc[t].uid)} \cup {} :
            db[r] # NoRow => r \in DOMAIN seen'[t] /\ seen'[t][r] = db[r]
  BY <1>2, <1>3, RowsNone, StatementReads
<1>5. LocalStep(t) /\ call' = call /\ loc' = loc /\ pc'[t] = IF ok THEN next ELSE "fail"
  <2>1. CASE Op(t) = "invalidate" /\ Goto(t, "lockGeneration")
    BY <1>1, <2>1, GotoStep DEF LockUser
  <2>2. CASE Authorizes(t) /\ Check(t, user # NoRow /\ Allowed(user), "lockGeneration")
    BY <1>1, <2>2, CheckStep DEF LockUser, Authorizes
  <2>3. CASE Op(t) \in {"authenticate", "signout"} /\ Check(t, CredentialsHold(t, user), "checkLogin")
    BY <1>1, <2>3, CheckStep DEF LockUser, Authorizes
  <2> QED
    BY <2>1, <2>2, <2>3 DEF LockUser
<1>6. WritesOf(t)'
  BY <1>1, <1>4, <1>5, WritesUnchanged DEF Knows
<1>7. GateRead(t)'
  BY <1>1, <1>4, <1>5, ReadsKept DEF Knows, Outside
<1>8. Knows(t)'
  <2>1. CASE ok
    <3>1. Authorizes(t) => UserRead(t)'
      BY <1>2, <1>4, <1>5, <2>1 DEF UserRead, Allowed, Authorizes
    <3> QED
      BY <1>1, <1>2, <1>5, <1>6, <1>7, <2>1, <3>1
      DEF Knows, Route, Arguments, Op, Authorizes, Outside, Unauthorized, WellFormed
  <2>2. CASE ~ok
    BY <1>1, <1>2, <1>5, <1>6, <2>2, KnowsFail DEF Knows, Arguments
  <2> QED
    BY <2>1, <2>2
<1> QED
  BY <1>2, <1>3, <1>5, <1>8, RowsNone, StatementStep

LEMMA LockGenerationKeeps ==
    ASSUME SharedAuthAssumption, Inductive, NEW t \in Tx, LockGeneration(t)
    PROVE  Inductive'
<1> DEFINE s == Subject(loc[t].uid)
<1>1. pc[t] = "lockGeneration" /\ LocalTypeOK /\ Knows(t)
  BY Parts DEF LockGeneration
<1>2. loc[t].uid \in Uid /\ LocksAt(t) = {s} /\ {s} \subseteq Row
  BY <1>1, KeysInRow DEF Knows, Arguments, LocksAt, SubjectLock
<1>3. Statement(t, {}, {s}, NoWrites)
  BY <1>2 DEF LockGeneration
<1>4. /\ db' = db /\ buf'[t] = Over(NoWrites, buf[t])
      /\ DOMAIN seen[t] \subseteq DOMAIN seen'[t]
      /\ \A r \in DOMAIN seen[t] : seen'[t][r] = seen[t][r]
      /\ \A r \in {} \cup {s} : db[r] # NoRow => r \in DOMAIN seen'[t] /\ seen'[t][r] = db[r]
  <2> HIDE DEF s
  <2> QED
    BY <1>2, <1>3, RowsNone, StatementReads
<1>5. /\ LocalStep(t) /\ call' = call /\ loc' = loc
      /\ pc'[t] = IF Exists(s) THEN "lockToken" ELSE "fail"
  BY <1>1, CheckStep DEF LockGeneration
<1>6. WritesOf(t)'
  BY <1>1, <1>4, <1>5, WritesUnchanged DEF Knows
<1>7. GateRead(t)' /\ (Authorizes(t) => UserRead(t)')
  BY <1>1, <1>4, <1>5, ReadsKept DEF Knows, Outside, Unauthorized
<1>8. Knows(t)'
  <2>1. CASE Exists(s)
    <3>1. SubjectRead(t)'
      BY <1>4, <1>5, <2>1 DEF SubjectRead, Exists
    <3> QED
      BY <1>1, <1>2, <1>5, <1>6, <1>7, <2>1, <3>1
      DEF Knows, Route, Arguments, Op, Authorizes, Outside, Unauthorized, WellFormed
  <2>2. CASE ~Exists(s)
    BY <1>1, <1>2, <1>5, <1>6, <2>2, KnowsFail DEF Knows, Arguments
  <2> QED
    BY <2>1, <2>2
<1> QED
  BY <1>2, <1>3, <1>5, <1>8, RowsNone, StatementStep

LEMMA LockTokenKeeps ==
    ASSUME SharedAuthAssumption, Inductive, NEW t \in Tx, LockToken(t)
    PROVE  Inductive'
<1> DEFINE r == Token(loc[t].token)
           token == db[r]
           ok == token # NoRow /\ TokenAccepted(t, token)
<1>1. pc[t] = "lockToken" /\ Authorizes(t) /\ LocalTypeOK /\ Knows(t)
  BY Parts DEF LockToken
<1>2. /\ loc[t].uid \in Uid /\ loc[t].token \in Hash /\ loc[t].identity = None
      /\ GateRead(t) /\ UserRead(t) /\ SubjectRead(t)
      /\ LocksAt(t) = {r} /\ {r} \subseteq Row
  BY <1>1, KeysInRow DEF Knows, Arguments, LocksAt, TokenLock, Outside, Unauthorized
<1>3. Statement(t, {}, {r}, NoWrites)
  BY <1>2 DEF LockToken
<1>4. /\ db' = db /\ buf'[t] = Over(NoWrites, buf[t])
      /\ DOMAIN seen[t] \subseteq DOMAIN seen'[t]
      /\ \A x \in DOMAIN seen[t] : seen'[t][x] = seen[t][x] /\ seen[t][x] = db[x]
      /\ \A x \in {} \cup {r} : db[x] # NoRow => x \in DOMAIN seen'[t] /\ seen'[t][x] = db[x]
  <2> HIDE DEF r
  <2> QED
    BY <1>2, <1>3, RowsNone, StatementReads
<1>5. /\ LocalStep(t) /\ call' = call /\ loc' = loc
      /\ pc'[t] = IF ok THEN IF token = NoRow \/ token.identity = None
                             THEN "checkExpiry" ELSE "lockPlayer"
                  ELSE "fail"
  BY <1>1, CheckStep DEF LockToken
<1>6. WritesOf(t)'
  BY <1>1, <1>4, <1>5, WritesUnchanged DEF Knows
<1>7. GateRead(t)' /\ UserRead(t)' /\ SubjectRead(t)'
  BY <1>2, <1>4, <1>5, ReadsKept
<1>8. Knows(t)'
  <2>1. CASE ok
    <3>1. Generation(t) = seen'[t][Subject(loc[t].uid)]
      BY <1>1, <1>2, <1>4 DEF Generation, View, SubjectRead, Knows, WritesOf
    <3>2. TokenRead(t)'
      BY <1>2, <1>4, <1>5, <2>1, <3>1 DEF TokenRead, TokenAccepted, MatchesClient
    <3>3. seen'[t][r].identity = None => PlayerRead(t)'
      BY <1>2, <1>5 DEF PlayerRead
    <3>4. pc'[t] = IF seen'[t][r].identity = None THEN "checkExpiry" ELSE "lockPlayer"
      BY <1>4, <1>5, <2>1
    <3> QED
      BY <1>1, <1>2, <1>5, <1>6, <1>7, <3>2, <3>3, <3>4
      DEF Knows, Route, Arguments, Op, Authorizes, Outside, Unauthorized, WellFormed
  <2>2. CASE ~ok
    BY <1>1, <1>2, <1>5, <1>6, <2>2, KnowsFail DEF Knows, Arguments
  <2> QED
    BY <2>1, <2>2
<1> QED
  BY <1>2, <1>3, <1>5, <1>8, RowsNone, StatementStep

LEMMA LockPlayerKeeps ==
    ASSUME SharedAuthAssumption, Inductive, NEW t \in Tx, LockPlayer(t)
    PROVE  Inductive'
<1> DEFINE p == seen[t][Token(loc[t].token)].identity
           ok == Exists(Player(p)) /\ Active(p) /\ db[Player(p)].owner = loc[t].uid
<1>1. pc[t] = "lockPlayer" /\ Authorizes(t) /\ LocalTypeOK /\ StoreTypeOK /\ Knows(t)
  BY Parts DEF LockPlayer, Knows, Route
<1>2. /\ GateRead(t) /\ UserRead(t) /\ SubjectRead(t) /\ TokenRead(t)
      /\ p # None /\ loc[t].uid \in Uid
  BY <1>1 DEF Knows, Outside, Unauthorized, UserRead
<1>3. p \in Pid
  <2>1. seen[t][Token(loc[t].token)] \in TokenRow
    BY <1>1, <1>2, Stores, KeyValues DEF TokenRead
  <2> QED
    BY <1>2, <2>1 DEF TokenRow
<1>4. SharesAt(t) = {Player(p)} /\ {Player(p)} \subseteq Row
  BY <1>1, <1>3, KeysInRow DEF SharesAt, PlayerLock
<1>5. Statement(t, {Player(p)}, {}, NoWrites)
  BY <1>4 DEF LockPlayer
<1>6. /\ db' = db /\ buf'[t] = Over(NoWrites, buf[t])
      /\ DOMAIN seen[t] \subseteq DOMAIN seen'[t]
      /\ \A x \in DOMAIN seen[t] : seen'[t][x] = seen[t][x]
      /\ \A x \in {Player(p)} \cup {} : db[x] # NoRow => x \in DOMAIN seen'[t] /\ seen'[t][x] = db[x]
  <2> HIDE DEF p
  <2> QED
    BY <1>4, <1>5, RowsNone, StatementReads
<1>7. /\ Check(t, ok, "checkExpiry") /\ loc' = [loc EXCEPT ![t].identity = p]
      /\ now' = now /\ call' = call
  BY DEF LockPlayer, local
<1>8. /\ DOMAIN pc' = Tx /\ \A o \in Tx \ {t} : pc'[o] = pc[o]
      /\ pc'[t] = IF ok THEN "checkExpiry" ELSE "fail"
  <2> HIDE DEF ok
  <2> QED
    BY <1>1, <1>7, CheckEffect DEF LocalTypeOK
<1>9. /\ LocalStep(t) /\ loc'[t].identity = p /\ loc'[t].uid = loc[t].uid
      /\ loc'[t].token = loc[t].token
  <2> HIDE DEF p
  <2> QED
    BY <1>1, <1>3, <1>7, <1>8 DEF LocalStep, LocalTypeOK, Local
<1>10. WritesOf(t)'
  BY <1>1, <1>6, <1>7, <1>8, WritesUnchanged DEF Knows
<1>11. GateRead(t)' /\ UserRead(t)' /\ SubjectRead(t)' /\ TokenRead(t)'
  BY <1>2, <1>6, <1>7, <1>9, ReadsKept
<1>12. Knows(t)'
  <2>1. CASE ok
    <3>1. seen'[t][Token(loc'[t].token)].identity = p
      BY <1>2, <1>6, <1>9 DEF TokenRead
    <3>2. PlayerRead(t)'
      BY <1>3, <1>6, <1>9, <2>1, <3>1 DEF PlayerRead, Exists, Active
    <3>3. Authorized(t)' /\ Authorizes(t)'
      BY <1>1, <1>7, <1>11, <3>2 DEF Authorized, Authorizes, Op
    <3>4. Route(t)' /\ Arguments(t)'
      BY <1>1, <1>7, <1>8, <1>9, <2>1
      DEF Knows, Route, Arguments, Op, Authorizes, WellFormed
    <3> QED
      BY <1>8, <1>10, <2>1, <3>3, <3>4, KnowsAuthorized DEF Unauthorized, Outside
  <2>2. CASE ~ok
    BY <1>1, <1>2, <1>7, <1>8, <1>9, <1>10, <2>2, KnowsFail DEF Knows, Arguments
  <2> QED
    BY <2>1, <2>2
<1> QED
  BY <1>4, <1>5, <1>9, <1>12, RowsNone, StatementStep

LEMMA CheckExpiryKeeps ==
    ASSUME SharedAuthAssumption, Inductive, NEW t \in Tx, CheckExpiry(t)
    PROVE  Inductive'
<1> DEFINE ok == now < seen[t][Token(loc[t].token)].expires
           next == CASE Op(t) = "validate" -> "commit"
                     [] Op(t) = "refresh"  -> IF call[t].selected = None THEN "deleteOld" ELSE "select"
                     [] Op(t) = "join"     -> "clearSession"
                     [] OTHER              -> "checkName"
<1>1. /\ pc[t] = "checkExpiry" /\ Authorizes(t) /\ LocalTypeOK /\ Knows(t) /\ UNCHANGED store
      /\ db' = db /\ seen' = seen /\ buf' = buf
  BY Parts DEF CheckExpiry, Knows, Route, store
<1>2. Authorized(t)
  BY <1>1, IsAuthorized DEF Unauthorized, Outside
<1>3. LocalStep(t) /\ call' = call /\ loc' = loc /\ pc'[t] = IF ok THEN next ELSE "fail"
  <2>1. Check(t, ok, next) /\ UNCHANGED <<local, loc>>
    BY DEF CheckExpiry
  <2> HIDE DEF ok, next
  <2> QED
    BY <1>1, <2>1, CheckStep
<1>4. WritesOf(t)'
  BY <1>1, <1>3, WritesUnchanged DEF Knows, Authorizes
<1>5. Authorized(t)' /\ Authorizes(t)'
  BY <1>1, <1>2, <1>3, StaysAuthorized DEF Authorizes, Op
<1>6. Knows(t)'
  <2>1. CASE ok
    <3>1. Route(t)' /\ Arguments(t)'
      BY <1>1, <1>3, <2>1 DEF Knows, Route, Arguments, Op, Authorizes, WellFormed
    <3>2. pc'[t] \notin Unauthorized \cup {"lockGeneration", "lockToken", "lockPlayer"}
      BY <1>3, <2>1 DEF Unauthorized, Outside
    <3> QED
      BY <1>4, <1>5, <3>1, <3>2, KnowsAuthorized
  <2>2. CASE ~ok
    BY <1>1, <1>3, <1>4, <2>2, KnowsFail DEF Knows, Arguments, Authorizes
  <2> QED
    BY <2>1, <2>2
<1> QED
  BY <1>1, <1>3, <1>6, ReadStep

LEMMA DeleteInvalidatedKeeps ==
    ASSUME SharedAuthAssumption, Inductive, NEW t \in Tx, DeleteInvalidated(t)
    PROVE  Inductive'
<1> DEFINE r == Token(loc[t].token)
           token == db[r]
           ok == token = NoRow \/ MatchesClient(token.client, call[t].client)
           w == IF token # NoRow /\ ok THEN Drop({r}) ELSE NoWrites
<1>1. pc[t] = "lockToken" /\ Op(t) = "invalidate" /\ LocalTypeOK /\ Knows(t)
  BY Parts DEF DeleteInvalidated
<1>2. /\ loc[t].token \in Hash /\ GateRead(t) /\ ~Authorizes(t)
      /\ LocksAt(t) = {r} /\ {r} \subseteq Row
  BY <1>1, KeysInRow DEF Knows, Arguments, LocksAt, TokenLock, Outside, Authorizes
<1>3. Statement(t, {}, {r}, w)
  BY <1>2 DEF DeleteInvalidated
<1>4. Rows(w) /\ DOMAIN w \subseteq {r}
  <2>1. Rows(Drop({r})) /\ DOMAIN Drop({r}) = {r}
    BY <1>2, RowsDrop
  <2> QED
    BY <2>1, RowsNone
<1>5. /\ LocalStep(t) /\ call' = call /\ loc' = loc
      /\ pc'[t] = IF ok THEN "commit" ELSE "fail"
  BY <1>1, CheckStep DEF DeleteInvalidated
<1>6. Knows(t)'
  <2> HIDE DEF w
  <2>1. /\ buf'[t] = Over(w, buf[t]) /\ db' = db
        /\ DOMAIN seen[t] \subseteq DOMAIN seen'[t]
        /\ \A x \in DOMAIN seen[t] : seen'[t][x] = seen[t][x]
    <3> HIDE DEF r
    <3> QED
      BY <1>2, <1>3, <1>4, StatementReads
  <2>2. WritesOf(t)'
    BY <1>1, <1>2, <1>4, <1>5, <2>1, WritesKept, KeysDiffer DEF Knows
  <2>3. GateRead(t)'
    BY <1>2, <1>5, <2>1, ReadsKept
  <2> QED
    BY <1>1, <1>2, <1>5, <2>2, <2>3
    DEF Knows, Route, Arguments, Op, Authorizes, Outside, Unauthorized, WellFormed
<1> HIDE DEF r, w
<1> QED
  BY <1>2, <1>3, <1>4, <1>5, <1>6, StatementStep

-----------------------------------------------------------------------------
(* Refresh.                                                                *)

LEMMA SelectKeeps ==
    ASSUME SharedAuthAssumption, Inductive, NEW t \in Tx, Select(t)
    PROVE  Inductive'
<1> DEFINE sel == call[t].selected
           own == loc[t].identity = None /\ Active(sel) /\ Exists(Player(sel))
                    /\ db[Player(sel)].owner = loc[t].uid
           ok == own \/ loc[t].identity = sel
<1>1. /\ pc[t] = "select" /\ Op(t) = "refresh" /\ Authorizes(t) /\ sel \in Pid
      /\ LocalTypeOK /\ Knows(t)
  <2>1. pc[t] = "select" /\ LocalTypeOK /\ Knows(t) /\ Op(t) = "refresh" /\ sel # None
    BY Parts DEF Select, Knows, Route
  <2>2. call[t] \in Call
    BY <2>1 DEF LocalTypeOK
  <2> QED
    BY <2>1, <2>2 DEF Authorizes, Call
<1>2. Authorized(t) /\ loc[t].uid \in Uid
  BY <1>1, IsAuthorized DEF Unauthorized, Outside, Authorized, UserRead
<1>3. /\ SharesAt(t) \subseteq {Player(sel)} /\ {Player(sel)} \subseteq Row
      /\ own => SharesAt(t) = {Player(sel)}
  BY <1>1, KeysInRow DEF SharesAt, SelectedLock
<1>4. Statement(t, SharesAt(t), {}, NoWrites)
  BY DEF Select
<1>5. /\ db' = db /\ buf'[t] = Over(NoWrites, buf[t])
      /\ DOMAIN seen[t] \subseteq DOMAIN seen'[t]
      /\ \A x \in DOMAIN seen[t] : seen'[t][x] = seen[t][x]
      /\ \A x \in SharesAt(t) \cup {} : db[x] # NoRow => x \in DOMAIN seen'[t] /\ seen'[t][x] = db[x]
  BY <1>3, <1>4, RowsNone, StatementReads
<1>6. /\ Check(t, ok, "deleteOld") /\ loc' = [loc EXCEPT ![t].identity = sel]
      /\ now' = now /\ call' = call
  BY DEF Select, local
<1>7. /\ DOMAIN pc' = Tx /\ \A o \in Tx \ {t} : pc'[o] = pc[o]
      /\ pc'[t] = IF ok THEN "deleteOld" ELSE "fail"
  <2> HIDE DEF ok
  <2> QED
    BY <1>1, <1>6, CheckEffect DEF LocalTypeOK
<1>8. /\ LocalStep(t) /\ loc'[t].identity = sel /\ loc'[t].uid = loc[t].uid
      /\ loc'[t].token = loc[t].token
  <2> HIDE DEF sel
  <2> QED
    BY <1>1, <1>6, <1>7 DEF LocalStep, LocalTypeOK, Local
<1>9. WritesOf(t)'
  BY <1>1, <1>5, <1>6, <1>7, WritesUnchanged DEF Knows
<1>10. GateRead(t)' /\ UserRead(t)' /\ SubjectRead(t)' /\ TokenRead(t)'
  BY <1>2, <1>5, <1>6, <1>8, ReadsKept DEF Authorized
<1>11. Knows(t)'
  <2>1. CASE ok
    <3>1. seen'[t][Token(loc'[t].token)].identity \in {None, loc[t].identity}
      BY <1>2, <1>5, <1>8 DEF TokenRead, PlayerRead, Authorized
    <3>2. PlayerRead(t)'
      <4>1. CASE own
        BY <1>1, <1>3, <1>5, <1>8, <3>1, <4>1 DEF PlayerRead, Exists, Active
      <4>2. CASE loc[t].identity = sel
        BY <1>2, <1>5, <1>8, <3>1, <4>2 DEF PlayerRead, Active, Authorized
      <4> QED
        BY <2>1, <4>1, <4>2
    <3>3. Authorized(t)' /\ Authorizes(t)'
      BY <1>1, <1>6, <1>10, <3>2 DEF Authorized, Authorizes, Op
    <3>4. Route(t)' /\ Arguments(t)'
      BY <1>1, <1>6, <1>7, <1>8, <2>1
      DEF Knows, Route, Arguments, Op, Authorizes, WellFormed
    <3> QED
      BY <1>7, <1>9, <2>1, <3>3, <3>4, KnowsAuthorized DEF Unauthorized, Outside
  <2>2. CASE ~ok
    BY <1>1, <1>2, <1>6, <1>7, <1>8, <1>9, <2>2, KnowsFail DEF Knows, Arguments
  <2> QED
    BY <2>1, <2>2
<1>12. SharesAt(t) \subseteq Row
  BY <1>3
<1> QED
  BY <1>4, <1>8, <1>11, <1>12, RowsNone, StatementStep


LEMMA DeleteOldKeeps ==
    ASSUME SharedAuthAssumption, Inductive, NEW t \in Tx, DeleteOld(t)
    PROVE  Inductive'
<1> DEFINE r == Token(loc[t].token)
           w == Drop({r})
<1>1. /\ pc[t] = "deleteOld" /\ Op(t) = "refresh" /\ Authorizes(t)
      /\ LocalTypeOK /\ Knows(t)
  BY Parts DEF DeleteOld, Knows, Route, Authorizes
<1>2. Authorized(t) /\ loc[t].token \in Hash
  BY <1>1, IsAuthorized DEF Unauthorized, Outside, Authorized, TokenRead
<1>3. Statement(t, {}, {}, w) /\ Rows(w) /\ DOMAIN w = {r}
  BY <1>2, KeysInRow, RowsDrop DEF DeleteOld
<1>4. /\ LocalStep(t) /\ call' = call /\ loc' = loc /\ pc'[t] = "issue"
  BY <1>1, GotoStep DEF DeleteOld
<1>5. Route(t)'
  BY <1>1, <1>4 DEF Knows, Route, Op, Authorizes
<1>6. \A u, p : Subject(u) \notin DOMAIN w /\ Identity(p) \notin DOMAIN w
  BY <1>3, KeysDiffer
<1> HIDE DEF w
<1>7. Knows(t)'
  BY <1>1, <1>3, <1>4, <1>5, <1>6, StatementLeaves, AuthorizedGoesOn DEF Unauthorized, Outside
<1> QED
  BY <1>3, <1>4, <1>7, StatementStep

-----------------------------------------------------------------------------
(* Issuing a token.                                                        *)

LEMMA GenerationType ==
    ASSUME Inductive, NEW t \in Tx, loc[t].uid \in Uid,
           SubjectEnsured(t) \/ SubjectRead(t)
    PROVE  Generation(t) \in Nat
<1> DEFINE r == Subject(loc[t].uid)
<1>1. StoreTypeOK /\ StoreInv /\ WritesOf(t)
  BY Parts DEF Knows
<1>2. r \in DOMAIN seen[t] /\ seen[t][r] = db[r] /\ (r \in DOMAIN buf[t] \/ db[r] # NoRow)
  BY <1>1 DEF SubjectEnsured, SubjectRead, StoreInv, SeenIsCurrent
<1>3. CASE r \in DOMAIN buf[t]
  <2>1. buf[t][r] \in Nat \ {0}
    BY <1>1, <1>3, Stores, KeyValues DEF WritesOf
  <2> QED
    BY <1>3, <2>1 DEF Generation, View
<1>4. CASE r \notin DOMAIN buf[t]
  <2>1. db[r] \in Nat \ {0}
    BY <1>1, <1>2, <1>4, Stores, KeysInRow, KeyValues
  <2> QED
    BY <1>4, <2>1 DEF Generation, View
<1> QED
  BY <1>3, <1>4

LEMMA NewTokenType ==
    ASSUME SharedAuthAssumption, Inductive, NEW t \in Tx, pc[t] = "issue"
    PROVE  /\ NewToken(t) \in TokenRow
           /\ Op(t) = "refresh" \/ (Op(t) = "authenticate" /\ SubjectEnsured(t) /\ ~Authorizes(t))
<1>1. LocalTypeOK /\ StoreTypeOK /\ Knows(t) /\ Op(t) \in {"authenticate", "refresh"}
  BY Parts DEF Knows, Route
<1>2. now \in Nat /\ now + TokenTTL \in Nat /\ loc[t].identity \in Pid \cup {None}
  BY <1>1 DEF LocalTypeOK, Local, SharedAuthAssumption
<1>3. CASE Op(t) = "refresh"
  <2>1. Authorized(t) /\ loc[t].uid \in Uid
    BY <1>1, <1>3, IsAuthorized DEF Authorizes, Unauthorized, Outside, Authorized, UserRead
  <2>2. seen[t][Token(loc[t].token)].client \in Client
    <3>1. seen[t][Token(loc[t].token)] \in TokenRow
      BY <1>1, <2>1, Stores, KeyValues DEF TokenRead, Authorized
    <3> QED
      BY <3>1 DEF TokenRow
  <2>3. Generation(t) \in Nat
    BY <2>1, GenerationType DEF Authorized
  <2> QED
    BY <1>2, <1>3, <2>1, <2>2, <2>3 DEF NewToken, TokenRow
<1>4. CASE Op(t) = "authenticate"
  <2>1. SubjectEnsured(t) /\ loc[t].uid \in Uid /\ call[t].client \in Client
    BY <1>1, <1>4 DEF Knows, Arguments, WellFormed, Op
  <2>2. Generation(t) \in Nat
    BY <2>1, GenerationType
  <2> QED
    BY <1>2, <1>4, <2>1, <2>2 DEF NewToken, TokenRow, Authorizes
<1> QED
  BY <1>1, <1>3, <1>4

LEMMA IssueKeeps ==
    ASSUME SharedAuthAssumption, Inductive, NEW t \in Tx, Issue(t)
    PROVE  Inductive'
<1>1. pc[t] = "issue" /\ UNCHANGED <<local, loc>> /\ LocalTypeOK /\ Knows(t)
  BY Parts DEF Issue
<1>2. /\ NewToken(t) \in TokenRow
      /\ Op(t) = "refresh" \/ (Op(t) = "authenticate" /\ SubjectEnsured(t) /\ ~Authorizes(t))
  BY <1>1, NewTokenType
<1>3. ASSUME NEW h \in Hash, NEW old \in SUBSET Hash,
             Statement(t, {}, {}, Over(Put(Token(h), NewToken(t)), Drop({Token(v) : v \in old}))),
             Goto(t, "commit")
      PROVE  Inductive'
  <2> DEFINE w == Over(Put(Token(h), NewToken(t)), Drop({Token(v) : v \in old}))
  <2>1. Rows(w)
    <3>1. Rows(Put(Token(h), NewToken(t)))
      BY <1>2, RowsToken
    <3>2. Rows(Drop({Token(v) : v \in old}))
      <4>1. {Token(v) : v \in old} \subseteq Row
        BY KeysInRow
      <4> QED
        BY <4>1, RowsDrop
    <3> QED
      BY <3>1, <3>2, RowsOver
  <2>2. \A u, p : Subject(u) \notin DOMAIN w /\ Identity(p) \notin DOMAIN w
    BY KeysDiffer DEF Over, Put, Drop
  <2>3. LocalStep(t) /\ pc'[t] = "commit" /\ call' = call /\ loc' = loc
    BY <1>1, <1>3, GotoStep
  <2>4. Route(t)' /\ Arguments(t)'
    BY <1>1, <2>3 DEF Knows, Route, Arguments, Op, Authorizes, WellFormed
  <2>5. Statement(t, {}, {}, w)
    BY <1>3
  <2> HIDE DEF w
  <2>6. Knows(t)'
    <3>1. CASE Op(t) = "refresh"
      BY <1>1, <2>1, <2>2, <2>3, <2>4, <2>5, <3>1, StatementLeaves, AuthorizedGoesOn
      DEF Unauthorized, Outside, Authorizes
    <3>2. CASE ~Authorizes(t)
      <4>1. WritesOf(t)' /\ GateRead(t)'
        BY <1>1, <2>1, <2>2, <2>3, <2>5, StatementLeaves, WritesKept, ReadsKept DEF Knows, Outside
      <4> QED
        BY <2>3, <2>4, <3>2, <4>1, OtherGoesOn
    <3> QED
      BY <1>2, <3>1, <3>2
  <2> QED
    BY <2>1, <2>3, <2>5, <2>6, StatementStep
<1>4. CASE Goto(t, "fail") /\ UNCHANGED store
  <2>1. LocalStep(t) /\ pc'[t] = "fail" /\ call' = call /\ loc' = loc
    BY <1>1, <1>4, GotoStep
  <2>2. Knows(t)'
    BY <1>1, <1>4, <2>1, WritesUnchanged, KnowsFail DEF Knows, Arguments, store
  <2> QED
    BY <1>4, <2>1, <2>2, ReadStep
<1>5. \A old \in IF Op(t) = "authenticate" THEN Victims(t) ELSE {{}} : old \in SUBSET Hash
  BY DEF Victims, Oldest
<1>6. FreshHashes(t) \subseteq Hash
  BY DEF FreshHashes
<1> QED
  BY <1>3, <1>4, <1>5, <1>6 DEF Issue

-----------------------------------------------------------------------------
(* Authenticate and Signout.                                               *)

LEMMA CheckLoginKeeps ==
    ASSUME SharedAuthAssumption, Inductive, NEW t \in Tx, CheckLogin(t)
    PROVE  Inductive'
<1> DEFINE ok == LoginOwner(call[t].login, loc[t].uid)
           next == IF Op(t) = "signout" THEN "bump" ELSE "ensureSubject"
<1>1. /\ pc[t] = "checkLogin" /\ UNCHANGED store /\ LocalTypeOK /\ Knows(t)
      /\ db' = db /\ seen' = seen /\ buf' = buf
  BY Parts DEF CheckLogin, store
<1>2. Op(t) \in {"authenticate", "signout"} /\ ~Authorizes(t) /\ GateRead(t)
  BY <1>1 DEF Knows, Route, Authorizes, Outside
<1>3. LocalStep(t) /\ call' = call /\ loc' = loc /\ pc'[t] = IF ok THEN next ELSE "fail"
  <2>1. Check(t, ok, next) /\ UNCHANGED <<local, loc>>
    BY DEF CheckLogin
  <2> HIDE DEF ok, next
  <2> QED
    BY <1>1, <2>1, CheckStep
<1>4. Route(t)' /\ Arguments(t)'
  BY <1>1, <1>2, <1>3 DEF Knows, Route, Arguments, Op, Authorizes, WellFormed
<1>5. WritesOf(t)' /\ GateRead(t)'
  BY <1>1, <1>2, <1>3, WritesUnchanged DEF Knows, GateRead
<1>6. Knows(t)'
  BY <1>2, <1>3, <1>4, <1>5, OtherGoesOn
<1> QED
  BY <1>1, <1>3, <1>6, ReadStep

LEMMA EnsureSubjectKeeps ==
    ASSUME SharedAuthAssumption, Inductive, NEW t \in Tx, EnsureSubject(t)
    PROVE  Inductive'
<1> DEFINE s == Subject(loc[t].uid)
           w == IF Exists(s) THEN NoWrites ELSE Put(s, 1)
<1>1. pc[t] = "ensureSubject" /\ LocalTypeOK /\ Knows(t)
  BY Parts DEF EnsureSubject
<1>2. /\ Op(t) = "authenticate" /\ ~Authorizes(t) /\ GateRead(t) /\ loc[t].uid \in Uid
      /\ LocksAt(t) = {s} /\ {s} \subseteq Row
  <2>1. Op(t) = "authenticate" /\ ~Authorizes(t) /\ GateRead(t) /\ loc[t].uid \in Uid
    BY <1>1 DEF Knows, Route, Arguments, Authorizes, Outside
  <2> QED
    BY <1>1, <2>1, KeysInRow DEF LocksAt, SubjectLock
<1>3. Statement(t, {}, {s}, w)
  BY <1>2 DEF EnsureSubject
<1>4. /\ Rows(w) /\ DOMAIN w \subseteq {s} /\ (s \in DOMAIN w => w[s] = 1)
      /\ (Exists(s) \/ s \in DOMAIN w)
  <2>1. Rows(Put(s, 1)) /\ DOMAIN Put(s, 1) = {s} /\ Put(s, 1)[s] = 1
    BY <1>2, KeyValues, RowsPut
  <2> QED
    BY <2>1, RowsNone
<1>5. LocalStep(t) /\ pc'[t] = "lockVictims" /\ call' = call /\ loc' = loc
  BY <1>1, GotoStep DEF EnsureSubject
<1>6. /\ db' = db /\ buf'[t] = Over(w, buf[t])
      /\ DOMAIN seen[t] \subseteq DOMAIN seen'[t]
      /\ \A r \in DOMAIN seen[t] : seen'[t][r] = seen[t][r]
      /\ \A r \in {} \cup {s} : db[r] # NoRow => r \in DOMAIN seen'[t] /\ seen'[t][r] = db[r]
      /\ \A r \in DOMAIN w : r \in DOMAIN seen'[t]
  <2> HIDE DEF s, w
  <2> QED
    BY <1>2, <1>3, <1>4, StatementReads
<1>7. SubjectEnsured(t)'
  <2> HIDE DEF w
  <2> QED
    BY <1>4, <1>5, <1>6 DEF SubjectEnsured, Exists, Over
<1>8. WritesOf(t)' /\ GateRead(t)'
  <2> HIDE DEF w
  <2>1. 1 # NoRow
    BY DEF SharedAuthAssumption
  <2>2. \A p : Identity(p) \notin DOMAIN w
    BY <1>4, KeysDiffer
  <2>3. \A u \in Uid : Subject(u) \in DOMAIN w => w[Subject(u)] # NoRow
    BY <1>4, <2>1
  <2> QED
    BY <1>1, <1>2, <1>5, <1>6, <2>2, <2>3, WritesKept, ReadsKept DEF Knows
<1>9. Route(t)' /\ Arguments(t)'
  BY <1>1, <1>2, <1>5 DEF Knows, Route, Arguments, Op, Authorizes, WellFormed
<1>10. Knows(t)'
  BY <1>2, <1>5, <1>7, <1>8, <1>9, OtherGoesOn
<1> HIDE DEF s, w
<1> QED
  BY <1>2, <1>3, <1>4, <1>5, <1>10, StatementStep

LEMMA LockVictimsKeeps ==
    ASSUME SharedAuthAssumption, Inductive, NEW t \in Tx, LockVictims(t)
    PROVE  Inductive'
<1>1. pc[t] = "lockVictims" /\ LocalTypeOK /\ Knows(t)
  BY Parts DEF LockVictims
<1>2. Op(t) = "authenticate" /\ ~Authorizes(t) /\ GateRead(t) /\ SubjectEnsured(t)
  BY <1>1 DEF Knows, Route, Authorizes, Outside
<1>3. LocksAt(t) \subseteq Row
  BY <1>1, KeysInRow DEF LocksAt, VictimLocks, EvictionCandidates
<1>4. Statement(t, {}, LocksAt(t), NoWrites)
  BY DEF LockVictims
<1>5. LocalStep(t) /\ pc'[t] = "loginProfiles" /\ call' = call /\ loc' = loc
  BY <1>1, GotoStep DEF LockVictims
<1>6. /\ buf'[t] = Over(NoWrites, buf[t]) /\ DOMAIN seen[t] \subseteq DOMAIN seen'[t]
      /\ \A r \in DOMAIN seen[t] : seen'[t][r] = seen[t][r]
  BY <1>3, <1>4, RowsNone, StatementLeaves
<1>7. WritesOf(t)' /\ GateRead(t)' /\ SubjectEnsured(t)'
  BY <1>1, <1>2, <1>5, <1>6, WritesUnchanged, ReadsKept, EnsuredKept DEF Knows
<1>8. Route(t)' /\ Arguments(t)'
  BY <1>1, <1>2, <1>5 DEF Knows, Route, Arguments, Op, Authorizes, WellFormed
<1>9. Knows(t)'
  BY <1>2, <1>5, <1>7, <1>8, OtherGoesOn
<1> QED
  BY <1>3, <1>4, <1>5, <1>9, RowsNone, StatementStep

LEMMA LoginProfilesKeeps ==
    ASSUME SharedAuthAssumption, Inductive, NEW t \in Tx, LoginProfiles(t)
    PROVE  Inductive'
<1> DEFINE new == Provisioned(t)
           mine == {p \in PlayersOf(loc[t].uid) : Active(p)}
           w == [r \in {Identity(p) : p \in new} |-> "active"]
<1>1. pc[t] = "loginProfiles" /\ LocalTypeOK /\ Knows(t)
  BY Parts DEF LoginProfiles
<1>2. Op(t) = "authenticate" /\ ~Authorizes(t) /\ GateRead(t) /\ SubjectEnsured(t)
  BY <1>1 DEF Knows, Route, Authorizes, Outside
<1>3. new \subseteq Pid /\ mine \subseteq Pid
  BY DEF Provisioned, PlayersOf
<1>4. SharesAt(t) \subseteq Row /\ LocksAt(t) \subseteq Row
  <2>1. SharesAt(t) = {Player(p) : p \in PlayersOf(loc[t].uid)}
    BY <1>1 DEF SharesAt, ProfileLocks
  <2>2. LocksAt(t) = {Identity(p) : p \in new}
    BY <1>1 DEF LocksAt
  <2> QED
    BY <1>3, <2>1, <2>2, KeysInRow DEF PlayersOf
<1>5. Statement(t, SharesAt(t), LocksAt(t), w)
  BY DEF LoginProfiles
<1>6. /\ Rows(w) /\ \A u : Subject(u) \notin DOMAIN w
      /\ \A p : Identity(p) \in DOMAIN w => w[Identity(p)] = "active"
  <2>1. \A p \in new : Identity(p) \in Row /\ Values(Identity(p)) = IdentityState
    BY <1>3, KeysInRow, KeyValues
  <2>2. Rows(w)
    <3> HIDE DEF new
    <3> QED
      BY <2>1 DEF Rows, IdentityState
  <2> QED
    BY <2>2, KeysDiffer
<1>7. /\ loc' = [loc EXCEPT ![t].profiles = mine \cup new] /\ Goto(t, "bind")
      /\ now' = now /\ call' = call
  BY DEF LoginProfiles, local
<1>8. DOMAIN pc' = Tx /\ pc'[t] = "bind" /\ \A o \in Tx \ {t} : pc'[o] = pc[o]
  BY <1>1, <1>7, GotoEffect DEF LocalTypeOK
<1>9. LocalStep(t) /\ loc'[t].uid = loc[t].uid /\ loc'[t].token = loc[t].token
  <2> HIDE DEF mine, new
  <2>1. mine \cup new \in SUBSET Pid
    BY <1>3
  <2> QED
    BY <1>1, <1>7, <1>8, <2>1 DEF LocalStep, LocalTypeOK, Local
<1> HIDE DEF w
<1>10. /\ buf'[t] = Over(w, buf[t]) /\ DOMAIN seen[t] \subseteq DOMAIN seen'[t]
       /\ \A r \in DOMAIN seen[t] : seen'[t][r] = seen[t][r]
  BY <1>4, <1>5, <1>6, StatementLeaves
<1>11. WritesOf(t)' /\ GateRead(t)' /\ SubjectEnsured(t)'
  <2>1. WritesOf(t)'
    BY <1>1, <1>2, <1>6, <1>7, <1>8, <1>10, WritesKept DEF Knows
  <2>2. GateRead(t)' /\ SubjectEnsured(t)'
    BY <1>2, <1>7, <1>9, <1>10, ReadsKept, EnsuredKept
  <2> QED
    BY <2>1, <2>2
<1>12. Route(t)' /\ Arguments(t)'
  BY <1>1, <1>2, <1>7, <1>8, <1>9 DEF Knows, Route, Arguments, Op, Authorizes, WellFormed
<1>13. Knows(t)'
  BY <1>2, <1>7, <1>11, <1>12, OtherGoesOn
<1> QED
  BY <1>4, <1>5, <1>6, <1>9, <1>13, StatementStep

LEMMA BindLoginKeeps ==
    ASSUME SharedAuthAssumption, Inductive, NEW t \in Tx, BindLogin(t)
    PROVE  Inductive'
<1>1. /\ pc[t] = "bind" /\ UNCHANGED store /\ now' = now /\ call' = call
      /\ seen' = seen /\ buf' = buf /\ LocalTypeOK /\ Knows(t)
  BY Parts DEF BindLogin, store, local
<1>2. /\ Op(t) = "authenticate" /\ ~Authorizes(t) /\ GateRead(t) /\ SubjectEnsured(t)
      /\ loc[t].profiles \subseteq Pid
  BY <1>1 DEF Knows, Route, Authorizes, Outside, LocalTypeOK, Local
<1>3. CASE Goto(t, "fail") /\ UNCHANGED loc
  <2>1. LocalStep(t) /\ pc'[t] = "fail" /\ loc' = loc
    BY <1>1, <1>3, GotoStep DEF local
  <2>2. Knows(t)'
    BY <1>1, <2>1, WritesUnchanged, KnowsFail DEF Knows, Arguments
  <2> QED
    BY <1>1, <2>1, <2>2, ReadStep
<1>4. ASSUME NEW p \in Pid \cup {None}, Goto(t, "issue"),
             loc' = [loc EXCEPT ![t].profiles = {}, ![t].identity = p]
      PROVE  Inductive'
  <2>1. DOMAIN pc' = Tx /\ pc'[t] = "issue" /\ \A o \in Tx \ {t} : pc'[o] = pc[o]
    BY <1>1, <1>4, GotoEffect DEF LocalTypeOK
  <2>2. LocalStep(t) /\ loc'[t].uid = loc[t].uid /\ loc'[t].token = loc[t].token
    <3> DEFINE l == [loc[t] EXCEPT !.profiles = {}, !.identity = p]
    <3>1. loc \in [Tx -> Local] /\ loc[t] \in Local
      BY <1>1 DEF LocalTypeOK
    <3>2. l \in Local /\ l.uid = loc[t].uid /\ l.token = loc[t].token
      BY <1>4, <3>1 DEF Local
    <3>3. loc' = [loc EXCEPT ![t] = l]
      BY <1>4, <3>1 DEF Local
    <3> HIDE DEF l
    <3> QED
      BY <1>1, <2>1, <3>1, <3>2, <3>3 DEF LocalStep, LocalTypeOK
  <2>3. WritesOf(t)' /\ GateRead(t)' /\ SubjectEnsured(t)'
    BY <1>1, <1>2, <2>1, <2>2, WritesUnchanged DEF Knows, GateRead, SubjectEnsured
  <2>4. Route(t)' /\ Arguments(t)'
    BY <1>1, <1>2, <2>1, <2>2 DEF Knows, Route, Arguments, Op, Authorizes, WellFormed
  <2>5. Knows(t)'
    BY <1>1, <1>2, <2>3, <2>4, OtherGoesOn
  <2> QED
    BY <1>1, <2>2, <2>5, ReadStep
<1> QED
  BY <1>2, <1>3, <1>4 DEF BindLogin

LEMMA NextGenerationType ==
    ASSUME Inductive, NEW u \in Uid
    PROVE  NextGeneration(u) \in Nat \ {0}
BY Parts, Stores, KeysInRow, KeyValues DEF NextGeneration, Exists

LEMMA BumpKeeps ==
    ASSUME SharedAuthAssumption, Inductive, NEW t \in Tx, Bump(t)
    PROVE  Inductive'
<1> DEFINE s == Subject(loc[t].uid)
           w == Put(s, NextGeneration(loc[t].uid))
<1>1. pc[t] = "bump" /\ UNCHANGED <<local, loc>> /\ LocalTypeOK /\ Knows(t)
  BY Parts DEF Bump
<1>2. Op(t) = "signout" /\ ~Authorizes(t) /\ GateRead(t) /\ loc[t].uid \in Uid
  BY <1>1 DEF Knows, Route, Arguments, Authorizes, Outside
<1>3. LocksAt(t) = {s} /\ {s} \subseteq Row
  BY <1>1, <1>2, KeysInRow DEF LocksAt, SubjectLock
<1>4. CASE Statement(t, {}, {s}, w) /\ Goto(t, "commit")
  <2>1. /\ Rows(w) /\ DOMAIN w = {s} /\ w[s] \in Nat \ {0}
        /\ NextGeneration(loc[t].uid) # NoRow
    <3>1. NextGeneration(loc[t].uid) \in Nat \ {0}
      BY <1>2, NextGenerationType
    <3>2. Rows(w) /\ DOMAIN w = {s} /\ w[s] = NextGeneration(loc[t].uid)
      <4>1. s \in Row /\ Values(s) = Nat \ {0}
        BY <1>2, KeysInRow, KeyValues
      <4> HIDE DEF s
      <4> QED
        BY <3>1, <4>1, RowsPut
    <3> QED
      BY <3>1, <3>2 DEF SharedAuthAssumption
  <2>2. /\ \A u \in Uid : Subject(u) \in DOMAIN w => w[Subject(u)] # NoRow
        /\ \A p : Identity(p) \notin DOMAIN w
    BY <2>1, KeysDiffer DEF SharedAuthAssumption
  <2>3. LocalStep(t) /\ pc'[t] = "commit" /\ call' = call /\ loc' = loc
    BY <1>1, <1>4, GotoStep
  <2> HIDE DEF s, w
  <2>4. /\ buf'[t] = Over(w, buf[t]) /\ DOMAIN seen[t] \subseteq DOMAIN seen'[t]
        /\ \A r \in DOMAIN seen[t] : seen'[t][r] = seen[t][r]
    BY <1>3, <1>4, <2>1, StatementLeaves
  <2>5. WritesOf(t)' /\ GateRead(t)'
    BY <1>1, <1>2, <2>2, <2>3, <2>4, WritesKept, ReadsKept DEF Knows
  <2>6. Route(t)' /\ Arguments(t)'
    BY <1>1, <1>2, <2>3 DEF Knows, Route, Arguments, Op, Authorizes, WellFormed
  <2>7. Knows(t)'
    BY <1>2, <2>3, <2>5, <2>6, OtherGoesOn
  <2> QED
    BY <1>3, <1>4, <2>1, <2>3, <2>7, StatementStep
<1>5. CASE Goto(t, "fail") /\ UNCHANGED store
  <2>1. LocalStep(t) /\ pc'[t] = "fail" /\ call' = call /\ loc' = loc
    BY <1>1, <1>5, GotoStep
  <2>2. Knows(t)'
    BY <1>1, <1>5, <2>1, WritesUnchanged, KnowsFail DEF Knows, Arguments, store
  <2> QED
    BY <1>5, <2>1, <2>2, ReadStep
<1> QED
  BY <1>3, <1>4, <1>5 DEF Bump

-----------------------------------------------------------------------------
(* Join and HasJoined.                                                     *)

\* An authorized statement on the row of its session.
LEMMA SessionStatement ==
    ASSUME SharedAuthAssumption, Inductive, NEW t \in Tx, NEW sh, NEW ex, NEW w,
           sh \subseteq Row, ex \subseteq Row, Rows(w), Statement(t, sh, ex, w),
           DOMAIN w \subseteq {Session(call[t].server)},
           Authorizes(t),
           pc[t] \notin Unauthorized \cup {"lockGeneration", "lockToken", "lockPlayer"},
           LocalStep(t), call' = call, loc' = loc, Route(t)',
           pc'[t] = "fail" \/ pc'[t] \notin Unauthorized \cup {"lockGeneration", "lockToken", "lockPlayer"}
    PROVE  Inductive'
<1>1. Knows(t)
  BY Parts
<1>2. \A u, p : Subject(u) \notin DOMAIN w /\ Identity(p) \notin DOMAIN w
  BY KeysDiffer
<1>3. Knows(t)'
  BY <1>1, <1>2, StatementLeaves, AuthorizedGoesOn
<1> QED
  BY <1>3, StatementStep

\* Every authorized call of a join or a hasJoined names a server.
LEMMA SessionKey ==
    ASSUME NEW t \in Tx, Knows(t), Op(t) \in {"join", "hasJoined"}
    PROVE  call[t].server \in Server /\ {Session(call[t].server)} \subseteq Row /\ Authorizes(t)
<1>1. call[t].server \in Server
  BY DEF Knows, Arguments, WellFormed, Op
<1> QED
  BY <1>1, KeysInRow DEF Authorizes

LEMMA ClearSessionKeeps ==
    ASSUME SharedAuthAssumption, Inductive, NEW t \in Tx, ClearSession(t)
    PROVE  Inductive'
<1> DEFINE s == Session(call[t].server)
<1>1. /\ pc[t] = "clearSession" /\ UNCHANGED <<local, loc>> /\ LocalTypeOK /\ Knows(t)
      /\ Op(t) = "join"
  BY Parts DEF ClearSession, Knows, Route
<1>2. {s} \subseteq Row /\ Authorizes(t)
  BY <1>1, SessionKey
<1>3. ASSUME NEW label \in {"insertSession", "fail"}, Goto(t, label), UNCHANGED store
      PROVE  Inductive'
  <2>1. /\ LocalStep(t) /\ pc'[t] = label /\ call' = call /\ loc' = loc
        /\ db' = db /\ seen' = seen /\ buf' = buf
    BY <1>1, <1>3, GotoStep DEF store
  <2>2. Route(t)'
    BY <1>1, <2>1 DEF Knows, Route, Op, Authorizes
  <2>3. Authorized(t)
    BY <1>1, <1>2, IsAuthorized DEF Unauthorized, Outside
  <2>4. Authorized(t)' /\ Authorizes(t)' /\ WritesOf(t)'
    BY <1>1, <1>2, <2>1, <2>3, StaysAuthorized, WritesUnchanged DEF Knows, Authorizes, Op
  <2>5. Knows(t)'
    <3>1. CASE label = "fail"
      BY <1>1, <2>1, <2>4, <3>1, KnowsFail DEF Knows, Arguments
    <3>2. CASE label = "insertSession"
      <4>1. Arguments(t)'
        BY <1>1, <2>1, <3>2 DEF Knows, Arguments, Op, WellFormed
      <4> QED
        BY <2>1, <2>2, <2>4, <3>2, <4>1, KnowsAuthorized DEF Unauthorized, Outside
    <3> QED
      BY <3>1, <3>2
  <2> QED
    BY <1>3, <2>1, <2>5, ReadStep
<1>4. CASE Goto(t, "insertSession") /\ Statement(t, {}, {}, Drop({s}))
  <2>1. LocalStep(t) /\ pc'[t] = "insertSession" /\ call' = call /\ loc' = loc
    BY <1>1, <1>4, GotoStep
  <2>2. Route(t)'
    BY <1>1, <2>1 DEF Knows, Route, Op, Authorizes
  <2>3. Rows(Drop({s})) /\ DOMAIN Drop({s}) = {s}
    BY <1>2, RowsDrop
  <2> QED
    BY <1>1, <1>2, <1>4, <2>1, <2>2, <2>3, SessionStatement DEF Unauthorized, Outside
<1> QED
  BY <1>3, <1>4 DEF ClearSession

LEMMA InsertSessionKeeps ==
    ASSUME SharedAuthAssumption, Inductive, NEW t \in Tx, InsertSession(t)
    PROVE  Inductive'
<1> DEFINE s == Session(call[t].server)
<1>1. /\ pc[t] = "insertSession" /\ UNCHANGED <<local, loc>> /\ LocalTypeOK /\ Knows(t)
      /\ Op(t) = "join"
  BY Parts DEF InsertSession, Knows, Route
<1>2. {s} \subseteq Row /\ Authorizes(t) /\ call[t].server \in Server
  BY <1>1, SessionKey
<1>3. SharesAt(t) \subseteq {s} /\ LocksAt(t) \subseteq {s}
  BY <1>1 DEF SharesAt, LocksAt, SessionLock
<1>4. CASE Statement(t, {}, LocksAt(t), Put(s, NewSession(t))) /\ Goto(t, "commit")
  <2>1. LocalStep(t) /\ pc'[t] = "commit" /\ call' = call /\ loc' = loc
    BY <1>1, <1>4, GotoStep
  <2>2. Route(t)'
    BY <1>1, <2>1 DEF Knows, Route, Op, Authorizes
  <2>3. NewSession(t) \in SessionRow
    <3>1. loc[t].token \in Hash
      BY <1>1, <1>2, IsAuthorized DEF Unauthorized, Outside, Authorized, TokenRead
    <3>2. call[t].ip \in Ip
      BY <1>1 DEF Knows, Arguments, WellFormed, Op
    <3>3. now + SessionTTL \in Nat
      BY <1>1 DEF LocalTypeOK, SharedAuthAssumption
    <3> QED
      BY <3>1, <3>2, <3>3 DEF NewSession, SessionRow
  <2>4. Rows(Put(s, NewSession(t))) /\ DOMAIN Put(s, NewSession(t)) = {s}
    <3>1. s \in Row /\ NewSession(t) \in Values(s) \cup {NoRow}
      BY <1>2, <2>3, KeyValues
    <3> HIDE DEF s
    <3> QED
      BY <3>1, RowsPut
  <2>5. LocksAt(t) \subseteq Row
    BY <1>2, <1>3
  <2> QED
    BY <1>1, <1>2, <1>4, <2>1, <2>2, <2>4, <2>5, SessionStatement DEF Unauthorized, Outside
<1>5. CASE Statement(t, SharesAt(t), {}, NoWrites) /\ Goto(t, "compareSession")
  <2>1. LocalStep(t) /\ pc'[t] = "compareSession" /\ call' = call /\ loc' = loc
    BY <1>1, <1>5, GotoStep
  <2>2. Route(t)'
    BY <1>1, <2>1 DEF Knows, Route, Op, Authorizes
  <2>3. SharesAt(t) \subseteq Row
    BY <1>2, <1>3
  <2> QED
    BY <1>1, <1>2, <1>5, <2>1, <2>2, <2>3, RowsNone, SessionStatement DEF Unauthorized, Outside
<1> QED
  BY <1>4, <1>5 DEF InsertSession

LEMMA CompareSessionKeeps ==
    ASSUME SharedAuthAssumption, Inductive, NEW t \in Tx, CompareSession(t)
    PROVE  Inductive'
<1> DEFINE s == Session(call[t].server)
           ok == Exists(s) /\ db[s].token = loc[t].token /\ db[s].ip = call[t].ip
<1>1. /\ pc[t] = "compareSession" /\ UNCHANGED <<local, loc>> /\ LocalTypeOK /\ Knows(t)
      /\ Op(t) = "join"
  BY Parts DEF CompareSession, Knows, Route
<1>2. {s} \subseteq Row /\ Authorizes(t) /\ LocksAt(t) = {s}
  BY <1>1, SessionKey DEF LocksAt, SessionLock
<1>3. Statement(t, {}, {s}, NoWrites) /\ Check(t, ok, "commit")
  BY <1>2 DEF CompareSession
<1> HIDE DEF ok
<1>4. LocalStep(t) /\ pc'[t] \in {"commit", "fail"} /\ call' = call /\ loc' = loc
  BY <1>1, <1>3, CheckStep
<1>5. Route(t)'
  BY <1>1, <1>4 DEF Knows, Route, Op, Authorizes
<1> QED
  BY <1>1, <1>2, <1>3, <1>4, <1>5, RowsNone, SessionStatement DEF Unauthorized, Outside

LEMMA FindSessionKeeps ==
    ASSUME SharedAuthAssumption, Inductive, NEW t \in Tx, FindSession(t)
    PROVE  Inductive'
<1> DEFINE s == Session(call[t].server)
           h == IF Exists(s) THEN db[s].token ELSE None
<1>1. /\ pc[t] = "findSession" /\ UNCHANGED store /\ now' = now /\ call' = call
      /\ db' = db /\ seen' = seen /\ buf' = buf
      /\ LocalTypeOK /\ StoreTypeOK /\ Knows(t)
  BY Parts DEF FindSession, store, local
<1>2. Op(t) = "hasJoined" /\ Authorizes(t) /\ s \in Row /\ GateRead(t) /\ loc[t].identity = None
  <2>1. Op(t) = "hasJoined" /\ GateRead(t)
    BY <1>1 DEF Knows, Route, Outside
  <2>2. Authorizes(t) /\ s \in Row
    BY <1>1, <2>1, SessionKey
  <2>3. loc[t].identity = None
    BY <1>1, <2>2 DEF Knows, Unauthorized
  <2> QED
    BY <2>1, <2>2, <2>3
<1>3. h \in Hash \cup {None} /\ (Exists(s) => h \in Hash)
  <2>1. CASE Exists(s)
    <3>1. db[s] \in SessionRow
      BY <1>1, <1>2, <2>1, Stores, KeyValues DEF Exists
    <3> QED
      BY <2>1, <3>1 DEF SessionRow
  <2> QED
    BY <2>1
<1>4. Check(t, Exists(s), "findOwner") /\ loc' = [loc EXCEPT ![t].token = h]
  BY DEF FindSession
<1>5. /\ DOMAIN pc' = Tx /\ \A o \in Tx \ {t} : pc'[o] = pc[o]
      /\ pc'[t] = IF Exists(s) THEN "findOwner" ELSE "fail"
  <2> HIDE DEF s
  <2> QED
    BY <1>1, <1>4, CheckEffect DEF LocalTypeOK
<1>6. LocalStep(t) /\ loc'[t].token = h /\ loc'[t].identity = loc[t].identity
  <2> HIDE DEF h
  <2> QED
    BY <1>1, <1>3, <1>4, <1>5 DEF LocalStep, LocalTypeOK, Local
<1>7. WritesOf(t)' /\ GateRead(t)'
  BY <1>1, <1>2, <1>5, WritesUnchanged DEF Knows, GateRead
<1>8. Knows(t)'
  <2> HIDE DEF s, h
  <2> QED
    BY <1>1, <1>2, <1>3, <1>5, <1>6, <1>7
    DEF Knows, Route, Arguments, Op, Authorizes, Outside, Unauthorized, WellFormed
<1> QED
  BY <1>1, <1>6, <1>8, ReadStep

LEMMA CheckNameKeeps ==
    ASSUME SharedAuthAssumption, Inductive, NEW t \in Tx, CheckName(t)
    PROVE  Inductive'
<1> DEFINE ok == loc[t].identity # None /\ UniquePlayerName(call[t].login, loc[t].identity)
<1>1. /\ pc[t] = "checkName" /\ UNCHANGED store /\ UNCHANGED <<local, loc>>
      /\ db' = db /\ seen' = seen /\ buf' = buf
      /\ LocalTypeOK /\ Knows(t) /\ Op(t) = "hasJoined" /\ Authorizes(t)
  BY Parts, SessionKey DEF CheckName, store, Knows, Route
<1>2. Check(t, ok, "lockSession")
  BY DEF CheckName
<1> HIDE DEF ok
<1>3. LocalStep(t) /\ pc'[t] \in {"lockSession", "fail"} /\ call' = call /\ loc' = loc
  BY <1>1, <1>2, CheckStep
<1>4. Authorized(t)
  BY <1>1, IsAuthorized DEF Unauthorized, Outside
<1>5. Authorized(t)' /\ Authorizes(t)' /\ WritesOf(t)'
  BY <1>1, <1>3, <1>4, StaysAuthorized, WritesUnchanged DEF Knows, Authorizes, Op
<1>6. Route(t)'
  BY <1>1, <1>3 DEF Knows, Route, Op, Authorizes
<1>7. Knows(t)'
  <2>1. CASE pc'[t] = "fail"
    BY <1>1, <1>3, <1>5, <2>1, KnowsFail DEF Knows, Arguments
  <2>2. CASE pc'[t] = "lockSession"
    <3>1. Arguments(t)'
      BY <1>1, <1>3, <2>2 DEF Knows, Arguments, Op, WellFormed
    <3> QED
      BY <1>5, <1>6, <2>2, <3>1, KnowsAuthorized DEF Unauthorized, Outside
  <2> QED
    BY <1>3, <2>1, <2>2
<1> QED
  BY <1>1, <1>3, <1>7, ReadStep

LEMMA LockSessionKeeps ==
    ASSUME SharedAuthAssumption, Inductive, NEW t \in Tx, LockSession(t)
    PROVE  Inductive'
<1> DEFINE s == Session(call[t].server)
           ok == SessionAccepted(t, db[s])
<1>1. /\ pc[t] = "lockSession" /\ UNCHANGED <<local, loc>> /\ LocalTypeOK /\ Knows(t)
      /\ Op(t) = "hasJoined"
  BY Parts DEF LockSession, Knows, Route
<1>2. {s} \subseteq Row /\ Authorizes(t) /\ SharesAt(t) = {s}
  BY <1>1, SessionKey DEF SharesAt, SessionLock
<1>3. Statement(t, {s}, {}, NoWrites) /\ Check(t, ok, "commit")
  BY <1>2 DEF LockSession
<1> HIDE DEF ok
<1>4. LocalStep(t) /\ pc'[t] \in {"commit", "fail"} /\ call' = call /\ loc' = loc
  BY <1>1, <1>3, CheckStep
<1>5. Route(t)'
  BY <1>1, <1>4 DEF Knows, Route, Op, Authorizes
<1> QED
  BY <1>1, <1>2, <1>3, <1>4, <1>5, RowsNone, SessionStatement DEF Unauthorized, Outside

-----------------------------------------------------------------------------
(* CleanupExpired.                                                         *)

LEMMA CleanupStep ==
    ASSUME SharedAuthAssumption, Inductive, NEW t \in Tx, NEW S, S \subseteq Row,
           \A u, p : Subject(u) \notin S /\ Identity(p) \notin S,
           pc[t] \in {"deleteTokens", "deleteSessions"}, Statement(t, {}, {}, Drop(S)),
           NEW label \in {"deleteSessions", "commit"}, Goto(t, label), UNCHANGED <<local, loc>>
    PROVE  Inductive'
<1>1. LocalTypeOK /\ Knows(t) /\ Op(t) = "cleanup" /\ ~Authorizes(t) /\ GateRead(t)
  <2>1. LocalTypeOK /\ Knows(t)
    BY Parts
  <2> QED
    BY <2>1 DEF Knows, Route, Authorizes, Outside
<1>2. LocalStep(t) /\ pc'[t] = label /\ call' = call /\ loc' = loc
  BY <1>1, GotoStep
<1>3. Rows(Drop(S)) /\ DOMAIN Drop(S) = S
  BY RowsDrop
<1>4. WritesOf(t)' /\ GateRead(t)'
  BY <1>1, <1>2, <1>3, StatementLeaves, WritesKept, ReadsKept DEF Knows
<1>5. Route(t)' /\ Arguments(t)'
  BY <1>1, <1>2 DEF Knows, Route, Arguments, Op, Authorizes, WellFormed
<1>6. Knows(t)'
  BY <1>1, <1>2, <1>4, <1>5, OtherGoesOn
<1> QED
  BY <1>2, <1>3, <1>6, StatementStep

LEMMA DeleteTokensKeeps ==
    ASSUME SharedAuthAssumption, Inductive, NEW t \in Tx, DeleteTokens(t)
    PROVE  Inductive'
<1>1. PICK X \in OldestTokens : Statement(t, {}, {}, Drop({Token(h) : h \in X}))
  BY DEF DeleteTokens
<1>2. X \subseteq Hash
  BY DEF OldestTokens, Oldest, ExpiredTokens
<1>3. {Token(h) : h \in X} \subseteq Row
  BY <1>2, KeysInRow
<1>4. \A u, p : Subject(u) \notin {Token(h) : h \in X} /\ Identity(p) \notin {Token(h) : h \in X}
  BY KeysDiffer
<1> QED
  BY <1>1, <1>3, <1>4, CleanupStep DEF DeleteTokens

LEMMA DeleteSessionsKeeps ==
    ASSUME SharedAuthAssumption, Inductive, NEW t \in Tx, DeleteSessions(t)
    PROVE  Inductive'
<1>1. PICK X \in OldestSessions : Statement(t, {}, {}, Drop({Session(s) : s \in X}))
  BY DEF DeleteSessions
<1>2. X \subseteq Server
  BY DEF OldestSessions, Oldest, ExpiredSessions
<1>3. {Session(s) : s \in X} \subseteq Row
  BY <1>2, KeysInRow
<1>4. \A u, p : Subject(u) \notin {Session(s) : s \in X} /\ Identity(p) \notin {Session(s) : s \in X}
  BY KeysDiffer
<1> QED
  BY <1>1, <1>3, <1>4, CleanupStep DEF DeleteSessions

-----------------------------------------------------------------------------
(* The end of a transaction.                                               *)

\* A transaction may fail anywhere after it has left "resolve".
LEMMA GoesToFail ==
    ASSUME Inductive, NEW t \in Tx, pc[t] \notin {"idle", "resolve"}, Goto(t, "fail"),
           UNCHANGED <<local, loc>>, UNCHANGED store
    PROVE  Inductive'
<1>1. LocalTypeOK /\ Knows(t) /\ buf' = buf
  BY Parts DEF store
<1>2. LocalStep(t) /\ pc'[t] = "fail" /\ call' = call /\ loc' = loc
  BY <1>1, GotoStep
<1>3. Knows(t)'
  BY <1>1, <1>2, WritesUnchanged, KnowsFail DEF Knows, Arguments
<1> QED
  BY <1>2, <1>3, ReadStep

LEMMA SqlErrorKeeps ==
    ASSUME Inductive, NEW t \in Tx, SqlError(t)
    PROVE  Inductive'
<1>1. LocalTypeOK /\ Knows(t) /\ UNCHANGED store /\ now' = now /\ buf' = buf
  BY Parts DEF SqlError, store
<1>2. CASE pc[t] \in {"resolve", "verify"} /\ Return(t)
  <2>1. LocalStep(t) /\ Knows(t)'
    BY <1>1, <1>2, ReturnStep, KnowsIdle DEF Knows, WritesOf
  <2> QED
    BY <1>1, <2>1, ReadStep
<1>3. CASE pc[t] \notin {"idle", "resolve"} /\ Goto(t, "fail") /\ UNCHANGED <<call, loc>>
  BY <1>1, <1>3, GoesToFail DEF local
<1> QED
  BY <1>2, <1>3 DEF SqlError

LEMMA AbortVictimKeeps ==
    ASSUME Inductive, NEW t \in Tx, AbortVictim(t)
    PROVE  Inductive'
<1>1. \E o : WaitsFor(t, o)
  BY DEF AbortVictim, Deadlock
<1>2. pc[t] \notin {"idle", "resolve"}
  BY <1>1 DEF WaitsFor, SharesAt, LocksAt
<1> QED
  BY <1>2, GoesToFail DEF AbortVictim

LEMMA CommitKeeps ==
    ASSUME SharedAuthAssumption, Inductive, NEW t \in Tx, Commit(t)
    PROVE  Inductive'
<1>1. LocalTypeOK /\ StoreTypeOK /\ StoreInv /\ Knows(t) /\ CommitTx(t) /\ Return(t) /\ now' = now
  BY Parts DEF Commit
<1>2. /\ StoreTypeOK' /\ StoreInv' /\ DOMAIN buf'[t] = {}
      /\ \A r \in Row : db'[r] = IF r \in DOMAIN buf[t] THEN buf[t][r] ELSE db[r]
      /\ \A o \in Tx \ {t} : seen'[o] = seen[o] /\ buf'[o] = buf[o]
  BY <1>1, CommitTypes
<1>3. LocalStep(t) /\ pc'[t] = "idle" /\ call'[t] = NoCall /\ loc'[t] = NoLocal
  BY <1>1, ReturnStep
<1>4. \A o \in Tx : ActiveStays(o)
  BY <1>1, <1>2, KeysInRow DEF ActiveStays, Active, Knows, WritesOf
<1>5. Knows(t)'
  BY <1>2, <1>3, KnowsIdle
<1> QED
  BY <1>2, <1>3, <1>4, <1>5, OneMoves DEF LocalStep, OthersStay

LEMMA RollbackKeeps ==
    ASSUME Inductive, NEW t \in Tx, Rollback(t)
    PROVE  Inductive'
<1>1. LocalTypeOK /\ StoreTypeOK /\ StoreInv /\ RollbackTx(t) /\ Return(t) /\ now' = now
  BY Parts DEF Rollback
<1>2. /\ StoreTypeOK' /\ StoreInv' /\ db' = db /\ DOMAIN buf'[t] = {}
      /\ \A o \in Tx \ {t} : seen'[o] = seen[o] /\ buf'[o] = buf[o]
  BY <1>1, RollbackTypes
<1>3. LocalStep(t) /\ pc'[t] = "idle" /\ call'[t] = NoCall /\ loc'[t] = NoLocal
  BY <1>1, ReturnStep
<1>4. Knows(t)'
  BY <1>2, <1>3, KnowsIdle
<1> QED
  BY <1>2, <1>3, <1>4, SameRowsActive, OneMoves DEF LocalStep, OthersStay

-----------------------------------------------------------------------------
(* The environment.  A write of another program disturbs no transaction:   *)
(* every row a transaction has read is locked, and whoever writes the      *)
(* state of an identity needs the gate, which a transaction holds.         *)

LEMMA AllStay ==
    ASSUME Inductive, StoreTypeOK', StoreInv', LocalTypeOK', seen' = seen, buf' = buf,
           pc' = pc, call' = call, loc' = loc, \A o \in Tx : ActiveStays(o)
    PROVE  Inductive'
<1>1. \A o \in Tx : Knows(o)'
  BY KnowsStays DEF Inductive
<1> QED
  BY <1>1 DEF Inductive, TypeOK, LocalTypeOK

LEMMA EnvironmentStep ==
    ASSUME Inductive, NEW w, Rows(w), AutoCommit(w), UNCHANGED <<local, pc, loc>>,
           Gate \in DOMAIN w \/ \A p \in Pid : Identity(p) \notin DOMAIN w
    PROVE  Inductive'
<1>1. LocalTypeOK /\ StoreTypeOK /\ StoreInv
  BY Parts
<1>2. /\ StoreTypeOK' /\ StoreInv' /\ seen' = seen /\ buf' = buf
      /\ \A r \in Row : db'[r] = IF r \in DOMAIN w THEN w[r] ELSE db[r]
      /\ \A o \in Tx : DOMAIN w \cap DOMAIN seen[o] = {}
  BY <1>1, AutoCommitTypes
<1>3. \A o \in Tx : ActiveStays(o)
  BY <1>2, KeysInRow DEF ActiveStays, Active, GateRead
<1>4. LocalTypeOK' /\ pc' = pc /\ call' = call /\ loc' = loc
  BY <1>1 DEF LocalTypeOK, local
<1> QED
  BY <1>2, <1>3, <1>4, AllStay

LEMMA PutOver ==
    ASSUME NEW r \in Row, NEW v \in Values(r) \cup {NoRow}, NEW g, Rows(g)
    PROVE  Rows(Over(Put(r, v), g)) /\ DOMAIN Over(Put(r, v), g) = {r} \cup DOMAIN g
<1>1. Rows(Put(r, v)) /\ DOMAIN Put(r, v) = {r}
  BY RowsPut
<1>2. Rows(Over(Put(r, v), g))
  BY <1>1, RowsOver
<1> QED
  BY <1>1, <1>2 DEF Over

LEMMA UpdateUserKeeps ==
    ASSUME Inductive, NEW u \in Uid, NEW row \in UserRow, UpdateUser(u, row)
    PROVE  Inductive'
<1> DEFINE old == db[User(u)]
           revokes == old.password # row.password \/ old.permission # row.permission
           g == IF revokes THEN Put(Subject(u), NextGeneration(u)) ELSE NoWrites
           w == Over(Put(User(u), row), g)
<1>1. AutoCommit(w) /\ UNCHANGED <<local, pc, loc>>
  BY DEF UpdateUser
<1>2. Rows(g) /\ DOMAIN g \subseteq {Subject(u)}
  <2>1. Rows(Put(Subject(u), NextGeneration(u))) /\ DOMAIN Put(Subject(u), NextGeneration(u)) = {Subject(u)}
    <3>1. Subject(u) \in Row /\ NextGeneration(u) \in Values(Subject(u)) \cup {NoRow}
      BY NextGenerationType, KeysInRow, KeyValues
    <3> QED
      BY <3>1, RowsPut
  <2> HIDE DEF revokes
  <2> QED
    BY <2>1, RowsNone
<1> HIDE DEF g
<1>3. Rows(w) /\ DOMAIN w = {User(u)} \cup DOMAIN g
  <2>1. User(u) \in Row /\ row \in Values(User(u)) \cup {NoRow}
    BY KeysInRow, KeyValues
  <2> QED
    BY <1>2, <2>1, PutOver
<1>4. \A p \in Pid : Identity(p) \notin DOMAIN w
  BY <1>2, <1>3, KeysDiffer
<1> HIDE DEF w
<1> QED
  BY <1>1, <1>3, <1>4, EnvironmentStep

LEMMA DeleteUserKeeps ==
    ASSUME Inductive, NEW u \in Uid, DeleteUser(u)
    PROVE  Inductive'
<1> DEFINE g == Put(Subject(u), NextGeneration(u))
           d == Drop({User(u)})
           w == Over(d, g)
<1>1. AutoCommit(w) /\ UNCHANGED <<local, pc, loc>>
  BY DEF DeleteUser
<1>2. Rows(g) /\ DOMAIN g = {Subject(u)}
  <2>1. Subject(u) \in Row /\ NextGeneration(u) \in Values(Subject(u)) \cup {NoRow}
    BY NextGenerationType, KeysInRow, KeyValues
  <2> QED
    BY <2>1, RowsPut
<1>3. Rows(d) /\ DOMAIN d = {User(u)}
  BY KeysInRow, RowsDrop
<1> HIDE DEF g, d
<1>4. Rows(w) /\ DOMAIN w = {User(u), Subject(u)}
  <2>1. Rows(w)
    BY <1>2, <1>3, RowsOver
  <2> QED
    BY <1>2, <1>3, <2>1 DEF Over
<1>5. \A p \in Pid : Identity(p) \notin DOMAIN w
  BY <1>4, KeysDiffer
<1> HIDE DEF w
<1> QED
  BY <1>1, <1>4, <1>5, EnvironmentStep

LEMMA SetPlayerKeeps ==
    ASSUME Inductive, NEW p \in Pid, NEW row \in PlayerRow \cup {NoRow}, SetPlayer(p, row)
    PROVE  Inductive'
<1>1. AutoCommit(Put(Player(p), row)) /\ UNCHANGED <<local, pc, loc>>
  BY DEF SetPlayer
<1>2. Rows(Put(Player(p), row)) /\ DOMAIN Put(Player(p), row) = {Player(p)}
  <2>1. Player(p) \in Row /\ row \in Values(Player(p)) \cup {NoRow}
    BY KeysInRow, KeyValues
  <2> QED
    BY <2>1, RowsPut
<1>3. \A q \in Pid : Identity(q) \notin DOMAIN Put(Player(p), row)
  BY <1>2, KeysDiffer
<1> QED
  BY <1>1, <1>2, <1>3, EnvironmentStep

LEMMA GateKeeps ==
    ASSUME Inductive, Deactivate \/ Activate
    PROVE  Inductive'
<1>1. PICK phase \in {"active", "staged"} : AutoCommit(Put(Gate, phase))
  BY DEF Deactivate, Activate
<1>2. UNCHANGED <<local, pc, loc>>
  BY DEF Deactivate, Activate
<1>3. Rows(Put(Gate, phase)) /\ DOMAIN Put(Gate, phase) = {Gate}
  <2>1. Gate \in Row /\ phase \in Values(Gate) \cup {NoRow}
    BY KeysInRow, KeyValues
  <2> QED
    BY <2>1, RowsPut
<1> QED
  BY <1>1, <1>2, <1>3, EnvironmentStep

LEMMA ReidentifyKeeps ==
    ASSUME Inductive, NEW p \in Pid, NEW from, NEW to \in IdentityState, Reidentify(p, from, to)
    PROVE  Inductive'
<1> DEFINE i == Put(Identity(p), to)
           g == Put(Gate, db[Gate])
           w == Over(i, g)
<1>1. AutoCommit(w) /\ UNCHANGED <<local, pc, loc>>
  BY DEF Reidentify
<1>2. Rows(g) /\ DOMAIN g = {Gate}
  <2>1. Gate \in Row /\ db[Gate] \in Values(Gate) \cup {NoRow}
    BY Parts, Stores, KeysInRow
  <2> QED
    BY <2>1, RowsPut
<1> HIDE DEF g
<1>3. Rows(w) /\ DOMAIN w = {Identity(p)} \cup DOMAIN g
  <2>1. Identity(p) \in Row /\ to \in Values(Identity(p)) \cup {NoRow}
    BY KeysInRow, KeyValues
  <2> QED
    BY <1>2, <2>1, PutOver
<1> HIDE DEF w
<1> QED
  BY <1>1, <1>2, <1>3, EnvironmentStep

LEMMA TickKeeps ==
    ASSUME Inductive, Tick
    PROVE  Inductive'
<1>1. LocalTypeOK /\ StoreTypeOK /\ StoreInv
  BY Parts
<1>2. /\ UNCHANGED store /\ db' = db /\ seen' = seen /\ buf' = buf /\ now' = now + 1
      /\ pc' = pc /\ call' = call /\ loc' = loc
  BY DEF Tick, store
<1>3. LocalTypeOK'
  BY <1>1, <1>2 DEF LocalTypeOK
<1> QED
  BY <1>1, <1>2, <1>3, ReadTypes, SameRowsActive, AllStay

LEMMA StutterKeeps ==
    ASSUME Inductive, UNCHANGED vars
    PROVE  Inductive'
<1>1. LocalTypeOK /\ StoreTypeOK /\ StoreInv
  BY Parts
<1>2. /\ UNCHANGED store /\ db' = db /\ seen' = seen /\ buf' = buf /\ now' = now
      /\ pc' = pc /\ call' = call /\ loc' = loc
  BY DEF vars, store
<1>3. LocalTypeOK'
  BY <1>1, <1>2 DEF LocalTypeOK
<1> QED
  BY <1>1, <1>2, <1>3, ReadTypes, SameRowsActive, AllStay

-----------------------------------------------------------------------------
(* The invariant.                                                          *)

LEMMA InitInductive ==
    ASSUME SharedAuthAssumption, Init
    PROVE  Inductive
<1>1. DOMAIN db = Row /\ \A r \in Row : db[r] \in Values(r) \cup {NoRow}
  <2>1. DOMAIN db = Row /\ db[Gate] = "active"
    BY KeysInRow DEF Init, StoreInit, Gate
  <2>2. \A u \in Uid : db[User(u)] = InitialUsers[u] /\ db[Subject(u)] = NoRow
    BY KeysInRow, KeysDiffer DEF Init, StoreInit, User, Subject, Gate
  <2>3. \A h \in Hash : db[Token(h)] = NoRow
    BY KeysInRow DEF Init, StoreInit, Token, Gate
  <2>4. \A p \in Pid : db[Player(p)] = InitialPlayers[p] /\ db[Identity(p)] = InitialIdentities[p]
    BY KeysInRow DEF Init, StoreInit, Player, Identity, Gate
  <2>5. \A s \in Server : db[Session(s)] = NoRow
    BY KeysInRow DEF Init, StoreInit, Session, Gate
  <2>6. /\ \A u \in Uid : InitialUsers[u] \in UserRow
        /\ \A p \in Pid : InitialPlayers[p] \in PlayerRow \cup {NoRow}
        /\ \A p \in Pid : InitialIdentities[p] \in IdentityState \cup {NoRow}
    BY DEF SharedAuthAssumption
  <2> QED
    BY <2>1, <2>2, <2>3, <2>4, <2>5, <2>6, KeyValues DEF Row
<1>2. /\ DOMAIN seen = Tx /\ DOMAIN excl = Tx /\ DOMAIN buf = Tx
      /\ \A t \in Tx : seen[t] = NoWrites /\ excl[t] = {} /\ buf[t] = NoWrites
  BY DEF Init, StoreInit
<1>3. StoreTypeOK /\ StoreInv
  BY <1>1, <1>2, RowsNone
  DEF StoreTypeOK, StoreShape, Rows, StoreInv, SeenIsCurrent, LocksExclude, WritesLocked
<1>4. TypeOK
  BY <1>3, NoCallTyped DEF TypeOK, Init
<1>5. ASSUME NEW t \in Tx PROVE Knows(t)
  <2>1. pc[t] = "idle" /\ call[t] = NoCall /\ loc[t] = NoLocal /\ DOMAIN buf[t] = {}
    BY <1>2, RowsNone DEF Init
  <2> QED
    BY <2>1, NoCallTyped
    DEF Knows, Route, Arguments, WritesOf, Op, Authorizes, Outside, Unauthorized, NoLocal
<1> QED
  BY <1>3, <1>4, <1>5 DEF Inductive

LEMMA StepKeeps ==
    ASSUME SharedAuthAssumption, Inductive, NEW t \in Tx, Step(t)
    PROVE  Inductive'
<1>1. CASE Begin(t)
  BY <1>1, BeginKeeps
<1>2. CASE Authorize(t)
  BY <1>2, FindOwnerKeeps, LockUserKeeps, LockGenerationKeeps, LockTokenKeeps, LockPlayerKeeps,
     CheckExpiryKeeps DEF Authorize
<1>3. CASE AuthenticateOrSignout(t)
  BY <1>3, ResolveKeeps, VerifyKeeps, CheckLoginKeeps, EnsureSubjectKeeps, LockVictimsKeeps,
     LoginProfilesKeeps, BindLoginKeeps, IssueKeeps, BumpKeeps DEF AuthenticateOrSignout
<1>4. CASE RefreshOrInvalidate(t)
  BY <1>4, SelectKeeps, DeleteOldKeeps, DeleteInvalidatedKeeps DEF RefreshOrInvalidate
<1>5. CASE JoinOrHasJoined(t)
  BY <1>5, ClearSessionKeeps, InsertSessionKeeps, CompareSessionKeeps, FindSessionKeeps,
     CheckNameKeeps, LockSessionKeeps DEF JoinOrHasJoined
<1>6. CASE Cleanup(t)
  BY <1>6, DeleteTokensKeeps, DeleteSessionsKeeps DEF Cleanup
<1>7. CASE Commit(t)
  BY <1>7, CommitKeeps
<1>8. CASE Rollback(t)
  BY <1>8, RollbackKeeps
<1> QED
  BY <1>1, <1>2, <1>3, <1>4, <1>5, <1>6, <1>7, <1>8 DEF Step

LEMMA NextKeeps ==
    ASSUME SharedAuthAssumption, Inductive, [Next]_vars
    PROVE  Inductive'
<1>1. ASSUME NEW t \in Tx,
             (\E c \in Calls : Start(t, c)) \/ Step(t) \/ SqlError(t) \/ AbortVictim(t)
      PROVE  Inductive'
  BY <1>1, StartKeeps, StepKeeps, SqlErrorKeeps, AbortVictimKeeps
<1>2. ASSUME NEW u \in Uid, DeleteUser(u) \/ \E row \in UserRow : UpdateUser(u, row)
      PROVE  Inductive'
  BY <1>2, DeleteUserKeeps, UpdateUserKeeps
<1>3. ASSUME NEW p \in Pid,
             \/ ResolveIdentity(p) \/ RollbackIdentity(p)
             \/ \E row \in PlayerRow \cup {NoRow} : SetPlayer(p, row)
      PROVE  Inductive'
  <2>1. "active" \in IdentityState /\ "blocked" \in IdentityState
    BY DEF IdentityState
  <2> QED
    BY <1>3, <2>1, ReidentifyKeeps, SetPlayerKeeps DEF ResolveIdentity, RollbackIdentity
<1>4. CASE Deactivate \/ Activate
  BY <1>4, GateKeeps
<1>5. CASE Tick
  BY <1>5, TickKeeps
<1>6. CASE UNCHANGED vars
  BY <1>6, StutterKeeps
<1> QED
  BY <1>1, <1>2, <1>3, <1>4, <1>5, <1>6 DEF Next

\* At every statement of every transaction the checks it has passed still hold of the rows it
\* has locked, whatever the other nodes, the site and the operator do (service.go:93-131,
\* auth.go:288-344).
THEOREM InductiveInvariant == Spec => []Inductive
<1>1. Init => Inductive
  BY InitInductive, SharedAuthAssumption
<1>2. Inductive /\ [Next]_vars => Inductive'
  BY NextKeeps, SharedAuthAssumption
<1> QED
  BY <1>1, <1>2, PTL DEF Spec

\* Committed rows, buffered writes, locked rows and Go variables keep the types of their tables
\* and fields, for any number of transactions.
THEOREM TypeCorrect == Spec => []TypeOK
<1>1. Inductive => TypeOK
  BY DEF Inductive
<1> QED
  BY <1>1, InductiveInvariant, PTL

\* While the gate is closed no call is between its check of the phase and its COMMIT: closing
\* the gate waits for them all (service.go:109-122).
THEOREM GateIsQuiet == Spec => []GateQuiet
<1>1. Inductive => GateQuiet
  <2> SUFFICES ASSUME Inductive, db[Gate] # "active", NEW t \in Tx
               PROVE  pc[t] \in Outside
    BY DEF GateQuiet, Outside
  <2>1. Knows(t) /\ SeenIsCurrent
    BY Parts DEF StoreInv
  <2> QED
    BY <2>1 DEF Knows, GateRead, SeenIsCurrent
<1> QED
  BY <1>1, InductiveInvariant, PTL

\* What authorize found is so when its caller can commit.
LEMMA AuthorizedNow ==
    ASSUME Inductive
    PROVE  AuthorizedAtCommit
<1> SUFFICES ASSUME Inductive, NEW t \in Tx, pc[t] = "commit", Authorizes(t)
             PROVE  LET h == loc[t].token
                        u == loc[t].uid
                        p == loc[t].identity
                    IN  /\ Current(h) /\ db[Token(h)].owner = u
                        /\ MatchesClient(db[Token(h)].client, call[t].client)
                        /\ Exists(User(u)) /\ Allowed(db[User(u)])
                        /\ db[Token(h)].identity \in {None, p}
                        /\ p # None => Owns(u, p) /\ Active(p)
  BY DEF AuthorizedAtCommit
<1>1. Authorized(t)
  BY Parts, IsAuthorized DEF Unauthorized, Outside
<1>2. \A r \in DOMAIN seen[t] : seen[t][r] = db[r]
  BY DEF Inductive, StoreInv, SeenIsCurrent
<1>3. Exists(User(loc[t].uid)) /\ Allowed(db[User(loc[t].uid)])
  BY <1>1, <1>2 DEF Authorized, UserRead, Exists
<1>4. /\ Current(loc[t].token) /\ db[Token(loc[t].token)].owner = loc[t].uid
      /\ MatchesClient(db[Token(loc[t].token)].client, call[t].client)
  BY <1>1, <1>2 DEF Authorized, SubjectRead, TokenRead, Current, Exists
<1>5. /\ db[Token(loc[t].token)].identity \in {None, loc[t].identity}
      /\ loc[t].identity # None => Owns(loc[t].uid, loc[t].identity) /\ Active(loc[t].identity)
  BY <1>1, <1>2 DEF Authorized, TokenRead, PlayerRead, Owns, Exists
<1> QED
  BY <1>3, <1>4, <1>5

\* Whenever a Validate, Refresh, Join or HasJoined can commit, everything authorize checked is
\* still true of the committed rows: the token is the caller's, current and for this client, the
\* account exists and is allowed, and a bound player is the account's with an active identity.
THEOREM AuthorizationHolds == Spec => []AuthorizedAtCommit
<1>1. Inductive => AuthorizedAtCommit
  BY AuthorizedNow
<1> QED
  BY <1>1, InductiveInvariant, PTL
=============================================================================
