------------------------ MODULE SharedAuthRowsProofs ------------------------
(***************************************************************************)
(* What SharedAuth's transactions do to the rows, for any number of nodes, *)
(* accounts, players, tokens and sessions: Strong is preserved by every    *)
(* action, and from it follow the properties of logins, joins, revocation, *)
(* refreshed tokens, kept sessions, and the one way to deadlock.           *)
(* Limited is too, and from it follow the limit on tokens and evictions.   *)
(* Exact is too, and from it follows that SharedAuth implements            *)
(* AuthPromise.                                                            *)
(*                                                                         *)
(* Moves says of a statement which rows it locks, reads and writes; one    *)
(* lemma per action says which Moves it is, and one that what its          *)
(* transaction knows then follows.                                         *)
(***************************************************************************)
EXTENDS SharedAuthProofs, FiniteSetTheorems

-----------------------------------------------------------------------------
(* Kinds of rows.                                                          *)

\* Rows of different kinds have different keys.
LEMMA Kinds ==
    /\ SiteRows \cap SubjectRows = {} /\ SiteRows \cap TokenRows = {}
    /\ SiteRows \cap IdentityRows = {} /\ SiteRows \cap SessionRows = {}
    /\ SubjectRows \cap TokenRows = {} /\ SubjectRows \cap IdentityRows = {}
    /\ SubjectRows \cap SessionRows = {} /\ TokenRows \cap IdentityRows = {}
    /\ TokenRows \cap SessionRows = {} /\ IdentityRows \cap SessionRows = {}
<1> USE DEF Gate, User, Subject, Token, Player, Identity, Session
<1>1. /\ SiteRows \cap SubjectRows = {} /\ SiteRows \cap TokenRows = {}
      /\ SiteRows \cap IdentityRows = {} /\ SiteRows \cap SessionRows = {}
  BY DEF SiteRows, SubjectRows, TokenRows, IdentityRows, SessionRows
<1>2. /\ SubjectRows \cap TokenRows = {} /\ SubjectRows \cap IdentityRows = {}
      /\ SubjectRows \cap SessionRows = {} /\ TokenRows \cap IdentityRows = {}
      /\ TokenRows \cap SessionRows = {} /\ IdentityRows \cap SessionRows = {}
  BY DEF SubjectRows, TokenRows, IdentityRows, SessionRows
<1> QED
  BY <1>1, <1>2

LEMMA OfKind ==
    /\ Gate \in SiteRows
    /\ \A u \in Uid : User(u) \in SiteRows /\ Subject(u) \in SubjectRows
    /\ \A h \in Hash : Token(h) \in TokenRows
    /\ \A p \in Pid : Player(p) \in SiteRows /\ Identity(p) \in IdentityRows
    /\ \A s \in Server : Session(s) \in SessionRows
BY DEF SiteRows, SubjectRows, TokenRows, IdentityRows, SessionRows

LEMMA KindsInRow ==
    /\ SiteRows \subseteq Row /\ SubjectRows \subseteq Row /\ TokenRows \subseteq Row
    /\ IdentityRows \subseteq Row /\ SessionRows \subseteq Row
BY KeysInRow DEF SiteRows, SubjectRows, TokenRows, IdentityRows, SessionRows

LEMMA KeysOne ==
    /\ \A g, h : Token(g) = Token(h) => g = h
    /\ \A u, v : Subject(u) = Subject(v) => u = v
    /\ \A r, s : Session(r) = Session(s) => r = s
BY DEF Token, Subject, Session

-----------------------------------------------------------------------------
(* Statements.                                                             *)

\* The rows, locks and variables of the others stay.
OthersLeft(t) ==
    \A o \in Tx \ {t} : /\ pc'[o] = pc[o] /\ call'[o] = call[o] /\ loc'[o] = loc[o]
                        /\ seen'[o] = seen[o] /\ excl'[o] = excl[o] /\ buf'[o] = buf[o]

\* A statement of t may have locked sh and ex, and has written w.
Moves(t, sh, ex, w) ==
    /\ db' = db /\ now' = now /\ call' = call /\ OthersLeft(t)
    /\ DOMAIN buf'[t] = DOMAIN w \cup DOMAIN buf[t]
    /\ \A r \in DOMAIN buf'[t] : buf'[t][r] = IF r \in DOMAIN w THEN w[r] ELSE buf[t][r]
    /\ DOMAIN seen[t] \cup DOMAIN w \subseteq DOMAIN seen'[t]
    /\ DOMAIN seen'[t] \subseteq DOMAIN seen[t] \cup sh \cup ex \cup DOMAIN w
    /\ excl[t] \cup DOMAIN w \subseteq excl'[t]
    /\ excl'[t] \subseteq excl[t] \cup ex \cup DOMAIN w
    /\ DOMAIN seen'[t] \subseteq DOMAIN seen[t] \cup sh \cup excl'[t]
    /\ \A r \in DOMAIN seen[t] : seen[t][r] = db[r]
    /\ \A r \in DOMAIN seen'[t] : seen'[t][r] = db[r]
    /\ \A r \in sh \cup ex : db[r] # NoRow => r \in DOMAIN seen'[t]
    /\ \A r \in ex : db[r] # NoRow => r \in excl'[t]

LEMMA StatementMoves ==
    ASSUME Inductive, NEW t \in Tx, NEW sh, NEW ex, NEW w, sh \subseteq Row, ex \subseteq Row,
           Rows(w), Statement(t, sh, ex, w), LocalStep(t), UNCHANGED local
    PROVE  Moves(t, sh, ex, w)
<1>1. StoreTypeOK /\ StoreInv /\ DOMAIN db = Row /\ DOMAIN w \subseteq Row /\ StoreShape
  BY Parts DEF StoreTypeOK, Rows
<1>2. /\ db' = db
      /\ \A o \in Tx \ {t} : /\ seen'[o] = seen[o] /\ excl'[o] = excl[o] /\ buf'[o] = buf[o]
      /\ buf'[t] = Over(w, buf[t])
      /\ DOMAIN seen[t] \subseteq DOMAIN seen'[t]
      /\ DOMAIN seen'[t] \subseteq DOMAIN seen[t] \cup sh \cup ex \cup DOMAIN w
      /\ excl[t] \subseteq excl'[t]
      /\ excl'[t] \subseteq excl[t] \cup ex \cup DOMAIN w
      /\ DOMAIN w \subseteq excl'[t] /\ excl'[t] \subseteq DOMAIN seen'[t]
      /\ \A r \in sh \cup ex : db[r] # NoRow => r \in DOMAIN seen'[t]
      /\ \A r \in DOMAIN seen'[t] : seen'[t][r] = db[r]
  BY <1>1, StatementEffect
<1>3. /\ \A r \in ex : db[r] # NoRow => r \in excl'[t]
      /\ DOMAIN seen'[t] \subseteq DOMAIN seen[t] \cup sh \cup excl'[t]
  BY <1>1 DEF Statement, StoreShape, Over
<1>4. \A r \in DOMAIN seen[t] : seen[t][r] = db[r]
  BY <1>1 DEF StoreInv, SeenIsCurrent
<1>5. /\ DOMAIN buf'[t] = DOMAIN w \cup DOMAIN buf[t]
      /\ \A r \in DOMAIN buf'[t] : buf'[t][r] = IF r \in DOMAIN w THEN w[r] ELSE buf[t][r]
  BY <1>2 DEF Over
<1>6. now' = now /\ call' = call /\ OthersLeft(t)
  BY <1>2 DEF LocalStep, OthersLeft, local
<1> QED
  BY <1>2, <1>3, <1>4, <1>5, <1>6 DEF Moves

\* A plain SELECT, or nothing.
LEMMA ReadMoves ==
    ASSUME Inductive, NEW t \in Tx, UNCHANGED store, LocalStep(t), UNCHANGED local
    PROVE  Moves(t, {}, {}, NoWrites)
<1>1. db' = db /\ seen' = seen /\ excl' = excl /\ buf' = buf /\ now' = now /\ call' = call
  BY DEF store, local
<1>2. \A r \in DOMAIN seen[t] : seen[t][r] = db[r]
  BY Parts DEF StoreInv, SeenIsCurrent
<1>3. OthersLeft(t)
  BY <1>1 DEF LocalStep, OthersLeft
<1> QED
  BY <1>1, <1>2, <1>3, RowsNone DEF Moves

-----------------------------------------------------------------------------
(* The steps of the others.                                                *)

LEMMA ViewStays ==
    ASSUME NEW o \in Tx, NEW p \in Pid, ActiveStays(o), GateRead(o), buf'[o] = buf[o],
           View(o, Identity(p)) = "active"
    PROVE  View(o, Identity(p))' = "active"
BY DEF View, ActiveStays, Active

\* A transaction knows what it knew while others move.
LEMMA MoreStays ==
    ASSUME Inductive, Inductive', NEW o \in Tx, KnowsMore(o), ActiveStays(o), now <= now',
           pc'[o] = pc[o], call'[o] = call[o], loc'[o] = loc[o],
           seen'[o] = seen[o], excl'[o] = excl[o], buf'[o] = buf[o]
    PROVE  KnowsMore(o)'
<1>1. /\ Op(o)' = Op(o) /\ Authorizes(o)' = Authorizes(o)
      /\ Knows(o) /\ StoreTypeOK /\ StoreInv /\ StoreInv'
  BY Parts DEF Op, Authorizes, Inductive
<1>2. LockOrder(o)'
  BY DEF KnowsMore, LockOrder
<1>3. LoginRead(o)'
  <2>1. UserRead(o) => UserRead(o)'
    BY DEF UserRead, Allowed
  <2>2. ASSUME NEW p, ProfileRead(o, p), GateRead(o)
        PROVE  ProfileRead(o, p)'
    BY <2>2, ViewStays DEF ProfileRead
  <2>3. pc[o] \in {"bind", "issue", "commit"} => GateRead(o)
    BY <1>1 DEF Knows, Outside
  <2>4. LoginRead(o)
    BY DEF KnowsMore
  <2> QED
    BY <1>1, <2>1, <2>2, <2>3, <2>4 DEF LoginRead
<1>4. BindingRead(o)'
  BY <1>1 DEF KnowsMore, BindingRead, Bound, SessionRead
<1>5. HasWritten(o)'
  <2>1. HasWritten(o) /\ (GateRead(o) => GateRead(o)')
    BY DEF KnowsMore, GateRead
  <2>2. ASSUME NEW h \in Hash, Token(h) \in DOMAIN buf[o], buf[o][Token(h)] # NoRow
        PROVE  Issued(o, buf[o][Token(h)])'
    <3> DEFINE token == buf[o][Token(h)]
    <3>1. token \in TokenRow /\ Issued(o, token) /\ GateRead(o)
      BY <1>1, <2>1, <2>2, Stores, KeyValues DEF HasWritten
    <3>2. View(o, Subject(token.owner))' = View(o, Subject(token.owner))
      <4>1. Subject(token.owner) \in DOMAIN seen[o]
        BY <1>1, <3>1 DEF Issued, StoreInv, WritesLocked
      <4>2. db'[Subject(token.owner)] = db[Subject(token.owner)]
        BY <1>1, <4>1 DEF StoreInv, SeenIsCurrent
      <4> QED
        BY <4>2 DEF View
    <3>3. token.identity # None => View(o, Identity(token.identity))' = "active"
      <4>1. token.identity \in Pid \cup {None}
        BY <3>1 DEF TokenRow
      <4> QED
        BY <3>1, <4>1, ViewStays DEF Issued
    <3> QED
      BY <3>1, <3>2, <3>3 DEF Issued
  <2>3. ASSUME NEW s \in Server, Session(s) \in DOMAIN buf[o], seen[o][Session(s)] # NoRow
        PROVE  seen[o][Session(s)].expires <= now'
    <3>1. Session(s) \in DOMAIN seen[o]
      BY <1>1, <2>3 DEF StoreInv, WritesLocked
    <3>2. seen[o][Session(s)] \in SessionRow
      BY <1>1, <2>3, <3>1, Stores, KeyValues
    <3>3. seen[o][Session(s)].expires \in Nat
      BY <3>2 DEF SessionRow
    <3>4. now \in Nat /\ now' \in Nat
      BY DEF Inductive, TypeOK
    <3>5. seen[o][Session(s)].expires <= now
      BY <2>1, <2>3 DEF HasWritten
    <3> QED
      BY <3>3, <3>4, <3>5
  <2> QED
    BY <1>1, <2>1, <2>2, <2>3 DEF HasWritten
<1>6. RefreshWrites(o)'
  BY <1>1 DEF KnowsMore, RefreshWrites, Bound
<1> QED
  BY <1>2, <1>3, <1>4, <1>5, <1>6 DEF KnowsMore

LEMMA SameRowsKept ==
    ASSUME TokensKept, db' = db
    PROVE  TokensKept'
BY DEF TokensKept, Stored, Exists, Active

LEMMA StrongParts ==
    ASSUME Strong
    PROVE  Inductive /\ TokensKept /\ \A t \in Tx : KnowsMore(t)
BY DEF Strong

\* One transaction moves and commits nothing: it is enough to look at that one.
LEMMA OneMovesOn ==
    ASSUME Strong, Inductive', NEW t \in Tx, db' = db, now' = now, OthersLeft(t), KnowsMore(t)'
    PROVE  Strong'
<1>1. TokensKept'
  BY SameRowsKept DEF Strong
<1>2. ASSUME NEW o \in Tx
      PROVE  KnowsMore(o)'
  <2>1. CASE o = t
    BY <2>1
  <2>2. CASE o # t
    <3>1. ActiveStays(o) /\ now <= now'
      BY SameRowsActive DEF Strong, Inductive, TypeOK
    <3> QED
      BY <2>2, <3>1, MoreStays DEF Strong, OthersLeft
  <2> QED
    BY <2>1, <2>2
<1> QED
  BY <1>1, <1>2 DEF Strong

-----------------------------------------------------------------------------
(* What a statement adds.                                                  *)

LEMMA LockOrderMoves ==
    ASSUME NEW t \in Tx, NEW sh, NEW ex, NEW w, Moves(t, sh, ex, w), LockOrder(t),
           (ex \cup DOMAIN w) \cap SiteRows = {}, sh \cap SubjectRows = {},
           pc'[t] \in BeforeSubject =>
               pc[t] \in BeforeSubject /\ (sh \cup ex \cup DOMAIN w) \cap SubjectRows = {},
           pc'[t] \in BeforeToken =>
               pc[t] \in BeforeToken /\ (sh \cup ex \cup DOMAIN w) \cap TokenRows = {},
           pc'[t] \in BeforeIdentity =>
               pc[t] \in BeforeIdentity /\ (sh \cup ex \cup DOMAIN w) \cap IdentityRows = {},
           pc'[t] \in BeforeSession =>
               pc[t] \in BeforeSession /\ (sh \cup ex \cup DOMAIN w) \cap SessionRows = {},
           pc'[t] # "insertSession"
    PROVE  LockOrder(t)'
<1>1. /\ DOMAIN seen'[t] \subseteq DOMAIN seen[t] \cup (sh \cup ex \cup DOMAIN w)
      /\ excl'[t] \subseteq excl[t] \cup (ex \cup DOMAIN w)
      /\ DOMAIN seen'[t] \subseteq DOMAIN seen[t] \cup sh \cup excl'[t]
      /\ excl[t] \subseteq excl'[t]
  BY DEF Moves
<1>2. excl'[t] \cap SiteRows = {} /\ DOMAIN seen'[t] \cap SubjectRows \subseteq excl'[t]
  BY <1>1 DEF LockOrder
<1>3. pc'[t] \in BeforeSubject => DOMAIN seen'[t] \cap SubjectRows = {}
  BY <1>1 DEF LockOrder
<1>4. pc'[t] \in BeforeToken => DOMAIN seen'[t] \cap TokenRows = {}
  BY <1>1 DEF LockOrder
<1>5. pc'[t] \in BeforeIdentity => DOMAIN seen'[t] \cap IdentityRows = {}
  BY <1>1 DEF LockOrder
<1>6. pc'[t] \in BeforeSession => DOMAIN seen'[t] \cap SessionRows = {}
  BY <1>1 DEF LockOrder
<1>7. /\ SubjectRows' = SubjectRows /\ TokenRows' = TokenRows /\ SiteRows' = SiteRows
      /\ IdentityRows' = IdentityRows /\ SessionRows' = SessionRows
      /\ BeforeSubject' = BeforeSubject /\ BeforeToken' = BeforeToken
      /\ BeforeIdentity' = BeforeIdentity /\ BeforeSession' = BeforeSession
  BY DEF SubjectRows, TokenRows, SiteRows, IdentityRows, SessionRows, BeforeSubject, BeforeToken,
         BeforeIdentity, BeforeSession
<1> QED
  BY <1>2, <1>3, <1>4, <1>5, <1>6, <1>7 DEF LockOrder

\* Issued in the next state, of a token of this one.
NextView(t, r) == IF r \in DOMAIN buf'[t] THEN buf'[t][r] ELSE db'[r]

IssuedNext(t, token) ==
    /\ Subject(token.owner) \in excl'[t] /\ token.generation = NextView(t, Subject(token.owner))
    /\ token.identity # None => NextView(t, Identity(token.identity)) = "active"
    /\ token.expires = token.created + TokenTTL

LEMMA HasWrittenMoves ==
    ASSUME Inductive, NEW t \in Tx, NEW sh, NEW ex, NEW w, Moves(t, sh, ex, w), HasWritten(t),
           pc[t] \notin {"commit", "fail"}, DOMAIN w = {} \/ GateRead(t),
           \A u \in Uid : Subject(u) \in DOMAIN w =>
               db[Subject(u)] = NoRow \/ w[Subject(u)] > db[Subject(u)],
           \A h \in Hash : Token(h) \in DOMAIN w /\ w[Token(h)] # NoRow =>
               pc'[t] \in {"commit", "fail"} /\ db[Token(h)] = NoRow /\ IssuedNext(t, w[Token(h)]),
           \A s \in Server : Session(s) \in DOMAIN w =>
               db[Session(s)] = NoRow \/ db[Session(s)].expires <= now,
           Op(t) = "signout" /\ pc'[t] = "commit" => Subject(loc'[t].uid) \in DOMAIN w
    PROVE  HasWritten(t)'
<1>1. /\ DOMAIN buf'[t] = DOMAIN w \cup DOMAIN buf[t]
      /\ \A r \in DOMAIN buf'[t] : buf'[t][r] = IF r \in DOMAIN w THEN w[r] ELSE buf[t][r]
      /\ DOMAIN seen[t] \cup DOMAIN w \subseteq DOMAIN seen'[t]
      /\ \A r \in DOMAIN seen[t] : seen[t][r] = db[r]
      /\ \A r \in DOMAIN seen'[t] : seen'[t][r] = db[r]
      /\ now' = now /\ call' = call
  BY DEF Moves
<1>2. DOMAIN buf[t] \subseteq DOMAIN seen[t]
  BY Parts DEF StoreInv, WritesLocked
<1>3. GateRead(t) => GateRead(t)'
  BY <1>1 DEF GateRead
<1>4. \A u \in Uid : Subject(u) \in DOMAIN buf'[t] =>
          seen'[t][Subject(u)] = NoRow \/ buf'[t][Subject(u)] > seen'[t][Subject(u)]
  BY <1>1, <1>2 DEF HasWritten
<1>5. ASSUME NEW h \in Hash, Token(h) \in DOMAIN buf'[t], buf'[t][Token(h)] # NoRow
      PROVE  /\ pc'[t] \in {"commit", "fail"} /\ seen'[t][Token(h)] = NoRow
             /\ Issued(t, buf[t][Token(h)])'
  <2>1. Token(h) \in DOMAIN w
    BY <1>1, <1>5 DEF HasWritten
  <2>2. buf'[t][Token(h)] = w[Token(h)] /\ w[Token(h)] # NoRow
    BY <1>1, <1>5, <2>1
  <2>3. Issued(t, buf[t][Token(h)])'
    BY <2>1, <2>2 DEF Issued, IssuedNext, NextView, View
  <2> QED
    BY <1>1, <2>1, <2>2, <2>3
<1>6. \A s \in Server : Session(s) \in DOMAIN buf'[t] =>
          seen'[t][Session(s)] = NoRow \/ seen'[t][Session(s)].expires <= now
  BY <1>1, <1>2 DEF HasWritten
<1>7. Op(t)' = "signout" /\ pc'[t] = "commit" => Subject(loc'[t].uid) \in DOMAIN buf'[t]
  BY <1>1 DEF Op
<1>8. DOMAIN buf'[t] # {} => GateRead(t)'
  BY <1>1, <1>3 DEF HasWritten
<1> QED
  BY <1>1, <1>4, <1>5, <1>6, <1>7, <1>8 DEF HasWritten

\* Nothing is written, or tokens are dropped.
LEMMA HasWrittenDrops ==
    ASSUME Inductive, NEW t \in Tx, NEW sh, NEW ex, NEW w, Moves(t, sh, ex, w), HasWritten(t),
           pc[t] \notin {"commit", "fail"}, DOMAIN w = {} \/ GateRead(t),
           DOMAIN w \subseteq TokenRows, \A r \in DOMAIN w : w[r] = NoRow,
           ~(Op(t) = "signout" /\ pc'[t] = "commit")
    PROVE  HasWritten(t)'
<1>1. /\ \A u \in Uid : Subject(u) \notin DOMAIN w
      /\ \A s \in Server : Session(s) \notin DOMAIN w
  BY Kinds, OfKind
<1> QED
  BY <1>1, HasWrittenMoves

\* A call that authorizes no token knows nothing of one.
LEMMA NoBinding ==
    ASSUME NEW t \in Tx, call'[t] = call[t], ~Authorizes(t)
    PROVE  BindingRead(t)' /\ RefreshWrites(t)'
BY DEF BindingRead, RefreshWrites, Authorizes, Op

LEMMA NoLogin ==
    ASSUME NEW t \in Tx, call'[t] = call[t], Op(t) \notin {"authenticate", "signout"}
    PROVE  LoginRead(t)'
BY DEF LoginRead, Op

\* A call that ends without a COMMIT keeps its writes until the Rollback.
LEMMA FailKnowsMore ==
    ASSUME Strong, NEW t \in Tx, UNCHANGED store, call'[t] = call[t], now' = now,
           loc'[t].identity = loc[t].identity, pc[t] # "idle", pc'[t] = "fail"
    PROVE  KnowsMore(t)'
<1>1. db' = db /\ seen' = seen /\ excl' = excl /\ buf' = buf /\ KnowsMore(t)
  BY StrongParts DEF store
<1>2. LockOrder(t)'
  BY <1>1 DEF KnowsMore, LockOrder, BeforeSubject, BeforeToken, BeforeIdentity, BeforeSession
<1>3. LoginRead(t)' /\ BindingRead(t)' /\ RefreshWrites(t)'
  BY <1>1 DEF KnowsMore, LoginRead, BindingRead, RefreshWrites, Op
<1>4. HasWritten(t)'
  BY <1>1 DEF KnowsMore, HasWritten, Op, Issued, View, GateRead
<1> QED
  BY <1>2, <1>3, <1>4 DEF KnowsMore

LEMMA IdleKnowsMore ==
    ASSUME NEW t \in Tx, pc'[t] = "idle", call'[t] = NoCall, loc'[t] = NoLocal,
           DOMAIN buf'[t] = {}, excl'[t] \cap SiteRows = {},
           DOMAIN seen'[t] \cap (SubjectRows \cup TokenRows \cup IdentityRows \cup SessionRows) = {}
    PROVE  KnowsMore(t)'
<1>1. Op(t)' = "cleanup" /\ ~Authorizes(t)'
  BY NoCallTyped DEF Op, Authorizes
<1>2. LockOrder(t)'
  BY DEF LockOrder, SiteRows, SubjectRows, TokenRows, IdentityRows, SessionRows
<1> QED
  BY <1>1, <1>2 DEF KnowsMore, LoginRead, BindingRead, RefreshWrites, HasWritten

-----------------------------------------------------------------------------
(* Calls.                                                                  *)

\* Before BEGIN nothing is locked and nothing is written.
LEMMA EarlyKnowsMore ==
    ASSUME Strong, NEW t \in Tx, UNCHANGED store, now' = now,
           pc[t] \in {"idle", "resolve", "verify"}, pc'[t] \in {"resolve", "verify", "begin"},
           loc'[t].identity = None
    PROVE  KnowsMore(t)'
<1>1. /\ db' = db /\ seen' = seen /\ excl' = excl /\ buf' = buf /\ KnowsMore(t)
      /\ DOMAIN buf[t] = {}
  BY StrongParts, Parts DEF store, Knows, WritesOf
<1>2. LockOrder(t)'
  BY <1>1 DEF KnowsMore, LockOrder, BeforeSubject, BeforeToken, BeforeIdentity, BeforeSession,
              SiteRows, SubjectRows, TokenRows, IdentityRows, SessionRows
<1> QED
  BY <1>1, <1>2 DEF KnowsMore, LoginRead, BindingRead, RefreshWrites, HasWritten

LEMMA LeavesOthers ==
    ASSUME NEW t \in Tx, UNCHANGED store, LocalStep(t)
    PROVE  OthersLeft(t) /\ db' = db
BY DEF store, LocalStep, OthersLeft

LEMMA StartMore ==
    ASSUME SharedAuthAssumption, Strong, Inductive', NEW t \in Tx, NEW c \in Calls, Start(t, c)
    PROVE  Strong'
<1>1. /\ pc[t] = "idle" /\ UNCHANGED store /\ now' = now
      /\ call' = [call EXCEPT ![t] = c] /\ loc' = [loc EXCEPT ![t].token = c.token]
      /\ LocalTypeOK /\ Knows(t)
  BY StrongParts, Parts DEF Start
<1>2. /\ pc'[t] \in {"resolve", "begin"}
      /\ \A o \in Tx \ {t} : pc'[o] = pc[o]
  BY <1>1, GotoEffect DEF Start, LocalTypeOK
<1>3. loc'[t].identity = None
  BY <1>1 DEF Knows, Arguments, NoLocal, LocalTypeOK, Local
<1>4. OthersLeft(t) /\ db' = db
  BY <1>1, <1>2 DEF OthersLeft, store, LocalTypeOK
<1>5. KnowsMore(t)'
  BY <1>1, <1>2, <1>3, EarlyKnowsMore
<1> QED
  BY <1>1, <1>4, <1>5, OneMovesOn

\* The call ends before BEGIN.
LEMMA ReturnMore ==
    ASSUME Strong, Inductive', NEW t \in Tx, UNCHANGED store, now' = now, Return(t),
           pc[t] \in {"resolve", "verify"}
    PROVE  Strong'
<1>1. /\ db' = db /\ seen' = seen /\ excl' = excl /\ buf' = buf /\ KnowsMore(t)
      /\ DOMAIN buf[t] = {} /\ LocalTypeOK
  BY StrongParts, Parts DEF store, Knows, WritesOf
<1>2. LocalStep(t) /\ pc'[t] = "idle" /\ call'[t] = NoCall /\ loc'[t] = NoLocal
  BY <1>1, ReturnStep
<1>3. /\ excl'[t] \cap SiteRows = {}
      /\ DOMAIN seen'[t] \cap (SubjectRows \cup TokenRows \cup IdentityRows \cup SessionRows) = {}
  BY <1>1 DEF KnowsMore, LockOrder, BeforeSubject, BeforeToken, BeforeIdentity, BeforeSession
<1>4. KnowsMore(t)'
  BY <1>1, <1>2, <1>3, IdleKnowsMore
<1> QED
  BY <1>1, <1>2, <1>4, LeavesOthers, OneMovesOn

LEMMA ResolveMore ==
    ASSUME Strong, Inductive', NEW t \in Tx, Resolve(t)
    PROVE  Strong'
<1>1. /\ pc[t] = "resolve" /\ UNCHANGED store /\ now' = now
      /\ LocalTypeOK /\ Knows(t) /\ KnowsMore(t)
  BY StrongParts, Parts DEF Resolve
<1>2. CASE \E u \in Uid : loc' = [loc EXCEPT ![t].uid = u] /\ Goto(t, "verify") /\ UNCHANGED call
  <2>1. PICK u \in Uid : loc' = [loc EXCEPT ![t].uid = u] /\ Goto(t, "verify") /\ UNCHANGED call
    BY <1>2
  <2>2. DOMAIN pc' = Tx /\ pc'[t] = "verify" /\ \A o \in Tx \ {t} : pc'[o] = pc[o]
    BY <1>1, <2>1, GotoEffect DEF LocalTypeOK
  <2>3. LocalStep(t) /\ loc'[t].identity = loc[t].identity
    BY <1>1, <2>1, <2>2 DEF LocalStep, LocalTypeOK, Local
  <2>4. loc[t].identity = None
    BY <1>1 DEF Knows, Route, KnowsMore, LoginRead
  <2>5. KnowsMore(t)'
    BY <1>1, <2>2, <2>3, <2>4, EarlyKnowsMore
  <2> QED
    BY <1>1, <2>3, <2>5, LeavesOthers, OneMovesOn
<1>3. CASE Return(t)
  BY <1>1, <1>3, ReturnMore
<1> QED
  BY <1>2, <1>3 DEF Resolve

LEMMA VerifyMore ==
    ASSUME Strong, Inductive', NEW t \in Tx, Verify(t)
    PROVE  Strong'
<1>1. /\ pc[t] = "verify" /\ UNCHANGED store /\ now' = now
      /\ LocalTypeOK /\ Knows(t) /\ KnowsMore(t)
  BY StrongParts, Parts DEF Verify
<1>2. CASE Goto(t, "begin") /\ UNCHANGED <<call, loc>>
  <2>1. LocalStep(t) /\ pc'[t] = "begin" /\ loc' = loc
    BY <1>1, <1>2, GotoStep DEF local
  <2>2. loc[t].identity = None
    BY <1>1 DEF Knows, Route, KnowsMore, LoginRead
  <2>3. KnowsMore(t)'
    BY <1>1, <2>1, <2>2, EarlyKnowsMore
  <2> QED
    BY <1>1, <2>1, <2>3, LeavesOthers, OneMovesOn
<1>3. CASE Return(t)
  BY <1>1, <1>3, ReturnMore
<1> QED
  BY <1>2, <1>3 DEF Verify

\* A statement of t that knows afterwards what it should.
LEMMA MovesOn ==
    ASSUME Strong, Inductive', NEW t \in Tx, NEW sh, NEW ex, NEW w, Moves(t, sh, ex, w),
           LockOrder(t)', LoginRead(t)', BindingRead(t)', HasWritten(t)', RefreshWrites(t)'
    PROVE  Strong'
BY OneMovesOn DEF Moves, KnowsMore

LEMMA BeginMore ==
    ASSUME SharedAuthAssumption, Strong, Inductive', NEW t \in Tx, Begin(t)
    PROVE  Strong'
<1>1. /\ pc[t] = "begin" /\ LocalTypeOK /\ Knows(t) /\ KnowsMore(t) /\ Inductive
      /\ UNCHANGED <<local, loc>>
  BY StrongParts, Parts DEF Begin
<1>2. SharesAt(t) = {Gate}
  BY <1>1 DEF SharesAt, GateLock
<1>3. Statement(t, {Gate}, {}, NoWrites) /\ {Gate} \subseteq Row
  BY <1>2, KeysInRow DEF Begin
<1>4. /\ LocalStep(t) /\ loc' = loc
      /\ pc'[t] = IF db[Gate] = "active"
                  THEN CASE Op(t) \in {"authenticate", "signout"} -> "lockUser"
                         [] Op(t) = "hasJoined" -> "findSession"
                         [] Op(t) = "cleanup"   -> "deleteTokens"
                         [] OTHER               -> "findOwner"
                  ELSE "fail"
  BY <1>1, CheckStep DEF Begin
<1>5. pc'[t] \in {"lockUser", "findSession", "deleteTokens", "findOwner", "fail"}
  BY <1>4
<1>6. Moves(t, {Gate}, {}, NoWrites)
  BY <1>1, <1>3, <1>4, RowsNone, StatementMoves
<1>7. call' = call /\ DOMAIN buf'[t] = {}
  BY <1>1, <1>6, RowsNone DEF Moves, Knows, WritesOf
<1>8. LockOrder(t)'
  <2>1. /\ ({} \cup DOMAIN NoWrites) \cap SiteRows = {}
        /\ ({Gate} \cup {} \cup DOMAIN NoWrites) \cap SubjectRows = {}
        /\ ({Gate} \cup {} \cup DOMAIN NoWrites) \cap TokenRows = {}
        /\ ({Gate} \cup {} \cup DOMAIN NoWrites) \cap IdentityRows = {}
        /\ ({Gate} \cup {} \cup DOMAIN NoWrites) \cap SessionRows = {}
    BY RowsNone, Kinds, OfKind
  <2>2. LockOrder(t)
    BY <1>1 DEF KnowsMore
  <2> QED
    BY <1>1, <1>5, <1>6, <2>1, <2>2, LockOrderMoves
    DEF BeforeSubject, BeforeToken, BeforeIdentity, BeforeSession
<1>9. HasWritten(t)'
  BY <1>5, <1>7 DEF HasWritten
<1>10. LoginRead(t)' /\ BindingRead(t)' /\ RefreshWrites(t)'
  BY <1>1, <1>4, <1>5, <1>7 DEF KnowsMore, LoginRead, BindingRead, RefreshWrites, Op
<1> QED
  BY <1>6, <1>8, <1>9, <1>10, MovesOn

-----------------------------------------------------------------------------
(* authorize.                                                              *)

\* t stays before the kinds of locks it does not take now.
Onward(t) ==
    /\ pc'[t] \in BeforeSubject => pc[t] \in BeforeSubject
    /\ pc'[t] \in BeforeToken => pc[t] \in BeforeToken
    /\ pc'[t] \in BeforeIdentity => pc[t] \in BeforeIdentity
    /\ pc'[t] \in BeforeSession => pc[t] \in BeforeSession
    /\ pc'[t] # "insertSession"

\* A statement that locks rows of the site only, or none.
LEMMA LockOrderSite ==
    ASSUME NEW t \in Tx, NEW sh, Moves(t, sh, {}, NoWrites), LockOrder(t), sh \subseteq SiteRows,
           Onward(t)
    PROVE  LockOrder(t)'
<1>1. /\ ({} \cup DOMAIN NoWrites) \cap SiteRows = {}
      /\ (sh \cup {} \cup DOMAIN NoWrites) \cap SubjectRows = {}
      /\ (sh \cup {} \cup DOMAIN NoWrites) \cap TokenRows = {}
      /\ (sh \cup {} \cup DOMAIN NoWrites) \cap IdentityRows = {}
      /\ (sh \cup {} \cup DOMAIN NoWrites) \cap SessionRows = {}
  BY RowsNone, Kinds
<1> QED
  BY <1>1, LockOrderMoves DEF Onward

LEMMA LockOrderSubject ==
    ASSUME NEW t \in Tx, NEW ex, NEW w, Moves(t, {}, ex, w), LockOrder(t),
           ex \cup DOMAIN w \subseteq SubjectRows, pc'[t] \notin BeforeSubject, Onward(t)
    PROVE  LockOrder(t)'
<1>1. /\ (ex \cup DOMAIN w) \cap SiteRows = {}
      /\ ({} \cup ex \cup DOMAIN w) \cap TokenRows = {}
      /\ ({} \cup ex \cup DOMAIN w) \cap IdentityRows = {}
      /\ ({} \cup ex \cup DOMAIN w) \cap SessionRows = {}
  BY Kinds
<1> QED
  BY <1>1, LockOrderMoves DEF Onward

LEMMA LockOrderToken ==
    ASSUME NEW t \in Tx, NEW ex, NEW w, Moves(t, {}, ex, w), LockOrder(t),
           ex \cup DOMAIN w \subseteq TokenRows, pc'[t] \notin BeforeToken, Onward(t)
    PROVE  LockOrder(t)'
<1>1. /\ (ex \cup DOMAIN w) \cap SiteRows = {}
      /\ ({} \cup ex \cup DOMAIN w) \cap IdentityRows = {}
      /\ ({} \cup ex \cup DOMAIN w) \cap SessionRows = {}
      /\ pc'[t] \notin BeforeSubject
  BY Kinds DEF BeforeToken
<1> QED
  BY <1>1, LockOrderMoves DEF Onward

LEMMA LockOrderSession ==
    ASSUME NEW t \in Tx, NEW sh, NEW ex, NEW w, Moves(t, sh, ex, w), LockOrder(t),
           sh \cup ex \cup DOMAIN w \subseteq SessionRows, pc'[t] \notin BeforeSession,
           pc'[t] # "insertSession"
    PROVE  LockOrder(t)'
<1>1. (ex \cup DOMAIN w) \cap SiteRows = {} /\ sh \cap SubjectRows = {}
  BY Kinds
<1>2. /\ pc'[t] \notin BeforeSubject /\ pc'[t] \notin BeforeToken
      /\ pc'[t] \notin BeforeIdentity
  BY DEF BeforeSubject, BeforeToken, BeforeIdentity, BeforeSession
<1> QED
  BY <1>1, <1>2, LockOrderMoves

\* Nothing is known of a binding before the token is checked, nor by an Invalidate.
LEMMA BindingEarly ==
    ASSUME NEW t \in Tx, call' = call,
           pc'[t] \in {"findOwner", "lockUser", "lockGeneration", "lockToken", "lockPlayer", "fail"}
              \/ ~Authorizes(t)
    PROVE  BindingRead(t)'
BY DEF BindingRead, Authorizes, Op

LEMMA RefreshEarly ==
    ASSUME NEW t \in Tx, call' = call, RefreshWrites(t), DOMAIN buf'[t] = DOMAIN buf[t],
           pc[t] \notin {"issue", "commit", "fail"}, pc'[t] \notin {"issue", "commit"}
    PROVE  RefreshWrites(t)'
BY DEF RefreshWrites, Op

\* What t knows after a statement that writes nothing before the token is checked.
LEMMA EarlyMoves ==
    ASSUME Strong, Inductive', NEW t \in Tx, NEW sh, NEW ex, Moves(t, sh, ex, NoWrites),
           LockOrder(t)', pc[t] \notin {"issue", "commit", "fail"},
           pc'[t] \in {"findOwner", "lockUser", "lockGeneration", "lockToken", "lockPlayer", "fail"}
              \/ Op(t) = "invalidate",
           Op(t) \notin {"authenticate", "signout"}
    PROVE  Strong'
<1>1. Inductive /\ KnowsMore(t) /\ call' = call /\ DOMAIN buf'[t] = DOMAIN buf[t]
  BY StrongParts, RowsNone DEF Moves
<1>2. LoginRead(t)'
  BY <1>1, NoLogin
<1>3. BindingRead(t)'
  BY <1>1, BindingEarly DEF Authorizes
<1>4. HasWritten(t)'
  BY <1>1, RowsNone, HasWrittenDrops DEF KnowsMore
<1>5. RefreshWrites(t)'
  <2>1. CASE Op(t) = "refresh"
    BY <1>1, <2>1, RefreshEarly DEF KnowsMore
  <2>2. CASE Op(t) # "refresh"
    BY <1>1, <2>2 DEF RefreshWrites, Op
  <2> QED
    BY <2>1, <2>2
<1> QED
  BY <1>2, <1>3, <1>4, <1>5, MovesOn

\* A statement of Authenticate or Signout that writes no token keeps what they have read.
LEMMA LoginReadMoves ==
    ASSUME NEW t \in Tx, NEW sh, NEW ex, NEW w, Moves(t, sh, ex, w), LoginRead(t),
           Op(t) \in {"authenticate", "signout"}, DOMAIN w \cap TokenRows = {},
           pc[t] \notin {"commit", "fail"}, loc'[t].uid = loc[t].uid
    PROVE  /\ DOMAIN buf'[t] \cap TokenRows' = {}
           /\ pc[t] \in {"checkLogin", "ensureSubject", "lockVictims", "loginProfiles", "bind",
                         "issue", "bump"} =>
                  UserRead(t)' /\ seen'[t][User(loc'[t].uid)].password = call'[t].password
<1>1. TokenRows' = TokenRows /\ call' = call
  BY DEF TokenRows, Moves
<1>2. DOMAIN buf'[t] \cap TokenRows = {}
  BY DEF LoginRead, Moves
<1>3. DOMAIN seen[t] \subseteq DOMAIN seen'[t] /\ \A r \in DOMAIN seen[t] : seen'[t][r] = seen[t][r]
  BY DEF Moves
<1>4. ASSUME UserRead(t), seen[t][User(loc[t].uid)].password = call[t].password
      PROVE  UserRead(t)' /\ seen'[t][User(loc'[t].uid)].password = call'[t].password
  BY <1>1, <1>3, <1>4 DEF UserRead, Allowed
<1> QED
  BY <1>1, <1>2, <1>4 DEF LoginRead

LEMMA FindOwnerMore ==
    ASSUME SharedAuthAssumption, Strong, Inductive', NEW t \in Tx, FindOwner(t)
    PROVE  Strong'
<1> DEFINE token == db[Token(loc[t].token)]
<1>1. /\ pc[t] = "findOwner" /\ UNCHANGED store /\ UNCHANGED local /\ now' = now /\ call' = call
      /\ LocalTypeOK /\ Knows(t) /\ StoreTypeOK /\ Inductive /\ KnowsMore(t)
  BY StrongParts, Parts DEF FindOwner, store, local
<1>2. /\ Authorizes(t) \/ Op(t) = "invalidate"
      /\ Op(t) \notin {"authenticate", "signout"} /\ loc[t].token \in Hash
  BY <1>1 DEF Knows, Route, Arguments, Authorizes
<1>3. LocalStep(t) /\ (pc'[t] \in {"lockUser", "fail"} \/ (pc'[t] = "commit" /\ Op(t) = "invalidate"))
  <2>1. CASE token # NoRow
    <3>1. loc' = [loc EXCEPT ![t].uid = token.owner] /\ Goto(t, "lockUser")
      BY <2>1 DEF FindOwner
    <3>2. token.owner \in Uid
      <4>1. token \in TokenRow
        BY <1>1, <1>2, <2>1, Stores, KeysInRow, KeyValues
      <4> QED
        BY <4>1 DEF TokenRow
    <3>3. DOMAIN pc' = Tx /\ pc'[t] = "lockUser" /\ \A o \in Tx \ {t} : pc'[o] = pc[o]
      BY <1>1, <3>1, GotoEffect DEF LocalTypeOK
    <3> HIDE DEF token
    <3> QED
      BY <1>1, <3>1, <3>2, <3>3 DEF LocalStep, LocalTypeOK, Local
  <2>2. CASE token = NoRow
    <3>1. Check(t, Op(t) = "invalidate", "commit") /\ loc' = loc
      BY <2>2 DEF FindOwner
    <3> QED
      BY <1>1, <3>1, CheckStep
  <2> QED
    BY <2>1, <2>2
<1>4. Moves(t, {}, {}, NoWrites)
  BY <1>1, <1>3, ReadMoves
<1>5. LockOrder(t)'
  <2>1. Onward(t)
    BY <1>1, <1>3 DEF Onward, BeforeSubject, BeforeToken, BeforeIdentity, BeforeSession
  <2> QED
    BY <1>1, <1>4, <2>1, LockOrderSite DEF KnowsMore
<1> QED
  BY <1>1, <1>2, <1>3, <1>4, <1>5, EarlyMoves

LEMMA LockUserMore ==
    ASSUME SharedAuthAssumption, Strong, Inductive', NEW t \in Tx, LockUser(t)
    PROVE  Strong'
<1> DEFINE user == db[User(loc[t].uid)]
           sh == {User(loc[t].uid)}
           login == Op(t) \in {"authenticate", "signout"}
<1>1. /\ pc[t] = "lockUser" /\ LocalTypeOK /\ Knows(t) /\ Inductive /\ KnowsMore(t)
      /\ UNCHANGED local
  BY StrongParts, Parts DEF LockUser, local
<1>2. loc[t].uid \in Uid /\ SharesAt(t) = sh /\ sh \subseteq Row /\ sh \subseteq SiteRows
  BY <1>1, KeysInRow, OfKind DEF Knows, Arguments, SharesAt, UserLock
<1>3. Statement(t, sh, {}, NoWrites)
  BY <1>2 DEF LockUser
<1>4. /\ LocalStep(t) /\ loc' = loc
      /\ login => pc'[t] = IF CredentialsHold(t, user) THEN "checkLogin" ELSE "fail"
      /\ ~login => pc'[t] \in {"lockGeneration", "fail"}
  <2>1. CASE Op(t) = "invalidate" /\ Goto(t, "lockGeneration")
    BY <1>1, <2>1, GotoStep DEF LockUser
  <2>2. CASE Authorizes(t) /\ Check(t, user # NoRow /\ Allowed(user), "lockGeneration")
    BY <1>1, <2>2, CheckStep DEF LockUser, Authorizes
  <2>3. CASE login /\ Check(t, CredentialsHold(t, user), "checkLogin")
    BY <1>1, <2>3, CheckStep DEF LockUser, Authorizes
  <2> QED
    BY <2>1, <2>2, <2>3 DEF LockUser
<1>5. Moves(t, sh, {}, NoWrites)
  <2> HIDE DEF sh
  <2> QED
    BY <1>1, <1>2, <1>3, <1>4, RowsNone, StatementMoves
<1>6. LockOrder(t)'
  <2>1. Onward(t)
    BY <1>1, <1>4 DEF Onward, BeforeSubject, BeforeToken, BeforeIdentity, BeforeSession
  <2> HIDE DEF sh
  <2> QED
    BY <1>1, <1>2, <1>5, <2>1, LockOrderSite DEF KnowsMore
<1>7. CASE login
  <2>1. LoginRead(t)'
    <3>1. loc[t].identity = None /\ call' = call
      BY <1>1, <1>5, <1>7 DEF KnowsMore, LoginRead, Moves
    <3>2. pc'[t] = "checkLogin" =>
              UserRead(t)' /\ seen'[t][User(loc'[t].uid)].password = call[t].password
      BY <1>2, <1>4, <1>5, <1>7 DEF Moves, UserRead, CredentialsHold, Allowed
    <3>3. DOMAIN buf'[t] \cap TokenRows' = {}
      BY <1>1, <1>4, <1>5, <1>7, RowsNone, LoginReadMoves DEF KnowsMore
    <3> QED
      BY <1>4, <1>7, <3>1, <3>2, <3>3 DEF LoginRead, Op
  <2>2. BindingRead(t)' /\ RefreshWrites(t)'
    BY <1>5, <1>7, NoBinding DEF Moves, Authorizes
  <2>3. HasWritten(t)'
    BY <1>1, <1>4, <1>5, <1>7, RowsNone, HasWrittenDrops DEF KnowsMore
  <2> HIDE DEF sh
  <2> QED
    BY <1>5, <1>6, <2>1, <2>2, <2>3, MovesOn
<1>8. CASE ~login
  <2> HIDE DEF sh
  <2> QED
    BY <1>1, <1>4, <1>5, <1>6, <1>8, EarlyMoves
<1> QED
  BY <1>7, <1>8

LEMMA LockGenerationMore ==
    ASSUME SharedAuthAssumption, Strong, Inductive', NEW t \in Tx, LockGeneration(t)
    PROVE  Strong'
<1> DEFINE ex == {Subject(loc[t].uid)}
<1>1. /\ pc[t] = "lockGeneration" /\ LocalTypeOK /\ Knows(t) /\ Inductive /\ KnowsMore(t)
      /\ Op(t) \notin {"authenticate", "signout"} /\ UNCHANGED local
  BY StrongParts, Parts DEF LockGeneration, Knows, Route, Authorizes, local
<1>2. LocksAt(t) = ex /\ ex \subseteq Row /\ ex \subseteq SubjectRows
  BY <1>1, KeysInRow, OfKind DEF Knows, Arguments, LocksAt, SubjectLock
<1>3. Statement(t, {}, ex, NoWrites)
  BY <1>2 DEF LockGeneration
<1>4. LocalStep(t) /\ pc'[t] \in {"lockToken", "fail"}
  BY <1>1, CheckStep DEF LockGeneration
<1> HIDE DEF ex
<1>5. Moves(t, {}, ex, NoWrites)
  BY <1>1, <1>2, <1>3, <1>4, RowsNone, StatementMoves
<1>6. LockOrder(t)'
  <2>1. Onward(t) /\ pc'[t] \notin BeforeSubject
    BY <1>1, <1>4 DEF Onward, BeforeSubject, BeforeToken, BeforeIdentity, BeforeSession
  <2> QED
    BY <1>1, <1>2, <1>5, <2>1, RowsNone, LockOrderSubject DEF KnowsMore
<1> QED
  BY <1>1, <1>4, <1>5, <1>6, EarlyMoves

LEMMA LockTokenMore ==
    ASSUME SharedAuthAssumption, Strong, Inductive', NEW t \in Tx, LockToken(t)
    PROVE  Strong'
<1> DEFINE ex == {Token(loc[t].token)}
           token == db[Token(loc[t].token)]
           ok == token # NoRow /\ TokenAccepted(t, token)
           next == IF token = NoRow \/ token.identity = None THEN "checkExpiry" ELSE "lockPlayer"
<1>1. /\ pc[t] = "lockToken" /\ LocalTypeOK /\ Knows(t) /\ Inductive /\ KnowsMore(t)
      /\ Authorizes(t) /\ Op(t) \notin {"authenticate", "signout"} /\ UNCHANGED local
  BY StrongParts, Parts DEF LockToken, Authorizes, local
<1>2. LocksAt(t) = ex /\ ex \subseteq Row /\ ex \subseteq TokenRows
  BY <1>1, KeysInRow, OfKind DEF Knows, Arguments, LocksAt, TokenLock
<1>3. Statement(t, {}, ex, NoWrites)
  BY <1>2 DEF LockToken
<1>4. /\ LocalStep(t) /\ loc' = loc
      /\ pc'[t] \in {"checkExpiry", "lockPlayer", "fail"}
      /\ pc'[t] = "checkExpiry" => token # NoRow /\ token.identity = None
  <2>1. Check(t, ok, next) /\ UNCHANGED <<local, loc>>
    BY DEF LockToken
  <2>2. LocalStep(t) /\ loc' = loc /\ pc'[t] = IF ok THEN next ELSE "fail"
    <3> HIDE DEF ok, next
    <3> QED
      BY <1>1, <2>1, CheckStep
  <2> QED
    BY <2>2
<1>5. Moves(t, {}, ex, NoWrites)
  <2> HIDE DEF ex
  <2> QED
    BY <1>1, <1>2, <1>3, <1>4, RowsNone, StatementMoves
<1>6. LockOrder(t)'
  <2>1. Onward(t) /\ pc'[t] \notin BeforeToken
    BY <1>1, <1>4 DEF Onward, BeforeSubject, BeforeToken, BeforeIdentity, BeforeSession
  <2> HIDE DEF ex
  <2> QED
    BY <1>1, <1>2, <1>5, <2>1, RowsNone, LockOrderToken DEF KnowsMore
<1>7. CASE pc'[t] = "checkExpiry"
  <2>1. call' = call /\ loc[t].identity = None /\ DOMAIN buf'[t] = DOMAIN buf[t]
    BY <1>1, <1>5, RowsNone DEF Moves, Knows
  <2>2. seen'[t][Token(loc[t].token)].identity = None
    BY <1>4, <1>5, <1>7 DEF Moves
  <2>3. BindingRead(t)'
    BY <1>4, <1>7, <2>1, <2>2 DEF BindingRead, Op, Authorizes
  <2>4. LoginRead(t)' /\ RefreshWrites(t)'
    BY <1>1, <1>7, <2>1, NoLogin, RefreshEarly DEF KnowsMore
  <2>5. HasWritten(t)'
    BY <1>1, <1>5, RowsNone, HasWrittenDrops DEF KnowsMore
  <2> HIDE DEF ex
  <2> QED
    BY <1>5, <1>6, <2>3, <2>4, <2>5, MovesOn
<1>8. CASE pc'[t] # "checkExpiry"
  <2> HIDE DEF ex
  <2> QED
    BY <1>1, <1>4, <1>5, <1>6, <1>8, EarlyMoves
<1> QED
  BY <1>7, <1>8

LEMMA DeleteInvalidatedMore ==
    ASSUME SharedAuthAssumption, Strong, Inductive', NEW t \in Tx, DeleteInvalidated(t)
    PROVE  Strong'
<1> DEFINE r == Token(loc[t].token)
           token == db[r]
           ok == token = NoRow \/ MatchesClient(token.client, call[t].client)
           w == IF token # NoRow /\ ok THEN Drop({r}) ELSE NoWrites
<1>1. /\ pc[t] = "lockToken" /\ Op(t) = "invalidate" /\ LocalTypeOK /\ Knows(t) /\ Inductive
      /\ KnowsMore(t) /\ ~Authorizes(t) /\ UNCHANGED local
  BY StrongParts, Parts DEF DeleteInvalidated, Authorizes, local
<1>2. /\ LocksAt(t) = {r} /\ {r} \subseteq Row /\ {r} \subseteq TokenRows /\ GateRead(t)
  BY <1>1, KeysInRow, OfKind DEF Knows, Arguments, LocksAt, TokenLock, Outside
<1>3. Statement(t, {}, {r}, w)
  BY <1>2 DEF DeleteInvalidated
<1>4. Rows(w) /\ DOMAIN w \subseteq {r} /\ \A x \in DOMAIN w : w[x] = NoRow
  <2>1. Rows(Drop({r})) /\ DOMAIN Drop({r}) = {r} /\ \A x \in {r} : Drop({r})[x] = NoRow
    BY <1>2, RowsDrop
  <2> QED
    BY <2>1, RowsNone
<1>5. LocalStep(t) /\ pc'[t] \in {"commit", "fail"}
  BY <1>1, CheckStep DEF DeleteInvalidated
<1> HIDE DEF w, r
<1>6. Moves(t, {}, {r}, w)
  BY <1>1, <1>2, <1>3, <1>4, <1>5, StatementMoves
<1>7. LockOrder(t)'
  <2>1. Onward(t) /\ pc'[t] \notin BeforeToken
    BY <1>1, <1>5 DEF Onward, BeforeSubject, BeforeToken, BeforeIdentity, BeforeSession
  <2>2. {r} \cup DOMAIN w \subseteq TokenRows
    BY <1>2, <1>4
  <2> QED
    BY <1>1, <1>6, <2>1, <2>2, LockOrderToken DEF KnowsMore
<1>8. LoginRead(t)' /\ BindingRead(t)' /\ RefreshWrites(t)'
  BY <1>1, <1>6, NoLogin, NoBinding DEF Moves
<1>9. HasWritten(t)'
  <2>1. DOMAIN w \subseteq TokenRows
    BY <1>2, <1>4
  <2> QED
    BY <1>1, <1>2, <1>4, <1>6, <2>1, HasWrittenDrops DEF KnowsMore
<1> QED
  BY <1>6, <1>7, <1>8, <1>9, MovesOn

LEMMA LockPlayerMore ==
    ASSUME SharedAuthAssumption, Strong, Inductive', NEW t \in Tx, LockPlayer(t)
    PROVE  Strong'
<1> DEFINE p == seen[t][Token(loc[t].token)].identity
           sh == {Player(p)}
           ok == Exists(Player(p)) /\ Active(p) /\ db[Player(p)].owner = loc[t].uid
<1>1. /\ pc[t] = "lockPlayer" /\ LocalTypeOK /\ StoreTypeOK /\ Knows(t) /\ Inductive
      /\ KnowsMore(t) /\ Authorizes(t) /\ Op(t) \notin {"authenticate", "signout"}
      /\ UNCHANGED local /\ call' = call /\ now' = now
  BY StrongParts, Parts DEF LockPlayer, Knows, Route, Authorizes, local
<1>2. p \in Pid /\ Token(loc[t].token) \in DOMAIN seen[t]
  <2>1. TokenRead(t) /\ p # None
    BY <1>1 DEF Knows, Outside, Unauthorized
  <2>2. seen[t][Token(loc[t].token)] \in TokenRow
    BY <1>1, <2>1, Stores, KeyValues DEF TokenRead
  <2> QED
    BY <2>1, <2>2 DEF TokenRow, TokenRead
<1>3. SharesAt(t) = sh /\ sh \subseteq Row /\ sh \subseteq SiteRows
  BY <1>1, <1>2, KeysInRow, OfKind DEF SharesAt, PlayerLock
<1>4. Statement(t, sh, {}, NoWrites)
  BY <1>3 DEF LockPlayer
<1>5. Check(t, ok, "checkExpiry") /\ loc' = [loc EXCEPT ![t].identity = p]
  BY DEF LockPlayer
<1> HIDE DEF sh, p, ok
<1>6. /\ DOMAIN pc' = Tx /\ \A o \in Tx \ {t} : pc'[o] = pc[o]
      /\ pc'[t] \in {"checkExpiry", "fail"}
  BY <1>1, <1>5, CheckEffect DEF LocalTypeOK
<1>7. /\ LocalStep(t) /\ loc'[t].identity = p /\ loc'[t].token = loc[t].token
      /\ loc'[t].uid = loc[t].uid
  BY <1>1, <1>2, <1>5, <1>6 DEF LocalStep, LocalTypeOK, Local
<1>8. Moves(t, sh, {}, NoWrites)
  BY <1>1, <1>3, <1>4, <1>7, RowsNone, StatementMoves
<1>9. LockOrder(t)'
  <2>1. Onward(t)
    BY <1>1, <1>6 DEF Onward, BeforeSubject, BeforeToken, BeforeIdentity, BeforeSession
  <2> QED
    BY <1>1, <1>3, <1>8, <2>1, LockOrderSite DEF KnowsMore
<1>10. LoginRead(t)' /\ HasWritten(t)'
  BY <1>1, <1>8, RowsNone, NoLogin, HasWrittenDrops DEF KnowsMore
<1>11. BindingRead(t)'
  <2>1. seen'[t][Token(loc[t].token)].identity = p
    BY <1>2, <1>8 DEF Moves, p
  <2> QED
    BY <1>1, <1>6, <1>7, <2>1 DEF BindingRead, Op, Authorizes
<1>12. RefreshWrites(t)'
  <2>1. DOMAIN buf'[t] = DOMAIN buf[t]
    BY <1>8, RowsNone DEF Moves
  <2> QED
    BY <1>1, <1>6, <2>1, RefreshEarly DEF KnowsMore
<1> QED
  BY <1>8, <1>9, <1>10, <1>11, <1>12, MovesOn

\* A statement on no row, or one of the site, of an authorized call that keeps its variables.
LEMMA AuthorizedReads ==
    ASSUME Strong, Inductive', NEW t \in Tx, NEW sh, Moves(t, sh, {}, NoWrites),
           sh \subseteq SiteRows, Onward(t), Authorizes(t),
           pc[t] \notin {"issue", "commit", "fail"}, pc'[t] \notin {"issue", "commit"},
           BindingRead(t)'
    PROVE  Strong'
<1>1. Inductive /\ KnowsMore(t) /\ call' = call /\ DOMAIN buf'[t] = DOMAIN buf[t]
  BY StrongParts, RowsNone DEF Moves
<1>2. LockOrder(t)'
  BY <1>1, LockOrderSite DEF KnowsMore
<1>3. LoginRead(t)' /\ HasWritten(t)'
  BY <1>1, RowsNone, NoLogin, HasWrittenDrops DEF KnowsMore, Authorizes
<1>4. RefreshWrites(t)'
  BY <1>1, RefreshEarly DEF KnowsMore
<1> QED
  BY <1>2, <1>3, <1>4, MovesOn

LEMMA CheckExpiryMore ==
    ASSUME SharedAuthAssumption, Strong, Inductive', NEW t \in Tx, CheckExpiry(t)
    PROVE  Strong'
<1> DEFINE ok == now < seen[t][Token(loc[t].token)].expires
           next == CASE Op(t) = "validate" -> "commit"
                     [] Op(t) = "refresh"  -> IF call[t].selected = None THEN "deleteOld" ELSE "select"
                     [] Op(t) = "join"     -> "clearSession"
                     [] OTHER              -> "checkName"
<1>1. /\ pc[t] = "checkExpiry" /\ LocalTypeOK /\ Knows(t) /\ Inductive /\ KnowsMore(t)
      /\ Authorizes(t) /\ UNCHANGED store /\ seen' = seen /\ UNCHANGED local /\ call' = call
  BY StrongParts, Parts DEF CheckExpiry, Knows, Route, local, store
<1>2. LocalStep(t) /\ loc' = loc /\ pc'[t] = IF ok THEN next ELSE "fail"
  <2>1. Check(t, ok, next) /\ UNCHANGED <<local, loc>>
    BY DEF CheckExpiry
  <2> HIDE DEF ok, next
  <2> QED
    BY <1>1, <2>1, CheckStep
<1>3. /\ pc'[t] \in {"commit", "deleteOld", "select", "clearSession", "checkName", "fail"}
      /\ pc'[t] = "commit" => Op(t) = "validate"
      /\ pc'[t] = "deleteOld" => Op(t) = "refresh" /\ call[t].selected = None
      /\ Op(t) = "hasJoined" => pc'[t] \in {"checkName", "fail"}
  BY <1>1, <1>2 DEF Authorizes
<1>4. Moves(t, {}, {}, NoWrites)
  BY <1>1, <1>2, ReadMoves
<1>5. Onward(t)
  BY <1>1, <1>3 DEF Onward, BeforeSubject, BeforeToken, BeforeIdentity, BeforeSession
<1>6. BindingRead(t)'
  <2>1. BindingRead(t) /\ seen[t][Token(loc[t].token)].identity = loc[t].identity
    BY <1>1 DEF KnowsMore, BindingRead
  <2>2. pc'[t] = "deleteOld" => Bound(t)' = loc'[t].identity
    BY <1>1, <1>2, <1>3, <2>1 DEF Bound
  <2> QED
    BY <1>1, <1>2, <1>3, <2>1, <2>2 DEF BindingRead, Op, Authorizes
<1>7. CASE pc'[t] # "commit"
  BY <1>1, <1>3, <1>4, <1>5, <1>6, <1>7, AuthorizedReads
<1>8. CASE pc'[t] = "commit"
  <2>1. KnowsMore(t)'
    <3>1. LockOrder(t)'
      BY <1>1, <1>4, <1>5, LockOrderSite DEF KnowsMore
    <3>2. LoginRead(t)' /\ HasWritten(t)'
      BY <1>1, <1>4, RowsNone, NoLogin, HasWrittenDrops DEF KnowsMore, Authorizes
    <3>3. RefreshWrites(t)'
      BY <1>1, <1>3, <1>8 DEF RefreshWrites, Op
    <3> QED
      BY <1>6, <3>1, <3>2, <3>3 DEF KnowsMore
  <2> QED
    BY <1>4, <2>1, MovesOn DEF KnowsMore
<1> QED
  BY <1>7, <1>8

-----------------------------------------------------------------------------
(* Refresh.                                                                *)

LEMMA SelectMore ==
    ASSUME SharedAuthAssumption, Strong, Inductive', NEW t \in Tx, Select(t)
    PROVE  Strong'
<1> DEFINE sel == call[t].selected
           own == loc[t].identity = None /\ Active(sel) /\ Exists(Player(sel))
                    /\ db[Player(sel)].owner = loc[t].uid
           ok == own \/ loc[t].identity = sel
           old == Token(loc[t].token)
<1>1. /\ pc[t] = "select" /\ LocalTypeOK /\ Knows(t) /\ Inductive /\ KnowsMore(t)
      /\ Op(t) = "refresh" /\ Authorizes(t) /\ UNCHANGED local /\ call' = call /\ now' = now
  BY StrongParts, Parts DEF Select, Knows, Route, Authorizes, local
<1>2. sel \in Pid /\ sel # None
  <2>1. sel # None /\ call[t] \in Call
    BY <1>1 DEF Knows, Route, LocalTypeOK
  <2> QED
    BY <2>1 DEF Call
<1>3. SharesAt(t) \subseteq Row /\ SharesAt(t) \subseteq SiteRows
  <2>1. SharesAt(t) \subseteq {Player(sel)}
    BY <1>1 DEF SharesAt, SelectedLock
  <2>2. Player(sel) \in Row /\ Player(sel) \in SiteRows
    BY <1>2, KeysInRow, OfKind
  <2> QED
    BY <2>1, <2>2
<1>4. Statement(t, SharesAt(t), {}, NoWrites)
  BY DEF Select
<1>5. Check(t, ok, "deleteOld") /\ loc' = [loc EXCEPT ![t].identity = sel]
  BY DEF Select
<1>6. /\ DOMAIN pc' = Tx /\ \A o \in Tx \ {t} : pc'[o] = pc[o]
      /\ pc'[t] = IF ok THEN "deleteOld" ELSE "fail"
  <2> HIDE DEF ok
  <2> QED
    BY <1>1, <1>5, CheckEffect DEF LocalTypeOK
<1>7. LocalStep(t) /\ loc'[t].identity = sel /\ loc'[t].token = loc[t].token
  <2> HIDE DEF sel
  <2> QED
    BY <1>1, <1>2, <1>5, <1>6 DEF LocalStep, LocalTypeOK, Local
<1>8. Moves(t, SharesAt(t), {}, NoWrites)
  BY <1>1, <1>3, <1>4, <1>7, RowsNone, StatementMoves
<1>9. BindingRead(t)'
  <2>1. old \in DOMAIN seen[t] /\ seen[t][old].identity = loc[t].identity
    <3>1. TokenRead(t)
      BY <1>1 DEF Knows, Unauthorized, Outside
    <3> QED
      BY <1>1, <3>1 DEF KnowsMore, BindingRead, TokenRead
  <2>2. seen'[t][old] = seen[t][old]
    BY <1>8, <2>1 DEF Moves
  <2>3. pc'[t] = "deleteOld" => Bound(t)' = sel
    BY <1>1, <1>6, <1>7, <2>1, <2>2 DEF Bound
  <2> QED
    BY <1>1, <1>6, <1>7, <2>3 DEF BindingRead, Op, Authorizes
<1>10. Onward(t) /\ pc'[t] \in {"deleteOld", "fail"}
  BY <1>1, <1>6 DEF Onward, BeforeSubject, BeforeToken, BeforeIdentity, BeforeSession
<1> QED
  BY <1>1, <1>3, <1>8, <1>9, <1>10, AuthorizedReads

LEMMA DeleteOldMore ==
    ASSUME SharedAuthAssumption, Strong, Inductive', NEW t \in Tx, DeleteOld(t)
    PROVE  Strong'
<1> DEFINE old == Token(loc[t].token)
           w == Drop({old})
<1>1. /\ pc[t] = "deleteOld" /\ LocalTypeOK /\ Knows(t) /\ Inductive /\ KnowsMore(t)
      /\ Op(t) = "refresh" /\ Authorizes(t) /\ UNCHANGED <<local, loc>> /\ call' = call
      /\ loc' = loc /\ GateRead(t)
  BY StrongParts, Parts DEF DeleteOld, Knows, Route, Authorizes, local, Outside
<1>2. TokenRead(t) /\ loc[t].token \in Hash /\ old \in DOMAIN seen[t]
  BY <1>1 DEF Knows, Unauthorized, Outside, TokenRead
<1>3. /\ Statement(t, {}, {}, w) /\ Rows(w) /\ DOMAIN w = {old} /\ w[old] = NoRow
      /\ DOMAIN w \subseteq TokenRows /\ \A x \in DOMAIN w : w[x] = NoRow
  BY <1>2, KeysInRow, RowsDrop, OfKind DEF DeleteOld
<1>4. LocalStep(t) /\ pc'[t] = "issue"
  BY <1>1, GotoStep DEF DeleteOld
<1> HIDE DEF w
<1>5. Moves(t, {}, {}, w)
  BY <1>1, <1>3, <1>4, StatementMoves
<1>6. LockOrder(t)'
  <2>1. Onward(t) /\ pc'[t] \notin BeforeToken
    BY <1>1, <1>4 DEF Onward, BeforeSubject, BeforeToken, BeforeIdentity, BeforeSession
  <2> QED
    BY <1>1, <1>3, <1>5, <2>1, LockOrderToken DEF KnowsMore
<1>7. LoginRead(t)' /\ HasWritten(t)'
  BY <1>1, <1>3, <1>4, <1>5, NoLogin, HasWrittenDrops DEF KnowsMore
<1>8. BindingRead(t)'
  <2>1. seen'[t][old] = seen[t][old]
    BY <1>2, <1>5 DEF Moves
  <2>2. Bound(t)' = Bound(t) /\ loc[t].identity = Bound(t)
    BY <1>1, <2>1 DEF Bound, KnowsMore, BindingRead
  <2> QED
    BY <1>1, <1>4, <2>2 DEF BindingRead, Op, Authorizes
<1>9. RefreshWrites(t)'
  <2>1. DOMAIN buf[t] = {}
    BY <1>1 DEF KnowsMore, RefreshWrites
  <2>2. DOMAIN buf'[t] = {old} /\ buf'[t][old] = NoRow
    BY <1>3, <1>5, <2>1 DEF Moves
  <2> QED
    BY <1>1, <1>4, <2>2 DEF RefreshWrites, Op
<1> QED
  BY <1>5, <1>6, <1>7, <1>8, <1>9, MovesOn

-----------------------------------------------------------------------------
(* Authenticate and Signout.                                               *)

\* What every statement of Authenticate and Signout after the account is locked keeps.
LEMMA LoginMoves ==
    ASSUME Strong, Inductive', NEW t \in Tx, NEW sh, NEW ex, NEW w, Moves(t, sh, ex, w),
           LockOrder(t)', HasWritten(t)', Op(t) \in {"authenticate", "signout"},
           DOMAIN w \cap TokenRows = {}, loc'[t].uid = loc[t].uid,
           pc[t] \in {"checkLogin", "ensureSubject", "lockVictims", "loginProfiles", "bump"},
           pc'[t] \in {"ensureSubject", "lockVictims", "loginProfiles", "bump", "bind", "commit",
                       "fail"},
           pc'[t] = "commit" => Op(t) = "signout",
           loc'[t].identity = loc[t].identity,
           pc'[t] = "bind" => \A q \in loc'[t].profiles : ProfileRead(t, q)'
    PROVE  Strong'
<1>1. Inductive /\ KnowsMore(t) /\ call' = call
  BY StrongParts DEF Moves
<1>2. /\ DOMAIN buf'[t] \cap TokenRows' = {} /\ UserRead(t)'
      /\ seen'[t][User(loc'[t].uid)].password = call'[t].password
  BY <1>1, LoginReadMoves DEF KnowsMore
<1>3. loc'[t].identity = None
  BY <1>1 DEF KnowsMore, LoginRead
<1>4. LoginRead(t)'
  BY <1>1, <1>2, <1>3 DEF LoginRead, Op
<1>5. BindingRead(t)' /\ RefreshWrites(t)'
  BY <1>1, NoBinding DEF Authorizes
<1> QED
  BY <1>4, <1>5, MovesOn

LEMMA CheckLoginMore ==
    ASSUME SharedAuthAssumption, Strong, Inductive', NEW t \in Tx, CheckLogin(t)
    PROVE  Strong'
<1> DEFINE ok == LoginOwner(call[t].login, loc[t].uid)
           next == IF Op(t) = "signout" THEN "bump" ELSE "ensureSubject"
<1>1. /\ pc[t] = "checkLogin" /\ LocalTypeOK /\ Knows(t) /\ Inductive /\ KnowsMore(t)
      /\ Op(t) \in {"authenticate", "signout"} /\ UNCHANGED store /\ UNCHANGED local
  BY StrongParts, Parts DEF CheckLogin, Knows, Route, local
<1>2. LocalStep(t) /\ loc' = loc /\ pc'[t] = IF ok THEN next ELSE "fail"
  <2>1. Check(t, ok, next) /\ UNCHANGED <<local, loc>>
    BY DEF CheckLogin
  <2> HIDE DEF ok, next
  <2> QED
    BY <1>1, <2>1, CheckStep
<1>3. pc'[t] \in {"bump", "ensureSubject", "fail"}
  BY <1>2
<1>4. Moves(t, {}, {}, NoWrites)
  BY <1>1, <1>2, ReadMoves
<1>5. LockOrder(t)'
  <2>1. Onward(t)
    BY <1>1, <1>3 DEF Onward, BeforeSubject, BeforeToken, BeforeIdentity, BeforeSession
  <2> QED
    BY <1>1, <1>4, <2>1, LockOrderSite DEF KnowsMore
<1>6. HasWritten(t)'
  BY <1>1, <1>3, <1>4, RowsNone, HasWrittenDrops DEF KnowsMore
<1> QED
  BY <1>1, <1>2, <1>3, <1>4, <1>5, <1>6, RowsNone, LoginMoves

LEMMA EnsureSubjectMore ==
    ASSUME SharedAuthAssumption, Strong, Inductive', NEW t \in Tx, EnsureSubject(t)
    PROVE  Strong'
<1> DEFINE s == Subject(loc[t].uid)
           w == IF Exists(s) THEN NoWrites ELSE Put(s, 1)
<1>1. /\ pc[t] = "ensureSubject" /\ LocalTypeOK /\ Knows(t) /\ Inductive /\ KnowsMore(t)
      /\ Op(t) = "authenticate" /\ loc[t].uid \in Uid /\ GateRead(t) /\ UNCHANGED local
  BY StrongParts, Parts DEF EnsureSubject, Knows, Route, Arguments, Outside, local
<1>2. LocksAt(t) = {s} /\ {s} \subseteq Row /\ {s} \subseteq SubjectRows
  BY <1>1, KeysInRow, OfKind DEF LocksAt, SubjectLock
<1>3. Statement(t, {}, {s}, w)
  BY <1>2 DEF EnsureSubject
<1>4. Rows(w) /\ DOMAIN w \subseteq {s} /\ (s \in DOMAIN w => db[s] = NoRow)
  <2>1. Rows(Put(s, 1)) /\ DOMAIN Put(s, 1) = {s}
    BY <1>2, KeyValues, RowsPut
  <2> QED
    BY <2>1, RowsNone DEF Exists
<1>5. LocalStep(t) /\ loc' = loc /\ pc'[t] = "lockVictims"
  BY <1>1, GotoStep DEF EnsureSubject
<1> HIDE DEF w, s
<1>6. Moves(t, {}, {s}, w)
  BY <1>1, <1>2, <1>3, <1>4, <1>5, StatementMoves
<1>7. LockOrder(t)'
  <2>1. Onward(t) /\ pc'[t] \notin BeforeSubject /\ {s} \cup DOMAIN w \subseteq SubjectRows
    BY <1>1, <1>2, <1>4, <1>5
    DEF Onward, BeforeSubject, BeforeToken, BeforeIdentity, BeforeSession
  <2> QED
    BY <1>1, <1>6, <2>1, LockOrderSubject DEF KnowsMore
<1>8. /\ \A h \in Hash : Token(h) \notin DOMAIN w
      /\ \A v \in Server : Session(v) \notin DOMAIN w
      /\ DOMAIN w \cap TokenRows = {}
  BY <1>2, <1>4, Kinds, OfKind
<1>9. HasWritten(t)'
  BY <1>1, <1>4, <1>5, <1>6, <1>8, HasWrittenMoves DEF KnowsMore
<1> QED
  BY <1>1, <1>5, <1>6, <1>7, <1>8, <1>9, LoginMoves

LEMMA LockVictimsMore ==
    ASSUME SharedAuthAssumption, Strong, Inductive', NEW t \in Tx, LockVictims(t)
    PROVE  Strong'
<1>1. /\ pc[t] = "lockVictims" /\ LocalTypeOK /\ Knows(t) /\ Inductive /\ KnowsMore(t)
      /\ Op(t) = "authenticate" /\ UNCHANGED local
  BY StrongParts, Parts DEF LockVictims, Knows, Route, local
<1>2. LocksAt(t) \subseteq Row /\ LocksAt(t) \subseteq TokenRows
  BY <1>1, KeysInRow, OfKind DEF LocksAt, VictimLocks, EvictionCandidates
<1>3. Statement(t, {}, LocksAt(t), NoWrites)
  BY DEF LockVictims
<1>4. LocalStep(t) /\ loc' = loc /\ pc'[t] = "loginProfiles"
  BY <1>1, GotoStep DEF LockVictims
<1>5. Moves(t, {}, LocksAt(t), NoWrites)
  BY <1>1, <1>2, <1>3, <1>4, RowsNone, StatementMoves
<1>6. LockOrder(t)'
  <2>1. Onward(t) /\ pc'[t] \notin BeforeToken
    BY <1>1, <1>4 DEF Onward, BeforeSubject, BeforeToken, BeforeIdentity, BeforeSession
  <2> QED
    BY <1>1, <1>2, <1>5, <2>1, RowsNone, LockOrderToken DEF KnowsMore
<1>7. HasWritten(t)'
  BY <1>1, <1>4, <1>5, RowsNone, HasWrittenDrops DEF KnowsMore
<1> QED
  BY <1>1, <1>4, <1>5, <1>6, <1>7, RowsNone, LoginMoves

LEMMA LoginProfilesMore ==
    ASSUME SharedAuthAssumption, Strong, Inductive', NEW t \in Tx, LoginProfiles(t)
    PROVE  Strong'
<1> DEFINE new == Provisioned(t)
           mine == {p \in PlayersOf(loc[t].uid) : Active(p)}
           w == [r \in {Identity(p) : p \in new} |-> "active"]
           sh == {Player(p) : p \in PlayersOf(loc[t].uid)}
           ex == {Identity(p) : p \in new}
<1>1. /\ pc[t] = "loginProfiles" /\ LocalTypeOK /\ Knows(t) /\ Inductive /\ KnowsMore(t)
      /\ Op(t) = "authenticate" /\ GateRead(t) /\ UNCHANGED local /\ call' = call /\ now' = now
      /\ WritesOf(t)
  BY StrongParts, Parts DEF LoginProfiles, Knows, Route, Outside, local
<1>2. /\ new \subseteq PlayersOf(loc[t].uid) /\ mine \subseteq PlayersOf(loc[t].uid)
      /\ PlayersOf(loc[t].uid) \subseteq Pid
  BY DEF Provisioned, PlayersOf
<1>3. SharesAt(t) = sh /\ LocksAt(t) = ex
  <2>1. SharesAt(t) = sh
    BY <1>1 DEF SharesAt, ProfileLocks
  <2>2. LocksAt(t) = ex
    BY <1>1 DEF LocksAt
  <2> QED
    BY <2>1, <2>2
<1>4. /\ sh \subseteq Row /\ ex \subseteq Row /\ sh \subseteq SiteRows /\ ex \subseteq IdentityRows
  <2>1. \A p \in PlayersOf(loc[t].uid) : /\ Player(p) \in Row /\ Identity(p) \in Row
                                         /\ Player(p) \in SiteRows /\ Identity(p) \in IdentityRows
    BY <1>2, KeysInRow, OfKind
  <2> HIDE DEF new
  <2> QED
    BY <1>2, <2>1
<1>5. Statement(t, sh, ex, w)
  BY <1>3 DEF LoginProfiles
<1>6. Rows(w) /\ DOMAIN w = ex /\ \A r \in ex : w[r] = "active"
  <2>1. \A p \in new : Identity(p) \in Row /\ Values(Identity(p)) = IdentityState
    BY <1>2, KeysInRow, KeyValues
  <2> HIDE DEF new
  <2> QED
    BY <2>1 DEF Rows, IdentityState
<1>7. loc' = [loc EXCEPT ![t].profiles = mine \cup new] /\ Goto(t, "bind")
  BY DEF LoginProfiles
<1>8. DOMAIN pc' = Tx /\ pc'[t] = "bind" /\ \A o \in Tx \ {t} : pc'[o] = pc[o]
  BY <1>1, <1>7, GotoEffect DEF LocalTypeOK
<1>9. /\ LocalStep(t) /\ loc'[t].uid = loc[t].uid /\ loc'[t].identity = loc[t].identity
      /\ loc'[t].profiles = mine \cup new
  <2>1. mine \cup new \in SUBSET Pid
    BY <1>2
  <2> HIDE DEF mine, new
  <2>2. loc[t] \in Local /\ [loc[t] EXCEPT !.profiles = mine \cup new] \in Local
    <3>1. loc[t] \in Local
      BY <1>1 DEF LocalTypeOK
    <3> QED
      BY <2>1, <3>1 DEF Local
  <2>3. /\ loc' \in [Tx -> Local] /\ loc'[t] = [loc[t] EXCEPT !.profiles = mine \cup new]
        /\ \A o \in Tx \ {t} : loc'[o] = loc[o]
    BY <1>1, <1>7, <2>2 DEF LocalTypeOK
  <2>4. /\ loc'[t].uid = loc[t].uid /\ loc'[t].identity = loc[t].identity
        /\ loc'[t].profiles = mine \cup new
    BY <2>2, <2>3 DEF Local
  <2> QED
    BY <1>1, <1>8, <2>3, <2>4 DEF LocalStep, LocalTypeOK
<1>10. Moves(t, sh, ex, w)
  <2> HIDE DEF sh, ex, w
  <2> QED
    BY <1>1, <1>4, <1>5, <1>6, <1>9, StatementMoves
<1>11. LockOrder(t)'
  <2>1. /\ (ex \cup DOMAIN w) \cap SiteRows = {} /\ sh \cap SubjectRows = {}
        /\ (sh \cup ex \cup DOMAIN w) \cap SessionRows = {}
    <3> HIDE DEF sh, ex, w
    <3> QED
      BY <1>4, <1>6, Kinds
  <2>2. Onward(t) /\ pc'[t] \notin BeforeSubject \cup BeforeToken \cup BeforeIdentity
    BY <1>1, <1>8 DEF Onward, BeforeSubject, BeforeToken, BeforeIdentity, BeforeSession
  <2> HIDE DEF sh, ex, w
  <2> QED
    BY <1>1, <1>10, <2>1, <2>2, LockOrderMoves DEF Onward, KnowsMore
<1>12. /\ \A u \in Uid : Subject(u) \notin DOMAIN w
       /\ \A h \in Hash : Token(h) \notin DOMAIN w
       /\ \A v \in Server : Session(v) \notin DOMAIN w
       /\ DOMAIN w \cap TokenRows = {}
  <2> HIDE DEF ex, w
  <2> QED
    BY <1>4, <1>6, Kinds, OfKind
<1>13. HasWritten(t)'
  <2> HIDE DEF sh, ex, w
  <2> QED
    BY <1>1, <1>8, <1>10, <1>12, HasWrittenMoves DEF KnowsMore
<1>14. ASSUME NEW q \in loc'[t].profiles
       PROVE  ProfileRead(t, q)'
  <2>1. q \in PlayersOf(loc[t].uid) /\ q \in Pid /\ (q \in new \/ Active(q))
    BY <1>2, <1>9, <1>14
  <2>2. /\ Player(q) \in sh /\ db[Player(q)] # NoRow /\ db[Player(q)].owner = loc[t].uid
    BY <2>1 DEF PlayersOf, Exists
  <2>3. Player(q) \in DOMAIN seen'[t] /\ seen'[t][Player(q)] = db[Player(q)]
    <3> HIDE DEF sh, ex, w
    <3> QED
      BY <1>10, <2>2 DEF Moves
  <2>4. NextView(t, Identity(q)) = "active"
    <3>1. CASE Identity(q) \in DOMAIN w
      <4>1. w[Identity(q)] = "active"
        BY <1>6, <3>1
      <4> HIDE DEF w, sh, ex
      <4> QED
        BY <1>10, <3>1, <4>1 DEF Moves, NextView
    <3>2. CASE Identity(q) \notin DOMAIN w
      <4>1. Active(q)
        BY <1>6, <2>1, <3>2
      <4> HIDE DEF w, sh, ex
      <4> QED
        BY <1>1, <1>10, <2>1, <3>2, <4>1 DEF Moves, NextView, Active, WritesOf
    <3> QED
      BY <3>1, <3>2
  <2> QED
    BY <1>9, <2>1, <2>2, <2>3, <2>4 DEF ProfileRead, NextView, View
<1> HIDE DEF sh, ex, w
<1> QED
  BY <1>1, <1>8, <1>9, <1>10, <1>11, <1>12, <1>13, <1>14, LoginMoves

LEMMA BindLoginMore ==
    ASSUME SharedAuthAssumption, Strong, Inductive', NEW t \in Tx, BindLogin(t)
    PROVE  Strong'
<1> DEFINE login == call[t].login
           profiles == loc[t].profiles
           Named(p) == UniquePlayerName(login, p) /\ db[Player(p)].owner = loc[t].uid
<1>1. /\ pc[t] = "bind" /\ LocalTypeOK /\ Knows(t) /\ Inductive /\ KnowsMore(t)
      /\ Op(t) = "authenticate" /\ GateRead(t) /\ UNCHANGED store /\ UNCHANGED local
      /\ call' = call /\ now' = now /\ db' = db /\ seen' = seen /\ excl' = excl /\ buf' = buf
  BY StrongParts, Parts DEF BindLogin, Knows, Route, Outside, local, store
<1>2. \A q \in profiles : ProfileRead(t, q) /\ q \in Pid /\ q # None
  BY <1>1 DEF KnowsMore, LoginRead, ProfileRead, SharedAuthAssumption
<1>3. CASE Goto(t, "fail") /\ UNCHANGED loc
  <2>1. LocalStep(t) /\ pc'[t] = "fail" /\ loc' = loc
    BY <1>1, <1>3, GotoStep DEF local
  <2>2. KnowsMore(t)'
    BY <1>1, <2>1, FailKnowsMore
  <2> QED
    BY <1>1, <2>1, <2>2, LeavesOthers, OneMovesOn
<1>4. ASSUME NEW p \in Pid \cup {None}, Goto(t, "issue"),
             loc' = [loc EXCEPT ![t].profiles = {}, ![t].identity = p],
             p # None => p \in profiles,
             login \in Name => p # None /\ db[Player(p)].name = login
      PROVE  Strong'
  <2>1. DOMAIN pc' = Tx /\ pc'[t] = "issue" /\ \A o \in Tx \ {t} : pc'[o] = pc[o]
    BY <1>1, <1>4, GotoEffect DEF LocalTypeOK
  <2>2. LocalStep(t) /\ loc'[t].uid = loc[t].uid /\ loc'[t].identity = p
    <3> DEFINE l == [loc[t] EXCEPT !.profiles = {}, !.identity = p]
    <3>1. loc \in [Tx -> Local] /\ loc[t] \in Local
      BY <1>1 DEF LocalTypeOK
    <3>2. l \in Local /\ l.uid = loc[t].uid /\ l.identity = p
      BY <1>4, <3>1 DEF Local
    <3>3. loc' = [loc EXCEPT ![t] = l]
      BY <1>4, <3>1 DEF Local
    <3> HIDE DEF l
    <3> QED
      BY <1>1, <2>1, <3>1, <3>2, <3>3 DEF LocalStep, LocalTypeOK
  <2>3. Moves(t, {}, {}, NoWrites)
    BY <1>1, <2>2, ReadMoves
  <2>4. LockOrder(t)'
    <3>1. Onward(t)
      BY <1>1, <2>1 DEF Onward, BeforeSubject, BeforeToken, BeforeIdentity, BeforeSession
    <3> QED
      BY <1>1, <2>3, <3>1, LockOrderSite DEF KnowsMore
  <2>5. HasWritten(t)'
    BY <1>1, <2>1, <2>3, RowsNone, HasWrittenDrops DEF KnowsMore
  <2>6. LoginRead(t)'
    <3>1. /\ DOMAIN buf'[t] \cap TokenRows' = {} /\ UserRead(t)'
          /\ seen'[t][User(loc'[t].uid)].password = call'[t].password
      BY <1>1, <2>2, <2>3, RowsNone, LoginReadMoves DEF KnowsMore
    <3>2. p # None => ProfileRead(t, p) /\ ProfileRead(t, loc[t].identity)'
      BY <1>1, <1>2, <1>4, <2>2 DEF ProfileRead, View
    <3>3. p # None => seen[t][Player(p)] = db[Player(p)]
      BY <1>1, <3>2 DEF ProfileRead, Inductive, StoreInv, SeenIsCurrent
    <3> QED
      BY <1>1, <1>4, <2>1, <2>2, <3>1, <3>2, <3>3 DEF LoginRead, Op
  <2>7. BindingRead(t)' /\ RefreshWrites(t)'
    BY <1>1, NoBinding DEF Authorizes
  <2> QED
    BY <2>3, <2>4, <2>5, <2>6, <2>7, MovesOn
<1>5. CASE /\ login \in Email
           /\ loc' = [loc EXCEPT ![t].profiles = {},
                         ![t].identity = IF \E p \in profiles : profiles = {p}
                                         THEN CHOOSE p \in profiles : TRUE ELSE None]
           /\ Goto(t, "issue")
  <2> DEFINE p == IF \E q \in profiles : profiles = {q} THEN CHOOSE q \in profiles : TRUE ELSE None
  <2>1. p \in Pid \cup {None} /\ (p # None => p \in profiles)
    <3>1. CASE \E q \in profiles : profiles = {q}
      <4>1. (CHOOSE q \in profiles : TRUE) \in profiles
        BY <3>1
      <4> QED
        BY <1>2, <3>1, <4>1
    <3> QED
      BY <3>1
  <2>2. login \notin Name
    BY <1>5 DEF SharedAuthAssumption
  <2>3. loc' = [loc EXCEPT ![t].profiles = {}, ![t].identity = p]
    BY <1>5
  <2> HIDE DEF p
  <2> QED
    BY <1>4, <1>5, <2>1, <2>2, <2>3
<1>6. CASE /\ \E p \in profiles : /\ Named(p)
                                  /\ loc' = [loc EXCEPT ![t].profiles = {}, ![t].identity = p]
           /\ Goto(t, "issue")
  <2>1. PICK p \in profiles : Named(p) /\ loc' = [loc EXCEPT ![t].profiles = {}, ![t].identity = p]
    BY <1>6
  <2>2. db[Player(p)].name = login
    BY <2>1 DEF UniquePlayerName
  <2> QED
    BY <1>2, <1>4, <1>6, <2>1, <2>2
<1> QED
  BY <1>3, <1>5, <1>6 DEF BindLogin

LEMMA BumpMore ==
    ASSUME SharedAuthAssumption, Strong, Inductive', NEW t \in Tx, Bump(t)
    PROVE  Strong'
<1> DEFINE u == loc[t].uid
           s == Subject(u)
           w == Put(s, NextGeneration(u))
<1>1. /\ pc[t] = "bump" /\ LocalTypeOK /\ Knows(t) /\ Inductive /\ KnowsMore(t) /\ StoreTypeOK
      /\ Op(t) = "signout" /\ u \in Uid /\ GateRead(t) /\ UNCHANGED <<local, loc>>
      /\ UNCHANGED local /\ call' = call /\ now' = now
  BY StrongParts, Parts DEF Bump, Knows, Route, Arguments, Outside, local
<1>2. LocksAt(t) = {s} /\ {s} \subseteq Row /\ {s} \subseteq SubjectRows
  BY <1>1, KeysInRow, OfKind DEF LocksAt, SubjectLock
<1>3. CASE Statement(t, {}, {s}, w) /\ Goto(t, "commit")
  <2>1. /\ Rows(w) /\ DOMAIN w = {s} /\ w[s] = NextGeneration(u)
    <3>1. s \in Row /\ NextGeneration(u) \in Values(s) \cup {NoRow}
      BY <1>1, <1>2, NextGenerationType, KeyValues
    <3> HIDE DEF s, u
    <3> QED
      BY <3>1, RowsPut
  <2>2. db[s] = NoRow \/ w[s] > db[s]
    <3>1. db[s] = NoRow \/ db[s] \in Nat \ {0}
      BY <1>1, <1>2, Stores, KeyValues
    <3> QED
      BY <2>1, <3>1 DEF NextGeneration, Exists
  <2>3. LocalStep(t) /\ pc'[t] = "commit" /\ loc' = loc
    BY <1>1, <1>3, GotoStep
  <2>4. \A v \in Uid : Subject(v) \in DOMAIN w => db[Subject(v)] = NoRow \/ w[Subject(v)] > db[Subject(v)]
    BY <2>1, <2>2, KeysOne
  <2>5. Subject(loc'[t].uid) \in DOMAIN w
    BY <2>1, <2>3
  <2> HIDE DEF w, s, u
  <2>6. Moves(t, {}, {s}, w)
    BY <1>1, <1>2, <1>3, <2>1, <2>3, StatementMoves
  <2>7. LockOrder(t)'
    <3>1. Onward(t) /\ pc'[t] \notin BeforeSubject /\ {s} \cup DOMAIN w \subseteq SubjectRows
      BY <1>1, <1>2, <2>1, <2>3
      DEF Onward, BeforeSubject, BeforeToken, BeforeIdentity, BeforeSession
    <3> QED
      BY <1>1, <2>6, <3>1, LockOrderSubject DEF KnowsMore
  <2>8. /\ \A h \in Hash : Token(h) \notin DOMAIN w
        /\ \A v \in Server : Session(v) \notin DOMAIN w
        /\ DOMAIN w \cap TokenRows = {}
    BY <1>2, <2>1, Kinds, OfKind
  <2>9. HasWritten(t)'
    BY <1>1, <2>3, <2>4, <2>5, <2>6, <2>8, HasWrittenMoves DEF KnowsMore
  <2> QED
    BY <1>1, <2>3, <2>6, <2>7, <2>8, <2>9, LoginMoves
<1>4. CASE Goto(t, "fail") /\ UNCHANGED store
  <2>1. LocalStep(t) /\ pc'[t] = "fail" /\ loc' = loc
    BY <1>1, <1>4, GotoStep
  <2>2. KnowsMore(t)'
    BY <1>1, <1>4, <2>1, FailKnowsMore
  <2> QED
    BY <1>1, <1>4, <2>1, <2>2, LeavesOthers, OneMovesOn
<1> QED
  BY <1>2, <1>3, <1>4 DEF Bump

-----------------------------------------------------------------------------
(* Issuing a token.                                                        *)

\* The subject whose generation is issued is locked, and the identity is active.
LEMMA NewTokenIssued ==
    ASSUME SharedAuthAssumption, Strong, NEW t \in Tx, pc[t] = "issue"
    PROVE  Issued(t, NewToken(t))
<1>1. /\ Inductive /\ LocalTypeOK /\ Knows(t) /\ KnowsMore(t)
      /\ Op(t) \in {"authenticate", "refresh"}
  BY StrongParts, Parts DEF Knows, Route
<1>2. loc[t].uid \in Uid /\ Subject(loc[t].uid) \in DOMAIN seen[t]
  <2>1. CASE Op(t) = "refresh"
    BY <1>1, <2>1 DEF Knows, Authorizes, Unauthorized, Outside, UserRead, SubjectRead
  <2>2. CASE Op(t) = "authenticate"
    BY <1>1, <2>2 DEF Knows, Arguments, SubjectEnsured
  <2> QED
    BY <1>1, <2>1, <2>2
<1>3. Subject(loc[t].uid) \in excl[t]
  BY <1>1, <1>2, OfKind DEF KnowsMore, LockOrder
<1>4. loc[t].identity # None => View(t, Identity(loc[t].identity)) = "active"
  <2>1. CASE Op(t) = "refresh"
    <3>1. PlayerRead(t) /\ WritesOf(t)
      BY <1>1, <2>1 DEF Knows, Authorizes, Unauthorized, Outside
    <3> QED
      BY <3>1 DEF PlayerRead, Active, View, WritesOf
  <2>2. CASE Op(t) = "authenticate"
    BY <1>1, <2>2 DEF KnowsMore, LoginRead, ProfileRead
  <2> QED
    BY <1>1, <2>1, <2>2
<1> QED
  BY <1>3, <1>4 DEF NewToken, Issued, Generation

LEMMA IssueMore ==
    ASSUME SharedAuthAssumption, Strong, Inductive', NEW t \in Tx, Issue(t)
    PROVE  Strong'
<1>1. /\ pc[t] = "issue" /\ LocalTypeOK /\ Knows(t) /\ Inductive /\ KnowsMore(t)
      /\ Op(t) \in {"authenticate", "refresh"} /\ GateRead(t) /\ UNCHANGED <<local, loc>>
      /\ UNCHANGED local /\ call' = call /\ now' = now
  BY StrongParts, Parts DEF Issue, Knows, Route, Outside, local
<1>2. NewToken(t) \in TokenRow /\ Issued(t, NewToken(t)) /\ NewToken(t) # NoRow
  BY <1>1, NewTokenType, NewTokenIssued DEF SharedAuthAssumption
<1>3. CASE Goto(t, "fail") /\ UNCHANGED store
  <2>1. LocalStep(t) /\ pc'[t] = "fail" /\ loc' = loc
    BY <1>1, <1>3, GotoStep
  <2>2. KnowsMore(t)'
    BY <1>1, <1>3, <2>1, FailKnowsMore
  <2> QED
    BY <1>1, <1>3, <2>1, <2>2, LeavesOthers, OneMovesOn
<1>4. ASSUME NEW h \in Hash, h # loc[t].token, View(t, Token(h)) = NoRow, NEW old \in SUBSET Hash,
             Op(t) = "refresh" => old = {},
             Statement(t, {}, {}, Over(Put(Token(h), NewToken(t)), Drop({Token(v) : v \in old}))),
             Goto(t, "commit")
      PROVE  Strong'
  <2> DEFINE new == Token(h)
             D == {Token(v) : v \in old}
             w == Over(Put(new, NewToken(t)), Drop(D))
  <2>1. new \in Row /\ D \subseteq Row /\ new \in TokenRows /\ D \subseteq TokenRows
    BY <1>4, KeysInRow, OfKind
  <2>2. /\ Rows(w) /\ DOMAIN w = {new} \cup D /\ w[new] = NewToken(t)
        /\ \A r \in D \ {new} : w[r] = NoRow
    <3>1. /\ Rows(Put(new, NewToken(t))) /\ DOMAIN Put(new, NewToken(t)) = {new}
          /\ Put(new, NewToken(t))[new] = NewToken(t)
      <4>1. new \in Row /\ NewToken(t) \in Values(new) \cup {NoRow}
        BY <1>2, <2>1, KeyValues
      <4> HIDE DEF new
      <4> QED
        BY <4>1, RowsPut
    <3>2. Rows(Drop(D)) /\ DOMAIN Drop(D) = D /\ \A r \in D : Drop(D)[r] = NoRow
      <4> HIDE DEF D
      <4> QED
        BY <2>1, RowsDrop
    <3> DEFINE f == Put(new, NewToken(t))
               g == Drop(D)
    <3> HIDE DEF new, D, f, g
    <3>3. Rows(Over(f, g))
      BY <3>1, <3>2, RowsOver DEF f, g
    <3>4. DOMAIN f = {new} /\ DOMAIN g = D /\ f[new] = NewToken(t) /\ \A r \in D : g[r] = NoRow
      BY <3>1, <3>2 DEF f, g
    <3>5. /\ DOMAIN Over(f, g) = {new} \cup D /\ Over(f, g)[new] = NewToken(t)
          /\ \A r \in D \ {new} : Over(f, g)[r] = NoRow
      BY <3>4 DEF Over
    <3> QED
      BY <3>3, <3>5 DEF f, g
  <2>3. Statement(t, {}, {}, w)
    BY <1>4
  <2>4. LocalStep(t) /\ pc'[t] = "commit" /\ loc' = loc
    BY <1>1, <1>4, GotoStep
  <2>5. \A k : Token(k) = new => k = h
    BY DEF Token
  <2> HIDE DEF w, D
  <2>6. Moves(t, {}, {}, w)
    <3> HIDE DEF new
    <3> QED
      BY <1>1, <2>2, <2>3, <2>4, StatementMoves
  <2>7. DOMAIN w \subseteq TokenRows
    <3> HIDE DEF new
    <3> QED
      BY <2>1, <2>2
  <2>8. LockOrder(t)'
    <3>1. Onward(t) /\ pc'[t] \notin BeforeToken
      BY <1>1, <2>4 DEF Onward, BeforeSubject, BeforeToken, BeforeIdentity, BeforeSession
    <3> QED
      BY <1>1, <2>6, <2>7, <3>1, LockOrderToken DEF KnowsMore
  <2>9. new \notin DOMAIN buf[t] /\ db[new] = NoRow
    <3>1. CASE Op(t) = "refresh"
      <4>1. DOMAIN buf[t] = {Token(loc[t].token)}
        BY <1>1, <3>1 DEF KnowsMore, RefreshWrites
      <4> QED
        BY <1>4, <2>5, <4>1 DEF View
    <3>2. CASE Op(t) = "authenticate"
      <4>1. DOMAIN buf[t] \cap TokenRows = {}
        BY <1>1, <3>2 DEF KnowsMore, LoginRead
      <4> QED
        BY <1>4, <2>1, <4>1 DEF View
    <3> QED
      BY <1>1, <3>1, <3>2
  <2>10. IssuedNext(t, NewToken(t))
    <3>1. NewToken(t).owner \in Uid /\ NewToken(t).identity \in Pid \cup {None}
      BY <1>2 DEF TokenRow
    <3>2. \A r \in SubjectRows \cup IdentityRows : r \notin DOMAIN w
      BY <2>7, Kinds
    <3>3. \A r \in SubjectRows \cup IdentityRows : NextView(t, r) = View(t, r)
      BY <2>6, <3>2 DEF Moves, NextView, View
    <3>4. Subject(NewToken(t).owner) \in excl'[t]
      BY <1>2, <2>6 DEF Issued, Moves
    <3> QED
      BY <1>2, <3>1, <3>3, <3>4, OfKind DEF Issued, IssuedNext
  <2>11. HasWritten(t)'
    <3>1. /\ \A u \in Uid : Subject(u) \notin DOMAIN w
          /\ \A v \in Server : Session(v) \notin DOMAIN w
      BY <2>7, Kinds, OfKind
    <3>2. \A k \in Hash : Token(k) \in DOMAIN w /\ w[Token(k)] # NoRow => Token(k) = new
      <4> HIDE DEF new
      <4> QED
        BY <2>2
    <3>3. \A k \in Hash : Token(k) \in DOMAIN w /\ w[Token(k)] # NoRow =>
              pc'[t] \in {"commit", "fail"} /\ db[Token(k)] = NoRow /\ IssuedNext(t, w[Token(k)])
      <4> HIDE DEF new
      <4> QED
        BY <2>2, <2>4, <2>9, <2>10, <3>2
    <3> QED
      BY <1>1, <2>4, <2>6, <3>1, <3>3, HasWrittenMoves DEF KnowsMore
  <2>12. CASE Op(t) = "authenticate"
    <3>1. LoginRead(t)'
      <4>1. UserRead(t)' /\ seen'[t][User(loc'[t].uid)].password = call'[t].password
        <5>1. UserRead(t) /\ seen[t][User(loc[t].uid)].password = call[t].password
          BY <1>1, <2>12 DEF KnowsMore, LoginRead
        <5> QED
          BY <1>1, <2>4, <2>6, <5>1 DEF Moves, UserRead, Allowed
      <4>2. loc[t].identity # None => ProfileRead(t, loc[t].identity)
        BY <1>1, <2>12 DEF KnowsMore, LoginRead
      <4>3. loc[t].identity # None => ProfileRead(t, loc[t].identity)'
        <5>1. \A p \in Pid : Identity(p) \notin DOMAIN w
          BY <2>7, Kinds, OfKind
        <5> QED
          BY <2>4, <2>6, <4>2, <5>1 DEF Moves, ProfileRead, View
      <4>4. call[t].login \in Name =>
                loc[t].identity # None /\ seen'[t][Player(loc[t].identity)].name = call[t].login
        <5>1. call[t].login \in Name =>
                loc[t].identity # None /\ seen[t][Player(loc[t].identity)].name = call[t].login
          BY <1>1, <2>12 DEF KnowsMore, LoginRead
        <5> QED
          BY <2>6, <4>2, <5>1 DEF Moves, ProfileRead
      <4> QED
        BY <1>1, <2>4, <2>12, <4>1, <4>3, <4>4 DEF LoginRead, Op
    <3>2. BindingRead(t)' /\ RefreshWrites(t)'
      BY <1>1, <2>12, NoBinding DEF Authorizes
    <3> QED
      BY <2>6, <2>8, <2>11, <3>1, <3>2, MovesOn
  <2>13. CASE Op(t) = "refresh"
    <3> DEFINE was == Token(loc[t].token)
    <3>1. /\ TokenRead(t) /\ was \in DOMAIN seen[t] /\ loc[t].token \in Hash
          /\ SubjectRead(t) /\ WritesOf(t) /\ loc[t].uid \in Uid
      BY <1>1, <2>13 DEF Knows, Authorizes, Unauthorized, Outside, TokenRead, UserRead
    <3>2. seen'[t][was] = seen[t][was] /\ Bound(t)' = Bound(t) /\ loc[t].identity = Bound(t)
      BY <1>1, <2>4, <2>6, <2>13, <3>1 DEF Moves, Bound, KnowsMore, BindingRead
    <3>3. LoginRead(t)' /\ BindingRead(t)'
      BY <1>1, <2>4, <2>13, NoLogin DEF BindingRead, Op, Authorizes
    <3>4. DOMAIN buf[t] = {was} /\ buf[t][was] = NoRow
      BY <1>1, <2>13 DEF KnowsMore, RefreshWrites
    <3>5. D = {}
      BY <1>4, <2>13 DEF D
    <3>6. DOMAIN buf'[t] = {was, new} /\ buf'[t][new] = NewToken(t)
      <4> HIDE DEF was, new
      <4> QED
        BY <2>2, <2>6, <3>4, <3>5 DEF Moves
    <3>7. buf'[t][was] = NoRow
      <4>1. was \notin DOMAIN w
        BY <1>4, <2>2, <2>5, <3>5
      <4> QED
        BY <2>6, <3>4, <3>6, <4>1 DEF Moves
    <3>8. Generation(t) = seen[t][was].generation
      <4>1. Subject(loc[t].uid) \notin DOMAIN buf[t]
        BY <1>1, <2>13, <3>1 DEF WritesOf, Authorizes
      <4>2. Generation(t) = seen[t][Subject(loc[t].uid)]
        BY <1>1, <3>1, <4>1 DEF Generation, View, SubjectRead, Inductive, StoreInv, SeenIsCurrent
      <4> QED
        BY <3>1, <4>2 DEF TokenRead
    <3>9. /\ NewToken(t).owner = loc[t].uid /\ NewToken(t).client = seen[t][was].client
          /\ NewToken(t).generation = seen[t][was].generation
          /\ NewToken(t).identity = Bound(t)
      BY <2>13, <3>2, <3>8 DEF NewToken
    <3>10. RefreshWrites(t)'
      <4>1. h \in Hash \ {loc'[t].token}
        BY <1>4, <2>4
      <4> QED
        BY <1>1, <1>2, <2>4, <3>2, <3>6, <3>7, <3>9, <4>1 DEF RefreshWrites, Op
    <3> QED
      BY <2>6, <2>8, <2>11, <3>3, <3>10, MovesOn
  <2> QED
    BY <1>1, <2>12, <2>13
<1>5. \A old \in IF Op(t) = "authenticate" THEN Victims(t) ELSE {{}} :
          old \in SUBSET Hash /\ (Op(t) = "refresh" => old = {})
  BY DEF Victims, Oldest
<1>6. \A h \in FreshHashes(t) : h \in Hash /\ h # loc[t].token /\ View(t, Token(h)) = NoRow
  BY DEF FreshHashes
<1> QED
  BY <1>3, <1>4, <1>5, <1>6 DEF Issue

-----------------------------------------------------------------------------
(* Join and HasJoined.                                                     *)

\* A statement of a join or a hasJoined on its session.
LEMMA SessionMoves ==
    ASSUME Strong, Inductive', NEW t \in Tx, NEW sh, NEW ex, NEW w, Moves(t, sh, ex, w),
           sh \cup ex \cup DOMAIN w \subseteq SessionRows, GateRead(t),
           Op(t) \in {"join", "hasJoined"}, pc[t] \notin {"commit", "fail"},
           \A s \in Server : Session(s) \in DOMAIN w =>
               db[Session(s)] = NoRow \/ db[Session(s)].expires <= now,
           LockOrder(t)', BindingRead(t)'
    PROVE  Strong'
<1>1. Inductive /\ KnowsMore(t) /\ call' = call
  BY StrongParts DEF Moves
<1>2. /\ \A u \in Uid : Subject(u) \notin DOMAIN w
      /\ \A h \in Hash : Token(h) \notin DOMAIN w
  BY Kinds, OfKind
<1>3. HasWritten(t)'
  BY <1>1, <1>2, HasWrittenMoves DEF KnowsMore
<1>4. LoginRead(t)' /\ RefreshWrites(t)'
  BY <1>1, NoLogin DEF RefreshWrites, Op
<1> QED
  BY <1>3, <1>4, MovesOn

\* A join knows nothing of its token that it needs again.
LEMMA JoinBinding ==
    ASSUME NEW t \in Tx, call' = call, Op(t) = "join",
           pc'[t] \notin {"checkExpiry", "select", "checkName", "lockSession"}
    PROVE  BindingRead(t)'
BY DEF BindingRead, Op

LEMMA ClearSessionMore ==
    ASSUME SharedAuthAssumption, Strong, Inductive', NEW t \in Tx, ClearSession(t)
    PROVE  Strong'
<1> DEFINE s == Session(call[t].server)
           w == Drop({s})
<1>1. /\ pc[t] = "clearSession" /\ LocalTypeOK /\ Knows(t) /\ Inductive /\ KnowsMore(t)
      /\ Op(t) = "join" /\ GateRead(t) /\ UNCHANGED <<local, loc>>
      /\ UNCHANGED local /\ call' = call /\ now' = now
  BY StrongParts, Parts DEF ClearSession, Knows, Route, Outside, local
<1>2. call[t].server \in Server /\ {s} \subseteq Row /\ {s} \subseteq SessionRows
  BY <1>1, SessionKey, OfKind
<1>3. DOMAIN seen[t] \cap SessionRows = {}
  BY <1>1 DEF KnowsMore, LockOrder, BeforeSession
<1>4. CASE Goto(t, "fail") /\ UNCHANGED store
  <2>1. LocalStep(t) /\ pc'[t] = "fail" /\ loc' = loc
    BY <1>1, <1>4, GotoStep
  <2>2. KnowsMore(t)'
    BY <1>1, <1>4, <2>1, FailKnowsMore
  <2> QED
    BY <1>1, <1>4, <2>1, <2>2, LeavesOthers, OneMovesOn
<1>5. CASE Goto(t, "insertSession") /\ UNCHANGED store
  <2>1. LocalStep(t) /\ pc'[t] = "insertSession" /\ loc' = loc
    BY <1>1, <1>5, GotoStep
  <2>2. Moves(t, {}, {}, NoWrites)
    BY <1>1, <1>5, <2>1, ReadMoves
  <2>3. LockOrder(t)'
    <3>1. seen' = seen /\ excl' = excl
      BY <1>5 DEF store
    <3>2. \A v \in Server : Session(v) \notin DOMAIN seen[t]
      BY <1>3, OfKind
    <3> QED
      BY <1>1, <2>1, <3>1, <3>2
      DEF KnowsMore, LockOrder, BeforeSubject, BeforeToken, BeforeIdentity, BeforeSession,
          SiteRows, SubjectRows
  <2> QED
    BY <1>1, <2>1, <2>2, <2>3, RowsNone, JoinBinding, SessionMoves
<1>6. CASE /\ SessionExpired(call[t].server) /\ Statement(t, {}, {}, w)
           /\ Goto(t, "insertSession")
  <2>1. LocalStep(t) /\ pc'[t] = "insertSession" /\ loc' = loc
    BY <1>1, <1>6, GotoStep
  <2>2. Rows(w) /\ DOMAIN w = {s} /\ w[s] = NoRow
    <3> HIDE DEF s
    <3> QED
      BY <1>2, RowsDrop
  <2>3. db[s].expires <= now
    BY <1>6 DEF SessionExpired
  <2>4. \A v \in Server : Session(v) = s => v = call[t].server
    BY DEF Session
  <2> HIDE DEF s, w
  <2>5. Moves(t, {}, {}, w)
    BY <1>1, <1>6, <2>1, <2>2, StatementMoves
  <2>6. LockOrder(t)'
    <3>1. excl'[t] \cap SiteRows' = {} /\ DOMAIN seen'[t] \cap SubjectRows' \subseteq excl'[t]
      <4>1. SiteRows' = SiteRows /\ SubjectRows' = SubjectRows
        BY DEF SiteRows, SubjectRows
      <4>2. /\ excl'[t] \subseteq excl[t] \cup {s} /\ excl[t] \subseteq excl'[t]
            /\ DOMAIN seen'[t] \subseteq DOMAIN seen[t] \cup excl'[t]
        BY <2>2, <2>5 DEF Moves
      <4>3. excl[t] \cap SiteRows = {} /\ DOMAIN seen[t] \cap SubjectRows \subseteq excl[t]
        BY <1>1 DEF KnowsMore, LockOrder
      <4>4. s \notin SiteRows
        BY <1>2, Kinds
      <4> QED
        BY <4>1, <4>2, <4>3, <4>4
    <3>2. ASSUME NEW v \in Server, Session(v) \in DOMAIN seen'[t]
          PROVE  v = call'[t].server /\ Session(v) \in DOMAIN buf'[t] /\ buf'[t][Session(v)] = NoRow
      <4>1. Session(v) \notin DOMAIN seen[t]
        BY <1>3, OfKind
      <4>2. Session(v) = s
        BY <2>2, <2>5, <3>2, <4>1 DEF Moves
      <4> QED
        BY <1>1, <2>2, <2>4, <2>5, <4>2 DEF Moves
    <3> QED
      BY <2>1, <3>1, <3>2
      DEF LockOrder, BeforeSubject, BeforeToken, BeforeIdentity, BeforeSession
  <2>7. \A v \in Server : Session(v) \in DOMAIN w => db[Session(v)].expires <= now
    BY <2>2, <2>3
  <2>8. {} \cup {} \cup DOMAIN w \subseteq SessionRows
    BY <1>2, <2>2
  <2>9. BindingRead(t)'
    BY <1>1, <2>1, JoinBinding
  <2> QED
    BY <1>1, <2>1, <2>5, <2>6, <2>7, <2>8, <2>9, SessionMoves
<1> QED
  BY <1>4, <1>5, <1>6 DEF ClearSession

LEMMA InsertSessionMore ==
    ASSUME SharedAuthAssumption, Strong, Inductive', NEW t \in Tx, InsertSession(t)
    PROVE  Strong'
<1> DEFINE s == Session(call[t].server)
           w == Put(s, NewSession(t))
<1>1. /\ pc[t] = "insertSession" /\ LocalTypeOK /\ Knows(t) /\ Inductive /\ KnowsMore(t)
      /\ Op(t) = "join" /\ Authorizes(t) /\ GateRead(t) /\ UNCHANGED <<local, loc>>
      /\ UNCHANGED local /\ call' = call /\ now' = now
  BY StrongParts, Parts DEF InsertSession, Knows, Route, Outside, local, Authorizes
<1>2. call[t].server \in Server /\ s \in Row /\ {s} \subseteq SessionRows
  BY <1>1, SessionKey, OfKind
<1>3. SharesAt(t) \subseteq {s} /\ LocksAt(t) \subseteq {s}
  BY <1>1 DEF SharesAt, LocksAt, SessionLock
<1>4. CASE ~Taken(t) /\ Statement(t, {}, LocksAt(t), w) /\ Goto(t, "commit")
  <2>1. LocalStep(t) /\ pc'[t] = "commit" /\ loc' = loc
    BY <1>1, <1>4, GotoStep
  <2>2. Rows(w) /\ DOMAIN w = {s}
    <3>1. loc[t].token \in Hash
      BY <1>1, IsAuthorized DEF Unauthorized, Outside, Authorized, TokenRead
    <3>2. call[t].ip \in Ip
      BY <1>1 DEF Knows, Arguments, WellFormed, Op
    <3>3. now + SessionTTL \in Nat
      BY <1>1 DEF LocalTypeOK, SharedAuthAssumption
    <3>4. NewSession(t) \in Values(s) \cup {NoRow}
      <4>1. NewSession(t) \in SessionRow
        BY <3>1, <3>2, <3>3 DEF NewSession, SessionRow
      <4>2. Values(s) = SessionRow
        BY KeyValues
      <4> HIDE DEF s
      <4> QED
        BY <4>1, <4>2
    <3> HIDE DEF s
    <3> QED
      BY <1>2, <3>4, RowsPut
  <2>3. db[s] = NoRow \/ db[s].expires <= now
    <3>1. CASE s \in DOMAIN buf[t]
      <4>1. seen[t][s] = NoRow \/ seen[t][s].expires <= now
        BY <1>1, <1>2, <3>1 DEF KnowsMore, HasWritten
      <4> QED
        BY <1>1, <3>1, <4>1 DEF Inductive, StoreInv, SeenIsCurrent, WritesLocked
    <3>2. CASE s \notin DOMAIN buf[t]
      BY <1>4, <3>2 DEF Taken, View
    <3> QED
      BY <3>1, <3>2
  <2> HIDE DEF s, w
  <2>4. LocksAt(t) \subseteq Row
    BY <1>2, <1>3
  <2>5. Moves(t, {}, LocksAt(t), w)
    BY <1>1, <1>4, <2>1, <2>2, <2>4, StatementMoves
  <2>6. {} \cup LocksAt(t) \cup DOMAIN w \subseteq SessionRows
    BY <1>2, <1>3, <2>2
  <2>7. LockOrder(t)'
    <3>1. pc'[t] \notin BeforeSession
      BY <2>1 DEF BeforeSubject, BeforeToken, BeforeIdentity, BeforeSession
    <3> QED
      BY <1>1, <2>1, <2>5, <2>6, <3>1, LockOrderSession DEF KnowsMore
  <2>8. \A v \in Server : Session(v) \in DOMAIN w =>
            db[Session(v)] = NoRow \/ db[Session(v)].expires <= now
    BY <2>2, <2>3
  <2>9. BindingRead(t)'
    BY <1>1, <2>1, JoinBinding
  <2> QED
    BY <1>1, <2>5, <2>6, <2>7, <2>8, <2>9, SessionMoves
<1>5. CASE Statement(t, SharesAt(t), {}, NoWrites) /\ Goto(t, "compareSession")
  <2>1. LocalStep(t) /\ pc'[t] = "compareSession" /\ loc' = loc
    BY <1>1, <1>5, GotoStep
  <2>2. SharesAt(t) \subseteq Row /\ SharesAt(t) \cup {} \cup DOMAIN NoWrites \subseteq SessionRows
    BY <1>2, <1>3, RowsNone
  <2>3. Moves(t, SharesAt(t), {}, NoWrites)
    BY <1>1, <1>5, <2>1, <2>2, RowsNone, StatementMoves
  <2>4. LockOrder(t)'
    <3>1. pc'[t] \notin BeforeSession
      BY <2>1 DEF BeforeSubject, BeforeToken, BeforeIdentity, BeforeSession
    <3> QED
      BY <1>1, <2>1, <2>2, <2>3, <3>1, LockOrderSession DEF KnowsMore
  <2>5. BindingRead(t)'
    BY <1>1, <2>1, JoinBinding
  <2> QED
    BY <1>1, <2>2, <2>3, <2>4, <2>5, RowsNone, SessionMoves
<1> QED
  BY <1>4, <1>5 DEF InsertSession

LEMMA CompareSessionMore ==
    ASSUME SharedAuthAssumption, Strong, Inductive', NEW t \in Tx, CompareSession(t)
    PROVE  Strong'
<1> DEFINE s == Session(call[t].server)
           ok == Exists(s) /\ db[s].token = loc[t].token /\ db[s].ip = call[t].ip
<1>1. /\ pc[t] = "compareSession" /\ LocalTypeOK /\ Knows(t) /\ Inductive /\ KnowsMore(t)
      /\ Op(t) = "join" /\ GateRead(t) /\ UNCHANGED <<local, loc>>
      /\ UNCHANGED local /\ call' = call /\ now' = now
  BY StrongParts, Parts DEF CompareSession, Knows, Route, Outside, local
<1>2. {s} \subseteq Row /\ {s} \subseteq SessionRows /\ LocksAt(t) = {s}
  BY <1>1, SessionKey, OfKind DEF LocksAt, SessionLock
<1>3. Statement(t, {}, {s}, NoWrites) /\ Check(t, ok, "commit")
  BY <1>2 DEF CompareSession
<1> HIDE DEF ok, s
<1>4. LocalStep(t) /\ pc'[t] \in {"commit", "fail"}
  BY <1>1, <1>3, CheckStep
<1>5. Moves(t, {}, {s}, NoWrites)
  BY <1>1, <1>2, <1>3, <1>4, RowsNone, StatementMoves
<1>6. {} \cup {s} \cup DOMAIN NoWrites \subseteq SessionRows
  BY <1>2, RowsNone
<1>7. LockOrder(t)'
  <2>1. pc'[t] \notin BeforeSession
    BY <1>4 DEF BeforeSubject, BeforeToken, BeforeIdentity, BeforeSession
  <2> QED
    BY <1>1, <1>4, <1>5, <1>6, <2>1, LockOrderSession DEF KnowsMore
<1>8. BindingRead(t)'
  BY <1>1, <1>4, JoinBinding
<1> QED
  BY <1>1, <1>5, <1>6, <1>7, <1>8, RowsNone, SessionMoves

LEMMA FindSessionMore ==
    ASSUME SharedAuthAssumption, Strong, Inductive', NEW t \in Tx, FindSession(t)
    PROVE  Strong'
<1> DEFINE s == Session(call[t].server)
           h == IF Exists(s) THEN db[s].token ELSE None
<1>1. /\ pc[t] = "findSession" /\ LocalTypeOK /\ StoreTypeOK /\ Knows(t) /\ Inductive
      /\ KnowsMore(t) /\ Op(t) = "hasJoined" /\ UNCHANGED store /\ UNCHANGED local
      /\ call' = call /\ now' = now
  BY StrongParts, Parts DEF FindSession, Knows, Route, local
<1>2. s \in Row /\ h \in Hash \cup {None}
  <2>1. s \in Row
    BY <1>1, SessionKey
  <2>2. Exists(s) => db[s] \in SessionRow
    BY <1>1, <2>1, Stores, KeyValues DEF Exists
  <2>3. Exists(s) => db[s].token \in Hash
    BY <2>2 DEF SessionRow
  <2> QED
    BY <2>1, <2>3
<1>3. Check(t, Exists(s), "findOwner") /\ loc' = [loc EXCEPT ![t].token = h]
  BY DEF FindSession
<1> HIDE DEF s, h
<1>4. /\ DOMAIN pc' = Tx /\ \A o \in Tx \ {t} : pc'[o] = pc[o]
      /\ pc'[t] \in {"findOwner", "fail"}
  BY <1>1, <1>3, CheckEffect DEF LocalTypeOK
<1>5. LocalStep(t)
  BY <1>1, <1>2, <1>3, <1>4 DEF LocalStep, LocalTypeOK, Local
<1>6. Moves(t, {}, {}, NoWrites)
  BY <1>1, <1>5, ReadMoves
<1>7. LockOrder(t)'
  <2>1. Onward(t)
    BY <1>1, <1>4 DEF Onward, BeforeSubject, BeforeToken, BeforeIdentity, BeforeSession
  <2> QED
    BY <1>1, <1>6, <2>1, LockOrderSite DEF KnowsMore
<1> QED
  BY <1>1, <1>4, <1>6, <1>7, EarlyMoves

LEMMA CheckNameMore ==
    ASSUME SharedAuthAssumption, Strong, Inductive', NEW t \in Tx, CheckName(t)
    PROVE  Strong'
<1> DEFINE p == loc[t].identity
           ok == p # None /\ UniquePlayerName(call[t].login, p)
<1>1. /\ pc[t] = "checkName" /\ LocalTypeOK /\ Knows(t) /\ Inductive /\ KnowsMore(t)
      /\ Op(t) = "hasJoined" /\ Authorizes(t) /\ UNCHANGED store /\ UNCHANGED local
      /\ call' = call /\ now' = now /\ seen' = seen
  BY StrongParts, Parts DEF CheckName, Knows, Route, Authorizes, local, store
<1>2. LocalStep(t) /\ loc' = loc /\ pc'[t] = IF ok THEN "lockSession" ELSE "fail"
  <2>1. Check(t, ok, "lockSession") /\ UNCHANGED <<local, loc>>
    BY DEF CheckName
  <2> HIDE DEF ok
  <2> QED
    BY <1>1, <2>1, CheckStep
<1>3. Moves(t, {}, {}, NoWrites)
  BY <1>1, <1>2, ReadMoves
<1>4. Onward(t) /\ pc'[t] \in {"lockSession", "fail"}
  BY <1>1, <1>2 DEF Onward, BeforeSubject, BeforeToken, BeforeIdentity, BeforeSession
<1>5. BindingRead(t)'
  <2>1. CASE ok
    <3>1. db[Player(p)].name = call[t].login
      BY <2>1 DEF UniquePlayerName
    <3>2. PlayerRead(t)
      BY <1>1, IsAuthorized DEF Unauthorized, Outside, Authorized
    <3>3. seen[t][Player(p)].name = call[t].login
      BY <1>1, <2>1, <3>1, <3>2 DEF PlayerRead, Inductive, StoreInv, SeenIsCurrent
    <3>4. seen[t][Token(loc[t].token)].identity = p
      BY <1>1 DEF KnowsMore, BindingRead
    <3> QED
      BY <1>1, <1>2, <2>1, <3>3, <3>4 DEF BindingRead, Op, Authorizes
  <2>2. CASE ~ok
    BY <1>1, <1>2, <2>2 DEF BindingRead, Op, Authorizes
  <2> QED
    BY <2>1, <2>2
<1> QED
  BY <1>1, <1>3, <1>4, <1>5, AuthorizedReads

LEMMA LockSessionMore ==
    ASSUME SharedAuthAssumption, Strong, Inductive', NEW t \in Tx, LockSession(t)
    PROVE  Strong'
<1> DEFINE s == Session(call[t].server)
           p == loc[t].identity
           ok == SessionAccepted(t, db[s])
<1>1. /\ pc[t] = "lockSession" /\ LocalTypeOK /\ Knows(t) /\ Inductive /\ KnowsMore(t)
      /\ Op(t) = "hasJoined" /\ Authorizes(t) /\ GateRead(t) /\ UNCHANGED <<local, loc>>
      /\ UNCHANGED local /\ call' = call /\ now' = now
  BY StrongParts, Parts DEF LockSession, Knows, Route, Outside, Authorizes, local
<1>2. /\ call[t].server \in Server /\ {s} \subseteq Row /\ {s} \subseteq SessionRows
      /\ SharesAt(t) = {s}
  BY <1>1, SessionKey, OfKind DEF SharesAt, SessionLock
<1>3. Statement(t, {s}, {}, NoWrites) /\ Check(t, ok, "commit")
  BY <1>2 DEF LockSession
<1>4. LocalStep(t) /\ loc' = loc /\ pc'[t] = IF ok THEN "commit" ELSE "fail"
  <2> HIDE DEF ok
  <2> QED
    BY <1>1, <1>3, CheckStep
<1>5. Moves(t, {s}, {}, NoWrites)
  <2> HIDE DEF s
  <2> QED
    BY <1>1, <1>2, <1>3, <1>4, RowsNone, StatementMoves
<1>6. {s} \cup {} \cup DOMAIN NoWrites \subseteq SessionRows
  BY <1>2, RowsNone
<1>7. LockOrder(t)'
  <2>1. pc'[t] \notin BeforeSession /\ pc'[t] # "insertSession"
    BY <1>4 DEF BeforeSubject, BeforeToken, BeforeIdentity, BeforeSession
  <2> HIDE DEF s
  <2> QED
    BY <1>1, <1>5, <1>6, <2>1, LockOrderSession DEF KnowsMore
<1>8. BindingRead(t)'
  <2>1. CASE ok
    <3>1. /\ p # None /\ seen[t][Player(p)].name = call[t].login
          /\ seen[t][Token(loc[t].token)].identity = p
      BY <1>1 DEF KnowsMore, BindingRead
    <3>2. TokenRead(t) /\ PlayerRead(t)
      BY <1>1, IsAuthorized DEF Unauthorized, Outside, Authorized
    <3>3. /\ seen'[t][Player(p)] = seen[t][Player(p)]
          /\ seen'[t][Token(loc[t].token)] = seen[t][Token(loc[t].token)]
      BY <1>5, <3>1, <3>2 DEF Moves, TokenRead, PlayerRead
    <3>4. db[s] # NoRow /\ db[s].token = loc[t].token /\ call[t].ip \in {None, db[s].ip}
      BY <2>1 DEF SessionAccepted
    <3>5. s \in DOMAIN seen'[t] /\ seen'[t][s] = db[s]
      BY <1>5, <3>4 DEF Moves
    <3>6. SessionRead(t)'
      BY <1>1, <1>2, <1>4, <3>4, <3>5 DEF SessionRead
    <3> QED
      BY <1>1, <1>4, <2>1, <3>1, <3>3, <3>6 DEF BindingRead, Op, Authorizes
  <2>2. CASE ~ok
    BY <1>1, <1>4, <2>2 DEF BindingRead, Op, Authorizes
  <2> QED
    BY <2>1, <2>2
<1> HIDE DEF s
<1> QED
  BY <1>1, <1>5, <1>6, <1>7, <1>8, RowsNone, SessionMoves

-----------------------------------------------------------------------------
(* CleanupExpired.                                                         *)

LEMMA DeleteTokensMore ==
    ASSUME SharedAuthAssumption, Strong, Inductive', NEW t \in Tx, DeleteTokens(t)
    PROVE  Strong'
<1>1. /\ pc[t] = "deleteTokens" /\ LocalTypeOK /\ Knows(t) /\ Inductive /\ KnowsMore(t)
      /\ Op(t) = "cleanup" /\ ~Authorizes(t) /\ GateRead(t) /\ UNCHANGED <<local, loc>>
      /\ UNCHANGED local /\ call' = call /\ now' = now
  BY StrongParts, Parts DEF DeleteTokens, Knows, Route, Outside, Authorizes, local
<1>2. PICK X \in OldestTokens : Statement(t, {}, {}, Drop({Token(h) : h \in X}))
  BY DEF DeleteTokens
<1> DEFINE S == {Token(h) : h \in X}
           w == Drop(S)
<1>3. S \subseteq Row /\ S \subseteq TokenRows
  <2>1. X \subseteq Hash
    BY DEF OldestTokens, Oldest, ExpiredTokens
  <2> QED
    BY <2>1, KeysInRow, OfKind
<1>4. Statement(t, {}, {}, w)
  BY <1>2
<1> HIDE DEF S
<1>5. Rows(w) /\ DOMAIN w = S /\ \A r \in DOMAIN w : w[r] = NoRow
  BY <1>3, RowsDrop
<1> HIDE DEF w
<1>6. LocalStep(t) /\ pc'[t] = "deleteSessions"
  BY <1>1, GotoStep DEF DeleteTokens
<1>7. Moves(t, {}, {}, w)
  BY <1>1, <1>4, <1>5, <1>6, StatementMoves
<1>8. LockOrder(t)'
  <2>1. Onward(t) /\ pc'[t] \notin BeforeToken
    BY <1>1, <1>6 DEF Onward, BeforeSubject, BeforeToken, BeforeIdentity, BeforeSession
  <2> QED
    BY <1>1, <1>3, <1>5, <1>7, <2>1, LockOrderToken DEF KnowsMore
<1>9. HasWritten(t)'
  BY <1>1, <1>3, <1>5, <1>7, HasWrittenDrops DEF KnowsMore
<1> QED
  BY <1>1, <1>7, <1>8, <1>9, NoLogin, NoBinding, MovesOn

LEMMA DeleteSessionsMore ==
    ASSUME SharedAuthAssumption, Strong, Inductive', NEW t \in Tx, DeleteSessions(t)
    PROVE  Strong'
<1>1. /\ pc[t] = "deleteSessions" /\ LocalTypeOK /\ Knows(t) /\ Inductive /\ KnowsMore(t)
      /\ Op(t) = "cleanup" /\ ~Authorizes(t) /\ GateRead(t) /\ UNCHANGED <<local, loc>>
      /\ UNCHANGED local /\ call' = call /\ now' = now
  BY StrongParts, Parts DEF DeleteSessions, Knows, Route, Outside, Authorizes, local
<1>2. PICK X \in OldestSessions : Statement(t, {}, {}, Drop({Session(s) : s \in X}))
  BY DEF DeleteSessions
<1> DEFINE S == {Session(s) : s \in X}
           w == Drop(S)
<1>3. X \subseteq Server /\ \A s \in X : db[Session(s)].expires <= now
  BY DEF OldestSessions, Oldest, ExpiredSessions, SessionExpired
<1>4. S \subseteq Row /\ S \subseteq SessionRows
  BY <1>3, KeysInRow, OfKind
<1>5. \A s \in Server : Session(s) \in S => db[Session(s)].expires <= now
  BY <1>3, KeysOne
<1>6. Statement(t, {}, {}, w)
  BY <1>2
<1> HIDE DEF S
<1>7. Rows(w) /\ DOMAIN w = S
  BY <1>4, RowsDrop
<1> HIDE DEF w
<1>8. LocalStep(t) /\ pc'[t] = "commit"
  BY <1>1, GotoStep DEF DeleteSessions
<1>9. Moves(t, {}, {}, w)
  BY <1>1, <1>6, <1>7, <1>8, StatementMoves
<1>10. LockOrder(t)'
  <2>1. pc'[t] \notin BeforeSession /\ {} \cup {} \cup DOMAIN w \subseteq SessionRows
    BY <1>4, <1>7, <1>8 DEF BeforeSubject, BeforeToken, BeforeIdentity, BeforeSession
  <2> QED
    BY <1>1, <1>8, <1>9, <2>1, LockOrderSession DEF KnowsMore
<1>11. HasWritten(t)'
  <2>1. /\ \A u \in Uid : Subject(u) \notin DOMAIN w
        /\ \A h \in Hash : Token(h) \notin DOMAIN w
    BY <1>4, <1>7, Kinds, OfKind
  <2> QED
    BY <1>1, <1>5, <1>7, <1>9, <2>1, HasWrittenMoves DEF KnowsMore
<1> QED
  BY <1>1, <1>9, <1>10, <1>11, NoLogin, NoBinding, MovesOn

-----------------------------------------------------------------------------
(* Failures and ends.                                                      *)

LEMMA FailsMore ==
    ASSUME Strong, Inductive', NEW t \in Tx, Goto(t, "fail"), pc[t] # "idle", UNCHANGED store,
           UNCHANGED <<local, loc>>
    PROVE  Strong'
<1>1. LocalStep(t) /\ pc'[t] = "fail" /\ call' = call /\ loc' = loc /\ now' = now
  BY StrongParts, Parts, GotoStep DEF local
<1> QED
  BY <1>1, FailKnowsMore, LeavesOthers, OneMovesOn

LEMMA SqlErrorMore ==
    ASSUME Strong, Inductive', NEW t \in Tx, SqlError(t)
    PROVE  Strong'
<1>1. UNCHANGED store /\ now' = now
  BY DEF SqlError
<1>2. CASE pc[t] \in {"resolve", "verify"} /\ Return(t)
  BY <1>1, <1>2, ReturnMore
<1>3. CASE pc[t] # "idle" /\ Goto(t, "fail") /\ UNCHANGED <<call, loc>>
  BY <1>1, <1>3, FailsMore DEF local
<1> QED
  BY <1>2, <1>3 DEF SqlError

LEMMA AbortVictimMore ==
    ASSUME Strong, Inductive', NEW t \in Tx, AbortVictim(t)
    PROVE  Strong'
<1>1. \E o : WaitsFor(t, o)
  BY DEF AbortVictim, Deadlock
<1>2. pc[t] # "idle"
  BY <1>1 DEF WaitsFor, SharesAt, LocksAt
<1> QED
  BY <1>2, FailsMore DEF AbortVictim

\* The end of a transaction, with its locks gone.
LEMMA ReleasedMore ==
    ASSUME Inductive, NEW t \in Tx, Release(t), Return(t), now' = now
    PROVE  OthersLeft(t) /\ KnowsMore(t)'
<1>1. LocalStep(t) /\ pc'[t] = "idle" /\ call'[t] = NoCall /\ loc'[t] = NoLocal
  BY Parts, ReturnStep
<1>2. DOMAIN seen = Tx /\ DOMAIN excl = Tx /\ DOMAIN buf = Tx
  BY Parts DEF StoreTypeOK, StoreShape
<1>3. /\ seen'[t] = NoWrites /\ excl'[t] = {} /\ buf'[t] = NoWrites
      /\ \A o \in Tx \ {t} : seen'[o] = seen[o] /\ excl'[o] = excl[o] /\ buf'[o] = buf[o]
  BY <1>2 DEF Release
<1>4. OthersLeft(t)
  BY <1>1, <1>3 DEF LocalStep, OthersLeft
<1>5. DOMAIN seen'[t] = {} /\ DOMAIN buf'[t] = {}
  BY <1>3, RowsNone
<1> QED
  BY <1>1, <1>3, <1>4, <1>5, IdleKnowsMore

LEMMA RollbackMore ==
    ASSUME Strong, Inductive', NEW t \in Tx, Rollback(t)
    PROVE  Strong'
<1>1. db' = db /\ now' = now /\ Release(t) /\ Return(t)
  BY DEF Rollback, RollbackTx
<1> QED
  BY <1>1, StrongParts, ReleasedMore, OneMovesOn

-----------------------------------------------------------------------------
(* COMMIT.                                                                 *)

\* The committed rows of a transaction.
LEMMA CommitRows ==
    ASSUME Inductive, NEW t \in Tx, Commit(t)
    PROVE  /\ DOMAIN db = Row
           /\ \A r \in Row : db'[r] = View(t, r)
           /\ \A r \in Row : r \notin DOMAIN buf[t] => db'[r] = db[r]
           /\ DOMAIN buf[t] \subseteq excl[t] /\ excl[t] \subseteq DOMAIN seen[t]
           /\ DOMAIN seen[t] \subseteq Row
           /\ \A r \in DOMAIN seen[t] : seen[t][r] = db[r]
<1>1. StoreTypeOK /\ StoreInv /\ CommitTx(t)
  BY Parts DEF Commit
<1>2. \A r \in Row : db'[r] = IF r \in DOMAIN buf[t] THEN buf[t][r] ELSE db[r]
  BY <1>1, CommitTypes
<1> QED
  BY <1>1, <1>2 DEF View, StoreInv, WritesLocked, SeenIsCurrent, StoreTypeOK, Rows

\* Subjects stay and their generations do not fall.
Grow == \A u \in Uid : LET r == Subject(u)
                       IN  Exists(r) => db'[r] # NoRow /\ db[r] <= db'[r]

LEMMA CommitGrows ==
    ASSUME SharedAuthAssumption, Strong, NEW t \in Tx, Commit(t)
    PROVE  Grow
<1>1. SUFFICES ASSUME NEW u \in Uid, Exists(Subject(u))
               PROVE  db'[Subject(u)] # NoRow /\ db[Subject(u)] <= db'[Subject(u)]
  BY DEF Grow
<1> DEFINE r == Subject(u)
<1>2. r \in Row /\ db[r] \in Nat
  BY <1>1, StrongParts, Parts, Stores, KeyValues, KeysInRow DEF Exists
<1>3. CASE r \notin DOMAIN buf[t]
  BY <1>1, <1>2, <1>3, StrongParts, CommitRows DEF Exists
<1>4. CASE r \in DOMAIN buf[t]
  <2>1. buf[t][r] # NoRow /\ HasWritten(t)
    BY <1>4, StrongParts, Parts DEF Knows, WritesOf, KnowsMore
  <2>2. buf[t][r] \in Nat
    BY <1>4, <2>1, StrongParts, Parts, Stores, KeyValues
  <2>3. db'[r] = buf[t][r] /\ seen[t][r] = db[r]
    BY <1>2, <1>4, StrongParts, CommitRows DEF View
  <2>4. buf[t][r] > db[r]
    BY <1>1, <1>4, <2>1, <2>3 DEF HasWritten, Exists
  <2> QED
    BY <1>2, <2>1, <2>2, <2>3, <2>4
<1> QED
  BY <1>3, <1>4

LEMMA CommitKeepsTokens ==
    ASSUME SharedAuthAssumption, Strong, NEW t \in Tx, Commit(t)
    PROVE  TokensKept'
<1>1. SUFFICES ASSUME NEW h \in Hash, db'[Token(h)] # NoRow
               PROVE  LET token == db'[Token(h)]
                      IN  /\ db'[Subject(token.owner)] # NoRow
                          /\ token.generation <= db'[Subject(token.owner)]
                          /\ token.identity # None => db'[Identity(token.identity)] = "active"
                          /\ token.expires = token.created + TokenTTL
  BY DEF TokensKept, Stored, Exists, Active
<1> DEFINE token == db'[Token(h)]
<1>2. Token(h) \in Row /\ token = View(t, Token(h)) /\ Inductive /\ KnowsMore(t)
  BY KeysInRow, StrongParts, CommitRows
<1>3. token \in TokenRow
  BY <1>1, <1>2, Parts, Stores, KeyValues DEF View
<1>4. /\ token.owner \in Uid /\ token.generation \in Nat
      /\ token.identity # None => token.identity \in Pid
  BY <1>3 DEF TokenRow
<1>5. CASE Token(h) \in DOMAIN buf[t]
  <2>1. Issued(t, token)
    BY <1>1, <1>2, <1>5 DEF KnowsMore, HasWritten, View
  <2>2. /\ Subject(token.owner) \in DOMAIN seen[t] /\ Subject(token.owner) \in Row
        /\ db'[Subject(token.owner)] = token.generation
    BY <1>2, <1>4, <2>1, KeysInRow, CommitRows DEF Issued
  <2>3. token.identity # None => db'[Identity(token.identity)] = "active"
    BY <1>2, <1>4, <2>1, KeysInRow, CommitRows DEF Issued
  <2>4. db'[Subject(token.owner)] # NoRow
    BY <1>4, <2>2 DEF SharedAuthAssumption
  <2> QED
    BY <1>4, <2>1, <2>2, <2>3, <2>4 DEF Issued
<1>6. CASE Token(h) \notin DOMAIN buf[t]
  <2>1. token = db[Token(h)] /\ h \in Stored
    BY <1>1, <1>2, <1>6 DEF View, Stored, Exists
  <2>2. /\ Exists(Subject(token.owner)) /\ token.generation <= db[Subject(token.owner)]
        /\ token.identity # None => Active(token.identity)
        /\ token.expires = token.created + TokenTTL
    BY <2>1 DEF Strong, TokensKept
  <2>3. db'[Subject(token.owner)] # NoRow /\ db[Subject(token.owner)] <= db'[Subject(token.owner)]
    BY <1>4, <2>2, CommitGrows DEF Grow
  <2>4. db[Subject(token.owner)] \in Nat /\ db'[Subject(token.owner)] \in Nat
    <3>1. Subject(token.owner) \in Row /\ db[Subject(token.owner)] \in Nat
      BY <1>2, <1>4, <2>2, Parts, Stores, KeyValues, KeysInRow DEF Exists
    <3>2. db'[Subject(token.owner)] = View(t, Subject(token.owner))
      BY <1>2, <3>1, CommitRows
    <3> QED
      BY <1>2, <2>3, <3>1, <3>2, Parts, Stores, KeyValues DEF View
  <2>5. ASSUME token.identity # None PROVE db'[Identity(token.identity)] = "active"
    <3>1. Identity(token.identity) \in Row /\ token.identity \in Pid
      BY <1>4, <2>5, KeysInRow
    <3>2. WritesOf(t)
      BY <1>2, Parts DEF Knows
    <3>3. View(t, Identity(token.identity)) = "active"
      BY <2>2, <2>5, <3>1, <3>2 DEF View, WritesOf, Active
    <3> QED
      BY <1>2, <3>1, <3>3, CommitRows
  <2> QED
    BY <1>4, <2>2, <2>3, <2>4, <2>5
<1> QED
  BY <1>5, <1>6

LEMMA CommitMore ==
    ASSUME SharedAuthAssumption, Strong, Inductive', NEW t \in Tx, Commit(t)
    PROVE  Strong'
<1>1. Inductive /\ Release(t) /\ Return(t) /\ now' = now /\ WritesOf(t)
  BY StrongParts, Parts DEF Commit, CommitTx, Knows
<1>2. OthersLeft(t) /\ KnowsMore(t)'
  BY <1>1, ReleasedMore
<1>3. \A r \in Row : db'[r] = IF r \in DOMAIN buf[t] THEN buf[t][r] ELSE db[r]
  BY <1>1, CommitRows DEF View
<1>4. ASSUME NEW o \in Tx, o # t
      PROVE  KnowsMore(o)'
  <2>1. ActiveStays(o)
    BY <1>1, <1>3, KeysInRow DEF ActiveStays, Active, WritesOf
  <2>2. KnowsMore(o) /\ now <= now'
    BY <1>1, StrongParts DEF Inductive, TypeOK
  <2> QED
    BY <1>1, <1>2, <1>4, <2>1, <2>2, MoreStays DEF OthersLeft
<1>5. TokensKept'
  BY CommitKeepsTokens
<1> QED
  BY <1>2, <1>4, <1>5 DEF Strong

-----------------------------------------------------------------------------
(* The environment.                                                        *)

\* Tokens that are not written keep what TokensKept says, if no identity they are bound to is
\* blocked.
LEMMA TokensStay ==
    ASSUME SharedAuthAssumption, Strong, Inductive', Grow,
           \A h \in Hash : db'[Token(h)] = db[Token(h)],
           \A p \in Pid : Active(p) => Active(p)' \/ Unreferenced(p)
    PROVE  TokensKept'
<1>1. SUFFICES ASSUME NEW h \in Hash, db'[Token(h)] # NoRow
               PROVE  LET token == db'[Token(h)]
                      IN  /\ db'[Subject(token.owner)] # NoRow
                          /\ token.generation <= db'[Subject(token.owner)]
                          /\ token.identity # None => db'[Identity(token.identity)] = "active"
                          /\ token.expires = token.created + TokenTTL
  BY DEF TokensKept, Stored, Exists, Active
<1> DEFINE token == db[Token(h)]
           r == Subject(token.owner)
<1>2. db'[Token(h)] = token /\ h \in Stored /\ Inductive
  BY <1>1, StrongParts DEF Stored, Exists
<1>3. token \in TokenRow
  BY <1>1, <1>2, Parts, Stores, KeyValues, KeysInRow
<1>4. /\ token.owner \in Uid /\ token.generation \in Nat
      /\ token.identity # None => token.identity \in Pid
  BY <1>3 DEF TokenRow
<1>5. /\ Exists(r) /\ token.generation <= db[r]
      /\ token.identity # None => Active(token.identity)
      /\ token.expires = token.created + TokenTTL
  BY <1>2 DEF Strong, TokensKept
<1>6. db'[r] # NoRow /\ db[r] <= db'[r]
  BY <1>4, <1>5 DEF Grow
<1>7. db[r] \in Nat
  BY <1>2, <1>4, <1>5, Parts, Stores, KeyValues, KeysInRow DEF Exists
<1>8. db'[r] \in Nat
  <2>1. StoreTypeOK' /\ r \in Row
    BY <1>4, KeysInRow DEF Inductive, TypeOK
  <2>2. db'[r] \in Values(r) \cup {NoRow}
    BY <2>1 DEF StoreTypeOK, Rows, Values
  <2> QED
    BY <1>6, <2>2, KeyValues
<1>9. token.identity # None => db'[Identity(token.identity)] = "active"
  BY <1>1, <1>2, <1>4, <1>5 DEF Unreferenced, Exists, Active
<1> QED
  BY <1>2, <1>4, <1>5, <1>6, <1>7, <1>8, <1>9

\* Another program writes rows that no transaction has locked.
LEMMA EnvironmentMore ==
    ASSUME SharedAuthAssumption, Strong, Inductive', NEW w, Rows(w), AutoCommit(w),
           UNCHANGED <<local, pc, loc>>, TokenRows \cap DOMAIN w = {},
           Gate \in DOMAIN w \/ \A p \in Pid : Identity(p) \notin DOMAIN w,
           \A u \in Uid : Subject(u) \in DOMAIN w =>
               w[Subject(u)] \in Nat /\ (Exists(Subject(u)) => db[Subject(u)] <= w[Subject(u)]),
           \A p \in Pid : Identity(p) \in DOMAIN w => w[Identity(p)] = "active" \/ Unreferenced(p)
    PROVE  Strong'
<1>1. LocalTypeOK /\ StoreTypeOK /\ StoreInv /\ Inductive
  BY StrongParts, Parts
<1>2. /\ seen' = seen /\ buf' = buf /\ excl' = excl
      /\ pc' = pc /\ call' = call /\ loc' = loc /\ now' = now
      /\ \A r \in Row : db'[r] = IF r \in DOMAIN w THEN w[r] ELSE db[r]
      /\ \A o \in Tx : DOMAIN w \cap DOMAIN seen[o] = {}
  BY <1>1, AutoCommitTypes DEF AutoCommit, local
<1>3. ASSUME NEW o \in Tx
      PROVE  KnowsMore(o)'
  <2>1. ActiveStays(o)
    BY <1>2, KeysInRow DEF ActiveStays, Active, GateRead
  <2>2. KnowsMore(o) /\ now <= now'
    BY <1>1, <1>2, StrongParts DEF LocalTypeOK
  <2> QED
    BY <1>1, <1>2, <2>1, <2>2, MoreStays
<1>4. Grow
  <2>1. SUFFICES ASSUME NEW u \in Uid, Exists(Subject(u))
                 PROVE  db'[Subject(u)] # NoRow /\ db[Subject(u)] <= db'[Subject(u)]
    BY DEF Grow
  <2>2. Subject(u) \in Row /\ db[Subject(u)] \in Nat
    BY <1>1, <2>1, Stores, KeyValues, KeysInRow DEF Exists
  <2>3. NoRow \notin Nat
    BY DEF SharedAuthAssumption
  <2> QED
    BY <1>2, <2>1, <2>2, <2>3 DEF Exists
<1>5. \A h \in Hash : db'[Token(h)] = db[Token(h)]
  BY <1>2, OfKind, KeysInRow
<1>6. \A p \in Pid : Active(p) => Active(p)' \/ Unreferenced(p)
  BY <1>2, KeysInRow DEF Active
<1>7. TokensKept'
  BY <1>4, <1>5, <1>6, TokensStay
<1> QED
  BY <1>3, <1>7 DEF Strong

LEMMA NextGenerationGrows ==
    ASSUME Inductive, NEW u \in Uid
    PROVE  /\ NextGeneration(u) \in Nat
           /\ Exists(Subject(u)) => db[Subject(u)] < NextGeneration(u)
<1>1. Subject(u) \in Row /\ (Exists(Subject(u)) => db[Subject(u)] \in Nat)
  BY Parts, Stores, KeyValues, KeysInRow DEF Exists
<1> QED
  BY <1>1 DEF NextGeneration

\* What the trigger writes of a subject.
LEMMA BumpRow ==
    ASSUME Inductive, NEW u \in Uid
    PROVE  LET g == Put(Subject(u), NextGeneration(u))
           IN  /\ Rows(g) /\ DOMAIN g = {Subject(u)}
               /\ g[Subject(u)] = NextGeneration(u)
<1>1. Subject(u) \in Row /\ NextGeneration(u) \in Values(Subject(u)) \cup {NoRow}
  BY NextGenerationType, KeysInRow, KeyValues
<1> QED
  BY <1>1, RowsPut DEF Put

\* A write of a user and of its subject's generation, or of the user only.
LEMMA UserWrite ==
    ASSUME SharedAuthAssumption, Strong, Inductive', NEW u \in Uid, NEW d, NEW g,
           Rows(d), DOMAIN d = {User(u)}, Rows(g), DOMAIN g \subseteq {Subject(u)},
           \A r \in DOMAIN g : g[r] = NextGeneration(u),
           AutoCommit(Over(d, g)), UNCHANGED <<local, pc, loc>>
    PROVE  Strong'
<1> DEFINE w == Over(d, g)
<1>1. Rows(w) /\ AutoCommit(w)
  BY RowsOver
<1>2. /\ DOMAIN w \subseteq {User(u), Subject(u)}
      /\ Subject(u) \in DOMAIN w => w[Subject(u)] = NextGeneration(u)
  <2>1. User(u) # Subject(u)
    BY Kinds, OfKind
  <2> QED
    BY <2>1 DEF Over
<1> HIDE DEF w
<1>3. /\ \A p \in Pid : Identity(p) \notin DOMAIN w
      /\ TokenRows \cap DOMAIN w = {}
  BY <1>2, KeysDiffer, Kinds, OfKind
<1>4. \A v \in Uid : Subject(v) \in DOMAIN w =>
          w[Subject(v)] \in Nat /\ (Exists(Subject(v)) => db[Subject(v)] <= w[Subject(v)])
  <2>1. ASSUME NEW v \in Uid, Subject(v) \in DOMAIN w PROVE v = u
    BY <1>2, <2>1, KeysOne, Kinds, OfKind
  <2>2. Inductive /\ (Exists(Subject(u)) => db[Subject(u)] \in Nat)
    BY StrongParts, Parts, Stores, KeyValues, KeysInRow DEF Exists
  <2> QED
    BY <1>2, <2>1, <2>2, NextGenerationGrows
<1> QED
  BY <1>1, <1>3, <1>4, EnvironmentMore

LEMMA UpdateUserMore ==
    ASSUME SharedAuthAssumption, Strong, Inductive', NEW u \in Uid, NEW row \in UserRow,
           UpdateUser(u, row)
    PROVE  Strong'
<1> DEFINE old == db[User(u)]
           revokes == old.password # row.password \/ old.permission # row.permission
           d == Put(User(u), row)
           g == IF revokes THEN Put(Subject(u), NextGeneration(u)) ELSE NoWrites
<1>1. AutoCommit(Over(d, g)) /\ UNCHANGED <<local, pc, loc>>
  BY DEF UpdateUser
<1>2. Rows(d) /\ DOMAIN d = {User(u)}
  <2>1. User(u) \in Row /\ row \in Values(User(u)) \cup {NoRow}
    BY KeysInRow, KeyValues
  <2> QED
    BY <2>1, RowsPut
<1>3. Rows(g) /\ DOMAIN g \subseteq {Subject(u)} /\ \A r \in DOMAIN g : g[r] = NextGeneration(u)
  <2> HIDE DEF revokes
  <2> QED
    BY StrongParts, BumpRow, RowsNone
<1> HIDE DEF d, g
<1> QED
  BY <1>1, <1>2, <1>3, UserWrite

LEMMA DeleteUserMore ==
    ASSUME SharedAuthAssumption, Strong, Inductive', NEW u \in Uid, DeleteUser(u)
    PROVE  Strong'
<1> DEFINE g == Put(Subject(u), NextGeneration(u))
           d == Drop({User(u)})
<1>1. AutoCommit(Over(d, g)) /\ UNCHANGED <<local, pc, loc>>
  BY DEF DeleteUser
<1>2. Rows(g) /\ DOMAIN g \subseteq {Subject(u)} /\ \A r \in DOMAIN g : g[r] = NextGeneration(u)
  BY StrongParts, BumpRow
<1>3. Rows(d) /\ DOMAIN d = {User(u)}
  BY KeysInRow, RowsDrop
<1> HIDE DEF d, g
<1> QED
  BY <1>1, <1>2, <1>3, UserWrite

LEMMA SetPlayerMore ==
    ASSUME SharedAuthAssumption, Strong, Inductive', NEW p \in Pid,
           NEW row \in PlayerRow \cup {NoRow}, SetPlayer(p, row)
    PROVE  Strong'
<1> DEFINE w == Put(Player(p), row)
<1>1. AutoCommit(w) /\ UNCHANGED <<local, pc, loc>>
  BY DEF SetPlayer
<1>2. Rows(w) /\ DOMAIN w = {Player(p)}
  <2>1. Player(p) \in Row /\ row \in Values(Player(p)) \cup {NoRow}
    BY KeysInRow, KeyValues
  <2> QED
    BY <2>1, RowsPut
<1> HIDE DEF w
<1>3. DOMAIN w \subseteq SiteRows
  BY <1>2, OfKind
<1>4. /\ TokenRows \cap DOMAIN w = {} /\ \A q \in Pid : Identity(q) \notin DOMAIN w
      /\ \A u \in Uid : Subject(u) \notin DOMAIN w
  BY <1>3, Kinds, OfKind
<1> QED
  BY <1>1, <1>2, <1>4, EnvironmentMore

LEMMA GateMore ==
    ASSUME SharedAuthAssumption, Strong, Inductive', Deactivate \/ Activate
    PROVE  Strong'
<1>1. PICK phase \in {"active", "staged"} : AutoCommit(Put(Gate, phase))
  BY DEF Deactivate, Activate
<1> DEFINE w == Put(Gate, phase)
<1>2. UNCHANGED <<local, pc, loc>>
  BY DEF Deactivate, Activate
<1>3. Rows(w) /\ DOMAIN w = {Gate}
  <2>1. Gate \in Row /\ phase \in Values(Gate) \cup {NoRow}
    BY KeysInRow, KeyValues
  <2> QED
    BY <2>1, RowsPut
<1>4. AutoCommit(w)
  BY <1>1
<1> HIDE DEF w
<1>5. DOMAIN w \subseteq SiteRows
  BY <1>3, OfKind
<1>6. /\ TokenRows \cap DOMAIN w = {} /\ \A q \in Pid : Identity(q) \notin DOMAIN w
      /\ \A u \in Uid : Subject(u) \notin DOMAIN w
  BY <1>5, Kinds, OfKind
<1> QED
  BY <1>2, <1>3, <1>4, <1>6, EnvironmentMore

\* A resolution command changes an identity that no token refers to.
LEMMA ReidentifyMore ==
    ASSUME SharedAuthAssumption, Strong, Inductive', NEW p \in Pid, NEW from,
           NEW to \in IdentityState, Reidentify(p, from, to)
    PROVE  Strong'
<1> DEFINE i == Put(Identity(p), to)
           g == Put(Gate, db[Gate])
           w == Over(i, g)
<1>1. AutoCommit(w) /\ UNCHANGED <<local, pc, loc>> /\ Unreferenced(p)
  BY DEF Reidentify
<1>2. Rows(g) /\ DOMAIN g = {Gate}
  <2>1. Gate \in Row /\ db[Gate] \in Values(Gate) \cup {NoRow}
    BY StrongParts, Parts, Stores, KeysInRow
  <2> QED
    BY <2>1, RowsPut
<1> HIDE DEF g
<1>3. Rows(w) /\ DOMAIN w = {Identity(p)} \cup DOMAIN g
  <2>1. Identity(p) \in Row /\ to \in Values(Identity(p)) \cup {NoRow}
    BY KeysInRow, KeyValues
  <2> QED
    BY <1>2, <2>1, PutOver
<1> HIDE DEF w
<1>4. DOMAIN w = {Identity(p), Gate}
  BY <1>2, <1>3
<1>5. TokenRows \cap DOMAIN w = {} /\ \A u \in Uid : Subject(u) \notin DOMAIN w
  BY <1>4, Kinds, OfKind
<1>6. \A q \in Pid : Identity(q) \in DOMAIN w => q = p
  BY <1>4, Kinds, OfKind DEF Identity
<1> QED
  BY <1>1, <1>3, <1>4, <1>5, <1>6, EnvironmentMore

\* The clock moves, or nothing does.
LEMMA StillMore ==
    ASSUME Strong, Inductive', Tick \/ UNCHANGED vars
    PROVE  Strong'
<1>1. /\ db' = db /\ seen' = seen /\ excl' = excl /\ buf' = buf
      /\ pc' = pc /\ call' = call /\ loc' = loc /\ now' \in {now, now + 1}
  BY DEF Tick, vars, store
<1>2. now <= now' /\ Inductive
  BY <1>1, StrongParts DEF Inductive, TypeOK
<1>3. \A o \in Tx : KnowsMore(o)'
  BY <1>1, <1>2, StrongParts, SameRowsActive, MoreStays
<1>4. TokensKept'
  BY <1>1, StrongParts, SameRowsKept
<1> QED
  BY <1>3, <1>4 DEF Strong

-----------------------------------------------------------------------------
(* The invariant.                                                          *)

LEMMA InitStrong ==
    ASSUME SharedAuthAssumption, Init
    PROVE  Strong
<1>1. Inductive
  BY InitInductive
<1>2. \A h \in Hash : db[Token(h)] = NoRow
  BY KeysInRow DEF Init, StoreInit, Token, Gate
<1>3. TokensKept
  BY <1>2 DEF TokensKept, Stored, Exists
<1>4. ASSUME NEW t \in Tx
      PROVE  KnowsMore(t)
  <2>1. /\ pc[t] = "idle" /\ call[t] = NoCall /\ loc[t] = NoLocal
        /\ seen[t] = NoWrites /\ excl[t] = {} /\ buf[t] = NoWrites
    BY DEF Init, StoreInit
  <2>2. DOMAIN seen[t] = {} /\ DOMAIN buf[t] = {} /\ Op(t) = "cleanup" /\ ~Authorizes(t)
    BY <2>1, RowsNone, NoCallTyped DEF Op, Authorizes
  <2>3. LockOrder(t)
    BY <2>1, <2>2 DEF LockOrder
  <2> QED
    BY <2>1, <2>2, <2>3 DEF KnowsMore, LoginRead, BindingRead, HasWritten, RefreshWrites
<1> QED
  BY <1>1, <1>3, <1>4 DEF Strong

LEMMA StepMore ==
    ASSUME SharedAuthAssumption, Strong, Inductive', NEW t \in Tx, Step(t)
    PROVE  Strong'
<1>1. CASE Begin(t)
  BY <1>1, BeginMore
<1>2. CASE Authorize(t)
  BY <1>2, FindOwnerMore, LockUserMore, LockGenerationMore, LockTokenMore, LockPlayerMore,
     CheckExpiryMore DEF Authorize
<1>3. CASE AuthenticateOrSignout(t)
  BY <1>3, ResolveMore, VerifyMore, CheckLoginMore, EnsureSubjectMore, LockVictimsMore,
     LoginProfilesMore, BindLoginMore, IssueMore, BumpMore DEF AuthenticateOrSignout
<1>4. CASE RefreshOrInvalidate(t)
  BY <1>4, SelectMore, DeleteOldMore, DeleteInvalidatedMore DEF RefreshOrInvalidate
<1>5. CASE JoinOrHasJoined(t)
  BY <1>5, ClearSessionMore, InsertSessionMore, CompareSessionMore, FindSessionMore,
     CheckNameMore, LockSessionMore DEF JoinOrHasJoined
<1>6. CASE Cleanup(t)
  BY <1>6, DeleteTokensMore, DeleteSessionsMore DEF Cleanup
<1>7. CASE Commit(t)
  BY <1>7, CommitMore
<1>8. CASE Rollback(t)
  BY <1>8, RollbackMore
<1> QED
  BY <1>1, <1>2, <1>3, <1>4, <1>5, <1>6, <1>7, <1>8 DEF Step

LEMMA StrongStep ==
    ASSUME SharedAuthAssumption, Strong, [Next]_vars
    PROVE  Strong'
<1>1. Inductive'
  BY StrongParts, NextKeeps
<1>2. ASSUME NEW t \in Tx,
             (\E c \in Calls : Start(t, c)) \/ Step(t) \/ SqlError(t) \/ AbortVictim(t)
      PROVE  Strong'
  BY <1>1, <1>2, StartMore, StepMore, SqlErrorMore, AbortVictimMore
<1>3. ASSUME NEW u \in Uid, DeleteUser(u) \/ \E row \in UserRow : UpdateUser(u, row)
      PROVE  Strong'
  BY <1>1, <1>3, DeleteUserMore, UpdateUserMore
<1>4. ASSUME NEW p \in Pid,
             \/ ResolveIdentity(p) \/ RollbackIdentity(p)
             \/ \E row \in PlayerRow \cup {NoRow} : SetPlayer(p, row)
      PROVE  Strong'
  <2>1. "active" \in IdentityState /\ "blocked" \in IdentityState
    BY DEF IdentityState
  <2> QED
    BY <1>1, <1>4, <2>1, ReidentifyMore, SetPlayerMore DEF ResolveIdentity, RollbackIdentity
<1>5. CASE Deactivate \/ Activate
  BY <1>1, <1>5, GateMore
<1>6. CASE Tick \/ UNCHANGED vars
  BY <1>1, <1>6, StillMore
<1> QED
  BY <1>2, <1>3, <1>4, <1>5, <1>6 DEF Next

\* Whatever the nodes, the site and the operator do: every transaction locks in one order, what
\* it has read and written fits its call and its rows, and every stored token belongs to a
\* subject that has not been behind it and is bound to an active identity only (auth.go:33-248,
\* authenticate.go:28-160).
THEOREM StrongInvariant == Spec => []Strong
<1>1. Init => Strong
  BY SharedAuthAssumption, InitStrong
<1>2. Strong /\ [Next]_vars => Strong'
  BY SharedAuthAssumption, StrongStep
<1> QED
  BY <1>1, <1>2, PTL DEF Spec

-----------------------------------------------------------------------------
(* What follows of logins, joins and bindings.                             *)

\* What a login found is so when it can commit.
LEMMA LoginNow ==
    ASSUME Strong
    PROVE  LoginHolds
<1>1. SUFFICES ASSUME Strong, NEW t \in Tx, pc[t] = "commit",
                      Op(t) \in {"authenticate", "signout"}
               PROVE  LET u == loc[t].uid
                          p == loc[t].identity
                      IN  /\ Exists(User(u)) /\ Allowed(db[User(u)])
                          /\ db[User(u)].password = call[t].password
                          /\ p # None => Owns(u, p) /\ View(t, Identity(p)) = "active"
                          /\ Op(t) = "authenticate" /\ call[t].login \in Name =>
                                p # None /\ db[Player(p)].name = call[t].login
  BY DEF LoginHolds
<1> DEFINE u == loc[t].uid
           p == loc[t].identity
<1>2. LoginRead(t) /\ \A r \in DOMAIN seen[t] : seen[t][r] = db[r]
  BY <1>1, StrongParts, Parts DEF KnowsMore, StoreInv, SeenIsCurrent
<1>3. UserRead(t) /\ seen[t][User(u)].password = call[t].password
  BY <1>1, <1>2 DEF LoginRead
<1>4. /\ Exists(User(u)) /\ Allowed(db[User(u)])
      /\ db[User(u)].password = call[t].password
  BY <1>2, <1>3 DEF UserRead, Exists
<1>5. ASSUME p # None
      PROVE  Owns(u, p) /\ View(t, Identity(p)) = "active" /\ db[Player(p)] = seen[t][Player(p)]
  <2>1. Op(t) = "authenticate"
    BY <1>1, <1>2, <1>5 DEF LoginRead
  <2>2. ProfileRead(t, p)
    BY <1>1, <1>2, <1>5, <2>1 DEF LoginRead
  <2> QED
    BY <1>2, <2>2 DEF ProfileRead, Owns, Exists
<1> QED
  BY <1>1, <1>2, <1>4, <1>5 DEF LoginRead

\* When Authenticate or Signout can commit, the password checked outside the transaction is
\* still the account's, the account is allowed, and a name login is bound to a player of the
\* account that has that name (authenticate.go:28-34, auth.go:135-141).
THEOREM LoginsHold == Spec => []LoginHolds
<1>1. Strong => LoginHolds
  BY LoginNow
<1> QED
  BY <1>1, StrongInvariant, PTL

\* When HasJoined can commit, the session is the one it authorized, from the address given, and
\* the player of its token still has the name asked for (auth.go:202-248).
THEOREM JoinsHold == Spec => []JoinedNow
<1>1. Strong => JoinedNow
  <2>1. SUFFICES ASSUME Strong, NEW t \in Tx, pc[t] = "commit", Op(t) = "hasJoined"
                 PROVE  LET s == db[Session(call[t].server)]
                            p == db[Token(loc[t].token)].identity
                        IN  /\ s # NoRow /\ s.token = loc[t].token /\ call[t].ip \in {None, s.ip}
                            /\ p # None /\ db[Player(p)].name = call[t].login
    BY DEF JoinedNow
  <2>2. BindingRead(t) /\ \A r \in DOMAIN seen[t] : seen[t][r] = db[r]
    BY <2>1, StrongParts, Parts DEF KnowsMore, StoreInv, SeenIsCurrent
  <2>3. TokenRead(t) /\ PlayerRead(t)
    BY <2>1, StrongParts, Parts, IsAuthorized DEF Unauthorized, Outside, Authorizes, Authorized
  <2>4. /\ loc[t].identity # None /\ seen[t][Player(loc[t].identity)].name = call[t].login
        /\ seen[t][Token(loc[t].token)].identity = loc[t].identity /\ SessionRead(t)
    BY <2>1, <2>2 DEF BindingRead
  <2>5. db[Token(loc[t].token)].identity = loc[t].identity
    BY <2>2, <2>3, <2>4 DEF TokenRead
  <2>6. db[Player(loc[t].identity)].name = call[t].login
    BY <2>2, <2>3, <2>4 DEF PlayerRead
  <2> QED
    BY <2>2, <2>4, <2>5, <2>6 DEF SessionRead
<1> QED
  BY <1>1, StrongInvariant, PTL

\* A stored token, and one about to be stored, is bound to an active identity only, although
\* resolution plans block identities again (resolutionplan/apply.go:160-256).
THEOREM BindingsActive == Spec => []TokenIdentityActive
<1>1. Strong => TokenIdentityActive
  <2>1. SUFFICES ASSUME Strong, NEW h \in Hash
                 PROVE  /\ Exists(Token(h)) /\ db[Token(h)].identity # None =>
                               Active(db[Token(h)].identity)
                        /\ \A t \in Tx : LET token == View(t, Token(h))
                                        IN  token # NoRow /\ token.identity # None =>
                                                View(t, Identity(token.identity)) = "active"
    BY DEF TokenIdentityActive
  <2>2. Exists(Token(h)) /\ db[Token(h)].identity # None => Active(db[Token(h)].identity)
    BY <2>1 DEF Strong, TokensKept, Stored
  <2>3. ASSUME NEW t \in Tx, View(t, Token(h)) # NoRow, View(t, Token(h)).identity # None
        PROVE  View(t, Identity(View(t, Token(h)).identity)) = "active"
    <3> DEFINE token == View(t, Token(h))
    <3>1. KnowsMore(t) /\ WritesOf(t)
      BY <2>1, StrongParts, Parts DEF Knows
    <3>2. CASE Token(h) \in DOMAIN buf[t]
      <4>1. token = buf[t][Token(h)]
        BY <3>2 DEF View
      <4> QED
        BY <2>3, <3>1, <3>2, <4>1 DEF KnowsMore, HasWritten, Issued
    <3>3. CASE Token(h) \notin DOMAIN buf[t]
      <4>1. token = db[Token(h)] /\ Active(token.identity)
        BY <2>2, <2>3, <3>3 DEF View, Exists
      <4>2. token \in TokenRow
        BY <2>1, <2>3, <4>1, StrongParts, Parts, Stores, KeyValues, KeysInRow
      <4>3. token.identity \in Pid
        BY <2>3, <4>2 DEF TokenRow
      <4> QED
        BY <3>1, <4>1, <4>3 DEF View, WritesOf, Active
    <3> QED
      BY <3>2, <3>3
  <2> QED
    BY <2>2, <2>3
<1> QED
  BY <1>1, StrongInvariant, PTL

-----------------------------------------------------------------------------
(* Who changes the committed rows.                                         *)

\* The site and the operator.
Elsewhere ==
    \/ \E u \in Uid : DeleteUser(u) \/ \E row \in UserRow : UpdateUser(u, row)
    \/ \E p \in Pid : \/ ResolveIdentity(p) \/ RollbackIdentity(p)
                      \/ \E row \in PlayerRow \cup {NoRow} : SetPlayer(p, row)
    \/ Deactivate \/ Activate

\* Every other step of a transaction, and which of its statements it is.
LEMMA StepWrites ==
    ASSUME NEW t \in Tx, Step(t)
    PROVE  /\ now' = now /\ \E label : Goto(t, label)
           /\ Commit(t) \/ (db' = db /\ pc[t] # "commit")
<1> USE DEF Statement, store, local, Check, Return
<1>1. CASE Begin(t)
  BY <1>1 DEF Begin
<1>2. CASE Authorize(t)
  BY <1>2 DEF Authorize, FindOwner, LockUser, LockGeneration, LockToken, LockPlayer, CheckExpiry
<1>3. CASE AuthenticateOrSignout(t)
  <2>1. CASE Resolve(t) \/ Verify(t) \/ CheckLogin(t)
    BY <2>1 DEF Resolve, Verify, CheckLogin
  <2>2. CASE EnsureSubject(t) \/ LockVictims(t) \/ LoginProfiles(t)
    BY <2>2 DEF EnsureSubject, LockVictims, LoginProfiles
  <2>3. CASE BindLogin(t)
    BY <2>3 DEF BindLogin
  <2>4. CASE Issue(t)
    BY <2>4 DEF Issue
  <2>5. CASE Bump(t)
    BY <2>5 DEF Bump
  <2> QED
    BY <1>3, <2>1, <2>2, <2>3, <2>4, <2>5 DEF AuthenticateOrSignout
<1>4. CASE RefreshOrInvalidate(t)
  BY <1>4 DEF RefreshOrInvalidate, Select, DeleteOld, DeleteInvalidated
<1>5. CASE JoinOrHasJoined(t)
  <2>1. CASE ClearSession(t) \/ InsertSession(t)
    BY <2>1 DEF ClearSession, InsertSession
  <2>2. CASE CompareSession(t) \/ FindSession(t) \/ CheckName(t) \/ LockSession(t)
    BY <2>2 DEF CompareSession, FindSession, CheckName, LockSession
  <2> QED
    BY <1>5, <2>1, <2>2 DEF JoinOrHasJoined
<1>6. CASE Cleanup(t)
  BY <1>6 DEF Cleanup, DeleteTokens, DeleteSessions
<1>7. CASE Commit(t)
  <2>1. Goto(t, "idle") /\ now' = now
    BY <1>7 DEF Commit
  <2> QED
    BY <1>7, <2>1
<1>8. CASE Rollback(t)
  BY <1>8 DEF Rollback, RollbackTx
<1> QED
  BY <1>1, <1>2, <1>3, <1>4, <1>5, <1>6, <1>7, <1>8 DEF Step

\* The committed rows change by the COMMIT of one transaction, or elsewhere.
LEMMA Changes ==
    ASSUME DOMAIN pc = Tx, [Next]_vars
    PROVE  \/ db' = db /\ \A t \in Tx : ~Commits(t)
           \/ \E t \in Tx : Commit(t) /\ \A o \in Tx \ {t} : ~Commits(o)
           \/ Elsewhere /\ \A t \in Tx : ~Commits(t)
<1>1. ASSUME NEW t \in Tx, NEW label, Goto(t, label)
      PROVE  \A o \in Tx \ {t} : ~Commits(o)
  BY <1>1, GotoEffect DEF Commits
<1>2. ASSUME NEW t \in Tx, Step(t)
      PROVE  \/ db' = db /\ \A o \in Tx : ~Commits(o)
             \/ Commit(t) /\ \A o \in Tx \ {t} : ~Commits(o)
  <2>1. \A o \in Tx \ {t} : ~Commits(o)
    BY <1>1, <1>2, StepWrites
  <2>2. Commit(t) \/ (db' = db /\ ~Commits(t))
    BY <1>2, StepWrites DEF Commits
  <2> QED
    BY <2>1, <2>2
<1>3. ASSUME NEW t \in Tx, (\E c \in Calls : Start(t, c)) \/ SqlError(t) \/ AbortVictim(t)
      PROVE  db' = db /\ \A o \in Tx : ~Commits(o)
  <2>1. db' = db /\ (pc[t] # "commit" \/ Goto(t, "fail"))
    BY <1>3 DEF Start, SqlError, AbortVictim, store
  <2>2. \E label : Goto(t, label)
    BY <1>3 DEF Start, SqlError, AbortVictim, Return
  <2>3. \A o \in Tx \ {t} : ~Commits(o)
    BY <1>1, <2>2
  <2>4. ~Commits(t)
    BY <2>1, GotoEffect DEF Commits
  <2> QED
    BY <2>1, <2>3, <2>4
<1>4. ASSUME Elsewhere
      PROVE  \A t \in Tx : ~Commits(t)
  <2>1. pc' = pc
    BY <1>4 DEF Elsewhere, DeleteUser, UpdateUser, ResolveIdentity, RollbackIdentity, Reidentify,
                SetPlayer, Deactivate, Activate
  <2> QED
    BY <2>1 DEF Commits
<1>5. ASSUME Tick \/ UNCHANGED vars
      PROVE  db' = db /\ \A t \in Tx : ~Commits(t)
  <2>1. db' = db /\ pc' = pc
    BY <1>5 DEF Tick, vars, store
  <2> QED
    BY <2>1 DEF Commits
<1> QED
  BY <1>2, <1>3, <1>4, <1>5 DEF Next, Elsewhere

LEMMA AutoCommitRows ==
    ASSUME Inductive, NEW w, AutoCommit(w)
    PROVE  \A r \in Row : db'[r] = IF r \in DOMAIN w THEN w[r] ELSE db[r]
BY Parts DEF StoreTypeOK, AutoCommit, Over

\* An edit of account u that revokes has a greater generation.
Revoked(u) ==
    LET r == Subject(u)
    IN  (Exists(User(u)) /\ \/ db'[User(u)] = NoRow
                            \/ db'[User(u)].password # db[User(u)].password
                            \/ db'[User(u)].permission # db[User(u)].permission)
            => (Exists(r) => db[r] < db'[r])

\* What an edit of user u does to the rows.
LEMMA UpdatedRows ==
    ASSUME Inductive, NEW u \in Uid, NEW row, UpdateUser(u, row)
    PROVE  LET old == db[User(u)]
               revokes == old.password # row.password \/ old.permission # row.permission
           IN  /\ Exists(User(u)) /\ db'[User(u)] = row
               /\ revokes => db'[Subject(u)] = NextGeneration(u)
               /\ ~revokes => db'[Subject(u)] = db[Subject(u)]
               /\ \A r \in Row \ {User(u), Subject(u)} : db'[r] = db[r]
<1> DEFINE old == db[User(u)]
           revokes == old.password # row.password \/ old.permission # row.permission
           g == IF revokes THEN Put(Subject(u), NextGeneration(u)) ELSE NoWrites
           w == Over(Put(User(u), row), g)
<1>1. User(u) \in Row /\ Subject(u) \in Row /\ User(u) # Subject(u)
  BY KeysInRow, Kinds, OfKind
<1>2. AutoCommit(w) /\ Exists(User(u))
  BY DEF UpdateUser
<1>3. /\ revokes => DOMAIN g = {Subject(u)} /\ g[Subject(u)] = NextGeneration(u)
      /\ ~revokes => DOMAIN g = {}
  <2> HIDE DEF revokes
  <2> QED
    BY RowsNone DEF Put
<1> HIDE DEF g
<1>4. /\ DOMAIN w = {User(u)} \cup DOMAIN g /\ w[User(u)] = row
      /\ Subject(u) \in DOMAIN g => w[Subject(u)] = g[Subject(u)]
  BY <1>1 DEF Over, Put
<1> HIDE DEF w
<1>5. \A r \in Row : db'[r] = IF r \in DOMAIN w THEN w[r] ELSE db[r]
  BY <1>2, AutoCommitRows
<1> HIDE DEF revokes
<1>6. /\ Exists(User(u)) /\ db'[User(u)] = row
      /\ revokes => db'[Subject(u)] = NextGeneration(u)
      /\ ~revokes => db'[Subject(u)] = db[Subject(u)]
      /\ \A r \in Row \ {User(u), Subject(u)} : db'[r] = db[r]
  BY <1>1, <1>2, <1>3, <1>4, <1>5
<1> QED
  BY <1>6 DEF revokes

LEMMA DeletedRows ==
    ASSUME Inductive, NEW u \in Uid, DeleteUser(u)
    PROVE  /\ Exists(User(u)) /\ db'[User(u)] = NoRow
           /\ db'[Subject(u)] = NextGeneration(u)
           /\ \A r \in Row \ {User(u), Subject(u)} : db'[r] = db[r]
<1> DEFINE w == Over(Drop({User(u)}), Put(Subject(u), NextGeneration(u)))
<1>1. User(u) \in Row /\ Subject(u) \in Row /\ User(u) # Subject(u)
  BY KeysInRow, Kinds, OfKind
<1>2. AutoCommit(w) /\ Exists(User(u))
  BY DEF DeleteUser
<1>3. /\ DOMAIN w = {User(u), Subject(u)} /\ w[Subject(u)] = NextGeneration(u)
      /\ w[User(u)] = NoRow
  BY <1>1 DEF Over, Drop, Put
<1> HIDE DEF w
<1> QED
  BY <1>1, <1>2, <1>3, AutoCommitRows

LEMMA UserRows ==
    ASSUME SharedAuthAssumption, Inductive, NEW u \in Uid,
           DeleteUser(u) \/ \E row \in UserRow : UpdateUser(u, row)
    PROVE  /\ \A r \in Row \ {User(u), Subject(u)} : db'[r] = db[r]
           /\ db'[Subject(u)] \in {db[Subject(u)], NextGeneration(u)}
           /\ Revoked(u)
<1>1. Exists(Subject(u)) => db[Subject(u)] < NextGeneration(u)
  BY NextGenerationGrows
<1>2. CASE DeleteUser(u)
  BY <1>1, <1>2, DeletedRows DEF Revoked
<1>3. ASSUME NEW row \in UserRow, UpdateUser(u, row)
      PROVE  /\ \A r \in Row \ {User(u), Subject(u)} : db'[r] = db[r]
             /\ db'[Subject(u)] \in {db[Subject(u)], NextGeneration(u)}
             /\ Revoked(u)
  <2>1. row # NoRow
    BY DEF SharedAuthAssumption
  <2> QED
    BY <1>1, <1>3, <2>1, UpdatedRows DEF Revoked
<1> QED
  BY <1>2, <1>3

\* The others leave users and subjects alone.
LEMMA OtherRows ==
    ASSUME Inductive, NEW p \in Pid,
           \/ ResolveIdentity(p) \/ RollbackIdentity(p) \/ Deactivate \/ Activate
           \/ \E row \in PlayerRow \cup {NoRow} : SetPlayer(p, row)
    PROVE  \A r \in Row \ {Gate, Player(p), Identity(p)} : db'[r] = db[r]
<1>1. ASSUME NEW from, NEW to, Reidentify(p, from, to)
      PROVE  \A r \in Row \ {Gate, Player(p), Identity(p)} : db'[r] = db[r]
  <2> DEFINE w == Over(Put(Identity(p), to), Put(Gate, db[Gate]))
  <2>1. AutoCommit(w) /\ DOMAIN w = {Identity(p), Gate}
    BY <1>1 DEF Reidentify, Over, Put
  <2> HIDE DEF w
  <2> QED
    BY <2>1, AutoCommitRows
<1>2. ASSUME NEW r, NEW v, AutoCommit(Put(r, v))
      PROVE  \A x \in Row \ {r} : db'[x] = db[x]
  <2>1. DOMAIN Put(r, v) = {r}
    BY DEF Put
  <2> QED
    BY <1>2, <2>1, AutoCommitRows
<1> QED
  BY <1>1, <1>2 DEF ResolveIdentity, RollbackIdentity, Deactivate, Activate, SetPlayer

\* Whatever happens elsewhere, tokens and sessions stay, and generations grow.
LEMMA ElsewhereRows ==
    ASSUME SharedAuthAssumption, Inductive, Elsewhere
    PROVE  /\ \A h \in Hash : db'[Token(h)] = db[Token(h)]
           /\ \A s \in Server : db'[Session(s)] = db[Session(s)]
           /\ Grow /\ \A u \in Uid : Revoked(u)
<1>1. \A v \in Uid : Exists(Subject(v)) => db[Subject(v)] \in Nat /\ db[Subject(v)] # NoRow
  BY Parts, Stores, KeyValues, KeysInRow DEF Exists
<1>2. ASSUME NEW u \in Uid, DeleteUser(u) \/ \E row \in UserRow : UpdateUser(u, row)
      PROVE  /\ \A h \in Hash : db'[Token(h)] = db[Token(h)]
             /\ \A s \in Server : db'[Session(s)] = db[Session(s)]
             /\ Grow /\ \A v \in Uid : Revoked(v)
  <2>1. /\ \A r \in Row \ {User(u), Subject(u)} : db'[r] = db[r]
        /\ db'[Subject(u)] \in {db[Subject(u)], NextGeneration(u)}
        /\ Revoked(u)
    BY <1>2, UserRows
  <2>2. /\ \A h \in Hash : Token(h) \in Row \ {User(u), Subject(u)}
        /\ \A s \in Server : Session(s) \in Row \ {User(u), Subject(u)}
    BY KeysInRow, Kinds, OfKind
  <2>3. \A v \in Uid \ {u} : /\ User(v) \in Row \ {User(u), Subject(u)}
                             /\ Subject(v) \in Row \ {User(u), Subject(u)}
    <3>1. ASSUME NEW v \in Uid \ {u}
          PROVE  User(v) # User(u) /\ Subject(v) # Subject(u)
      BY DEF User, Subject
    <3>2. \A v \in Uid : User(v) # Subject(u) /\ Subject(v) # User(u)
      BY Kinds, OfKind
    <3> QED
      BY <3>1, <3>2, KeysInRow
  <2>4. \A v \in Uid : Exists(Subject(v)) =>
            db'[Subject(v)] # NoRow /\ db[Subject(v)] <= db'[Subject(v)]
    <3>1. NextGeneration(u) \in Nat /\ NextGeneration(u) # NoRow
      BY NextGenerationGrows DEF SharedAuthAssumption
    <3> QED
      BY <1>1, <2>1, <2>3, <3>1, NextGenerationGrows
  <2>5. ASSUME NEW v \in Uid
        PROVE  Revoked(v)
    <3>1. v # u => db'[User(v)] = db[User(v)]
      BY <2>1, <2>3
    <3> QED
      BY <2>1, <3>1 DEF Revoked, Exists
  <2> QED
    BY <2>1, <2>2, <2>4, <2>5 DEF Grow
<1>3. ASSUME NEW p, \A r \in Row \ {Gate, Player(p), Identity(p)} : db'[r] = db[r],
             p \in Pid
      PROVE  /\ \A h \in Hash : db'[Token(h)] = db[Token(h)]
             /\ \A s \in Server : db'[Session(s)] = db[Session(s)]
             /\ Grow /\ \A v \in Uid : Revoked(v)
  <2>1. /\ \A h \in Hash : Token(h) \in Row \ {Gate, Player(p), Identity(p)}
        /\ \A s \in Server : Session(s) \in Row \ {Gate, Player(p), Identity(p)}
        /\ \A v \in Uid : /\ Subject(v) \in Row \ {Gate, Player(p), Identity(p)}
                          /\ User(v) \in Row \ {Gate, Player(p), Identity(p)}
    BY <1>3, KeysInRow DEF Gate, Player, Identity, Token, Session, Subject, User
  <2>2. \A v \in Uid : db'[Subject(v)] = db[Subject(v)] /\ db'[User(v)] = db[User(v)]
    BY <1>3, <2>1
  <2>3. Grow /\ \A v \in Uid : Revoked(v)
    BY <1>1, <2>2 DEF Grow, Revoked, Exists
  <2> QED
    BY <1>3, <2>1, <2>3
<1>4. CASE \E p \in Pid : \/ ResolveIdentity(p) \/ RollbackIdentity(p)
                          \/ \E row \in PlayerRow \cup {NoRow} : SetPlayer(p, row)
  BY <1>3, <1>4, OtherRows
<1>5. CASE Deactivate \/ Activate
  <2>1. PICK phase : AutoCommit(Put(Gate, phase))
    BY <1>5 DEF Deactivate, Activate
  <2>2. DOMAIN Put(Gate, phase) = {Gate}
    BY DEF Put
  <2>3. \A r \in Row \ {Gate} : db'[r] = db[r]
    BY <2>1, <2>2, AutoCommitRows
  <2>4. /\ \A h \in Hash : Token(h) \in Row \ {Gate}
        /\ \A s \in Server : Session(s) \in Row \ {Gate}
        /\ \A v \in Uid : Subject(v) \in Row \ {Gate} /\ User(v) \in Row \ {Gate}
    BY KeysInRow DEF Gate, Token, Session, Subject, User
  <2>5. Grow /\ \A v \in Uid : Revoked(v)
    BY <1>1, <2>3, <2>4 DEF Grow, Revoked, Exists
  <2> QED
    BY <2>3, <2>4, <2>5
<1> QED
  BY <1>2, <1>4, <1>5 DEF Elsewhere

-----------------------------------------------------------------------------
(* Sessions, revocation and refreshed tokens.                              *)

\* What each step does to users, subjects, tokens and sessions.
LEMMA NextRows ==
    ASSUME SharedAuthAssumption, Strong, [Next]_vars
    PROVE  \/ db' = db /\ \A t \in Tx : ~Commits(t)
           \/ \E t \in Tx : Commit(t) /\ \A o \in Tx \ {t} : ~Commits(o)
           \/ /\ \A t \in Tx : ~Commits(t)
              /\ \A h \in Hash : db'[Token(h)] = db[Token(h)]
              /\ \A s \in Server : db'[Session(s)] = db[Session(s)]
              /\ Grow /\ \A u \in Uid : Revoked(u)
<1>1. Inductive /\ DOMAIN pc = Tx
  BY StrongParts, Parts DEF LocalTypeOK
<1> QED
  BY <1>1, Changes, ElsewhereRows

\* An unexpired join session is neither overwritten, extended nor deleted (auth.go:180-197).
THEOREM SessionsKept == Spec => SessionKept
<1>1. ASSUME SharedAuthAssumption, Strong, [Next]_vars, NEW s \in Server, Exists(Session(s)),
             now < db[Session(s)].expires
      PROVE  db'[Session(s)] = db[Session(s)]
  <2>1. ASSUME NEW t \in Tx, Commit(t)
        PROVE  db'[Session(s)] = db[Session(s)]
    <3> DEFINE r == Session(s)
    <3>1. r \in Row /\ HasWritten(t) /\ Inductive /\ now \in Nat
      BY <1>1, StrongParts, Parts, KeysInRow DEF KnowsMore, LocalTypeOK
    <3>2. db[r] \in SessionRow
      BY <1>1, <3>1, Parts, Stores, KeyValues DEF Exists
    <3>3. db[r].expires \in Nat
      BY <3>2 DEF SessionRow
    <3>4. r \notin DOMAIN buf[t]
      <4>1. SUFFICES ASSUME r \in DOMAIN buf[t] PROVE FALSE
        OBVIOUS
      <4>2. seen[t][r] = db[r]
        BY <2>1, <3>1, <4>1, CommitRows
      <4>3. db[r] = NoRow \/ db[r].expires <= now
        BY <3>1, <4>1, <4>2 DEF HasWritten
      <4> QED
        BY <1>1, <3>1, <3>3, <4>3 DEF Exists
    <3> QED
      BY <2>1, <3>1, <3>4, CommitRows
  <2> QED
    BY <1>1, <2>1, NextRows
<1>2. Strong /\ [Next]_vars =>
          [\A s \in Server : Exists(Session(s)) /\ now < db[Session(s)].expires =>
               db'[Session(s)] = db[Session(s)]]_vars
  BY <1>1, SharedAuthAssumption
<1> QED
  BY <1>2, StrongInvariant, PTL DEF Spec, SessionKept

\* A stored token is not written over.
LEMMA TokenRowsStay ==
    ASSUME SharedAuthAssumption, Strong, NEW t \in Tx, Commit(t), NEW h \in Stored, h \in Stored'
    PROVE  db'[Token(h)] = db[Token(h)]
<1>1. /\ h \in Hash /\ Token(h) \in Row /\ HasWritten(t) /\ Inductive
      /\ db[Token(h)] # NoRow /\ db'[Token(h)] # NoRow
  BY StrongParts, KeysInRow DEF KnowsMore, Stored, Exists
<1>2. Token(h) \notin DOMAIN buf[t]
  <2>1. SUFFICES ASSUME Token(h) \in DOMAIN buf[t] PROVE FALSE
    OBVIOUS
  <2>2. seen[t][Token(h)] = db[Token(h)] /\ buf[t][Token(h)] = db'[Token(h)]
    BY <1>1, <2>1, CommitRows DEF View
  <2> QED
    BY <1>1, <2>1, <2>2 DEF HasWritten
<1> QED
  BY <1>1, <1>2, CommitRows

\* A COMMIT leaves the users alone, and one of a Signout has a greater generation.
LEMMA CommitRevokes ==
    ASSUME SharedAuthAssumption, Strong, NEW t \in Tx, Commit(t),
           \A o \in Tx \ {t} : ~Commits(o), NEW u \in Uid, Revokes(u), Exists(Subject(u))
    PROVE  db[Subject(u)] < db'[Subject(u)]
<1>1. Inductive /\ KnowsMore(t)
  BY StrongParts
<1>2. db'[User(u)] = db[User(u)]
  <2>1. User(u) \in Row /\ User(u) \notin DOMAIN buf[t]
    BY <1>1, KeysInRow, OfKind, CommitRows DEF KnowsMore, LockOrder
  <2> QED
    BY <1>1, <2>1, CommitRows
<1>3. Op(t) = "signout" /\ loc[t].uid = u /\ pc[t] = "commit"
  BY <1>2 DEF Revokes, Exists, Commit
<1> DEFINE r == Subject(u)
<1>4. r \in DOMAIN buf[t] /\ r \in Row
  BY <1>1, <1>3, KeysInRow DEF KnowsMore, HasWritten
<1>5. seen[t][r] = db[r] /\ db'[r] = buf[t][r]
  BY <1>1, <1>4, CommitRows DEF View
<1>6. buf[t][r] > db[r]
  BY <1>1, <1>4, <1>5 DEF KnowsMore, HasWritten, Exists
<1>7. db[r] \in Nat
  BY <1>1, <1>4, Parts, Stores, KeyValues DEF Exists
<1>8. buf[t][r] \in Nat
  <2>1. buf[t][r] # NoRow
    BY <1>1, <1>4, Parts DEF Knows, WritesOf
  <2> QED
    BY <1>1, <1>4, <2>1, Parts, Stores, KeyValues
<1> QED
  BY <1>5, <1>6, <1>7, <1>8

\* A step revokes for good: see RevokedForGood.
LEMMA RevocationStep ==
    ASSUME SharedAuthAssumption, Strong, [Next]_vars, NEW h \in Stored
    PROVE  /\ ~Current(h) \/ Revokes(db[Token(h)].owner) => ~Current(h)'
           /\ h \in Stored' => db'[Token(h)] = db[Token(h)]
<1> DEFINE token == db[Token(h)]
           u == token.owner
           r == Subject(u)
<1>1. h \in Hash /\ db[Token(h)] # NoRow /\ Inductive
  BY StrongParts DEF Stored, Exists
<1>2. token \in TokenRow
  BY <1>1, Parts, Stores, KeyValues, KeysInRow
<1>3. u \in Uid /\ token.generation \in Nat
  BY <1>2 DEF TokenRow
<1>4. Exists(r) /\ token.generation <= db[r]
  BY DEF Strong, TokensKept
<1>5. db[r] \in Nat
  BY <1>1, <1>3, <1>4, Parts, Stores, KeyValues, KeysInRow DEF Exists
<1>6. h \in Stored' => db'[Token(h)] = token
  BY <1>1, NextRows, TokenRowsStay
<1>7. Grow
  <2>1. CASE db' = db
    <3>1. \A v \in Uid : Exists(Subject(v)) => db[Subject(v)] \in Nat
      BY <1>1, Parts, Stores, KeyValues, KeysInRow DEF Exists
    <3> QED
      BY <2>1, <3>1 DEF Grow, Exists
  <2> QED
    BY <2>1, NextRows, CommitGrows
<1>8. Revokes(u) => db[r] < db'[r]
  <2>1. SUFFICES ASSUME Revokes(u) PROVE db[r] < db'[r]
    OBVIOUS
  <2>2. ASSUME \A t \in Tx : ~Commits(t), db' = db \/ Revoked(u)
        PROVE  db[r] < db'[r]
    BY <1>4, <2>1, <2>2 DEF Revokes, Revoked, Exists
  <2> QED
    BY <1>3, <1>4, <2>1, <2>2, NextRows, CommitRevokes
<1>9. ASSUME Current(h)', ~Current(h) \/ Revokes(u)
      PROVE  FALSE
  <2>1. h \in Stored' /\ db'[Token(h)].generation = db'[Subject(db'[Token(h)].owner)]
    BY <1>1, <1>9 DEF Current, Stored
  <2>2. db'[r] = token.generation
    BY <1>6, <2>1
  <2>3. db[r] = db'[r]
    <3>1. db[r] <= db'[r] /\ db'[r] <= db[r]
      BY <1>3, <1>4, <1>7, <2>2 DEF Grow
    <3> QED
      BY <1>3, <1>5, <2>2, <3>1
  <2>4. Current(h)
    BY <1>1, <1>4, <2>2, <2>3 DEF Current, Exists
  <2> QED
    BY <1>5, <1>8, <1>9, <2>3, <2>4
<1> QED
  BY <1>6, <1>9

\* Revocation is complete and final: it leaves none of the account's stored tokens current, a
\* token that is not current never is again, and a stored hash gets no other row (auth.go:154,
\* migrations 006 and 007).
THEOREM RevocationFinal == Spec => RevokedForGood
<1>1. Strong /\ [Next]_vars =>
          [\A h \in Stored : /\ ~Current(h) \/ Revokes(db[Token(h)].owner) => ~Current(h)'
                             /\ h \in Stored' => db'[Token(h)] = db[Token(h)]]_vars
  BY RevocationStep, SharedAuthAssumption
<1> QED
  BY <1>1, StrongInvariant, PTL DEF Spec, RevokedForGood

\* A Refresh that commits takes the old token out of use and stores exactly one other for the
\* same account, generation and client, with the same binding or the selected profile
\* (auth.go:33-92).
THEOREM RefreshesReplace == Spec => RefreshReplaces
<1>1. ASSUME SharedAuthAssumption, Strong, [Next]_vars, NEW t \in Tx, Commits(t),
             Op(t) = "refresh"
      PROVE  LET old == loc[t].token
             IN  /\ old \in Stored
                 /\ \E new \in Hash \ Stored :
                       LET was == db[Token(old)]
                           is  == db'[Token(new)]
                       IN  /\ Stored' = (Stored \ {old}) \cup {new}
                           /\ is.owner = was.owner /\ is.client = was.client
                           /\ is.generation = was.generation
                           /\ is.identity = IF was.identity = None THEN call[t].selected
                                                                  ELSE was.identity
  <2> DEFINE old == loc[t].token
  <2>1. Commit(t) /\ Inductive /\ KnowsMore(t) /\ pc[t] = "commit" /\ Authorizes(t)
    BY <1>1, NextRows, StrongParts DEF Commits, Authorizes
  <2>2. TokenRead(t)
    BY <2>1, Parts, IsAuthorized DEF Unauthorized, Outside, Authorized
  <2>3. seen[t][Token(old)] = db[Token(old)] /\ old \in Hash /\ old \in Stored
    BY <2>1, <2>2, CommitRows DEF TokenRead, Stored, Exists
  <2>4. PICK new \in Hash \ {old} :
            /\ DOMAIN buf[t] = {Token(old), Token(new)} /\ buf[t][Token(old)] = NoRow
            /\ buf[t][Token(new)] # NoRow
            /\ buf[t][Token(new)].owner = loc[t].uid
            /\ buf[t][Token(new)].client = seen[t][Token(old)].client
            /\ buf[t][Token(new)].generation = seen[t][Token(old)].generation
            /\ buf[t][Token(new)].identity = Bound(t)
    BY <1>1, <2>1 DEF KnowsMore, RefreshWrites
  <2>5. new \notin Stored
    <3>1. seen[t][Token(new)] = NoRow
      BY <2>1, <2>4 DEF KnowsMore, HasWritten
    <3>2. db[Token(new)] = NoRow
      BY <2>1, <2>4, <3>1, CommitRows
    <3> QED
      BY <3>2 DEF Stored, Exists
  <2>6. /\ db'[Token(old)] = NoRow /\ db'[Token(new)] = buf[t][Token(new)]
        /\ \A h \in Hash \ {old, new} : db'[Token(h)] = db[Token(h)]
    <3>1. \A h \in Hash : Token(h) \in Row
      BY KeysInRow
    <3>2. \A h \in Hash \ {old, new} : Token(h) \notin DOMAIN buf[t]
      BY <2>4, KeysOne
    <3> QED
      BY <2>1, <2>3, <2>4, <3>1, <3>2, CommitRows DEF View
  <2>7. Stored' = (Stored \ {old}) \cup {new}
    BY <2>3, <2>4, <2>6 DEF Stored, Exists
  <2>8. db[Token(old)].owner = loc[t].uid
    BY <2>2, <2>3 DEF TokenRead
  <2> QED
    BY <2>3, <2>4, <2>5, <2>6, <2>7, <2>8 DEF Bound
<1>2. Strong /\ [Next]_vars =>
          [\A t \in Tx : Commits(t) /\ Op(t) = "refresh" =>
              LET old == loc[t].token
              IN  /\ old \in Stored
                  /\ \E new \in Hash \ Stored :
                        LET was == db[Token(old)]
                            is  == db'[Token(new)]
                        IN  /\ Stored' = (Stored \ {old}) \cup {new}
                            /\ is.owner = was.owner /\ is.client = was.client
                            /\ is.generation = was.generation
                            /\ is.identity = IF was.identity = None THEN call[t].selected
                                                                   ELSE was.identity]_vars
  BY <1>1, SharedAuthAssumption
<1> QED
  BY <1>2, StrongInvariant, PTL DEF Spec, RefreshReplaces

-----------------------------------------------------------------------------
(* Deadlocks.                                                              *)

\* Each kind of row is locked by a few statements; the rows of the site are only shared.
LEMMA WaitKinds ==
    ASSUME SharedAuthAssumption, Inductive, NEW t \in Tx
    PROVE  /\ SharesAt(t) \subseteq SiteRows \cup SessionRows
           /\ SharesAt(t) \cap SessionRows # {} => pc[t] \in {"insertSession", "lockSession"}
           /\ LocksAt(t) \subseteq SubjectRows \cup TokenRows \cup IdentityRows \cup SessionRows
           /\ LocksAt(t) \cap SubjectRows # {} =>
                 pc[t] \in {"lockGeneration", "ensureSubject", "bump"}
           /\ LocksAt(t) \cap TokenRows # {} =>
                 pc[t] \in {"lockToken", "lockVictims", "deleteTokens"}
           /\ LocksAt(t) \cap IdentityRows # {} => pc[t] = "loginProfiles"
           /\ LocksAt(t) \cap SessionRows # {} =>
                 pc[t] \in {"clearSession", "insertSession", "compareSession", "deleteSessions"}
<1>1. /\ Knows(t) /\ LocalTypeOK /\ StoreTypeOK /\ loc[t] \in Local
      /\ call[t] \in Call /\ WellFormed(call[t])
  BY Parts DEF LocalTypeOK, Knows, Arguments
<1>2. pc[t] \in {"insertSession", "lockSession", "clearSession", "compareSession"} =>
          call[t].server \in Server
  BY <1>1 DEF Knows, Route, Op, WellFormed
<1>3. SharesAt(t) \subseteq SiteRows \cup SessionRows
  <2>1. CASE pc[t] = "begin"
    BY <2>1, OfKind DEF SharesAt, GateLock
  <2>2. CASE pc[t] = "lockUser"
    <3>1. SharesAt(t) = {User(loc[t].uid)} /\ loc[t].uid \in Uid
      BY <1>1, <2>2 DEF SharesAt, UserLock, Knows, Arguments
    <3> QED
      BY <3>1, OfKind
  <2>3. CASE pc[t] = "lockPlayer"
    <3>1. SharesAt(t) = {Player(seen[t][Token(loc[t].token)].identity)}
      BY <2>3 DEF SharesAt, PlayerLock
    <3>2. TokenRead(t) /\ seen[t][Token(loc[t].token)].identity # None
      BY <1>1, <2>3 DEF Knows, Route, Unauthorized, Outside
    <3>3. seen[t][Token(loc[t].token)] \in TokenRow
      BY <1>1, <3>2, Stores, KeyValues DEF TokenRead
    <3>4. seen[t][Token(loc[t].token)].identity \in Pid
      BY <3>2, <3>3 DEF TokenRow
    <3>5. Player(seen[t][Token(loc[t].token)].identity) \in SiteRows
      BY <3>4, OfKind
    <3> QED
      BY <3>1, <3>5
  <2>4. CASE pc[t] = "select"
    <3>1. SharesAt(t) \subseteq {Player(call[t].selected)}
      BY <2>4 DEF SharesAt, SelectedLock
    <3>2. call[t].selected \in Pid
      BY <1>1, <2>4 DEF Knows, Route, Call
    <3>3. Player(call[t].selected) \in SiteRows
      BY <3>2, OfKind
    <3> QED
      BY <3>1, <3>3
  <2>5. CASE pc[t] = "loginProfiles"
    <3>1. SharesAt(t) = {Player(p) : p \in PlayersOf(loc[t].uid)}
      BY <2>5 DEF SharesAt, ProfileLocks
    <3> QED
      BY <3>1 DEF PlayersOf, SiteRows
  <2>6. CASE pc[t] \in {"insertSession", "lockSession"}
    <3>1. SharesAt(t) \subseteq {Session(call[t].server)}
      BY <2>6 DEF SharesAt, SessionLock
    <3> QED
      BY <1>2, <2>6, <3>1, OfKind
  <2>7. CASE pc[t] \notin {"begin", "lockUser", "lockPlayer", "select", "loginProfiles",
                           "insertSession", "lockSession"}
    BY <2>7 DEF SharesAt
  <2> QED
    BY <2>1, <2>2, <2>3, <2>4, <2>5, <2>6, <2>7
<1>4. SharesAt(t) \cap SessionRows # {} => pc[t] \in {"insertSession", "lockSession"}
  <2>1. pc[t] \in {"begin", "lockUser", "lockPlayer", "select"} => SharesAt(t) \cap SessionRows = {}
    BY DEF SharesAt, GateLock, UserLock, PlayerLock, SelectedLock, SessionRows, Gate, User, Player,
           Session
  <2>2. pc[t] = "loginProfiles" => SharesAt(t) \cap SessionRows = {}
    BY DEF SharesAt, ProfileLocks, SessionRows, Player, Session
  <2>3. pc[t] \notin {"begin", "lockUser", "lockPlayer", "select", "loginProfiles",
                      "insertSession", "lockSession"} => SharesAt(t) = {}
    BY DEF SharesAt
  <2> QED
    BY <2>1, <2>2, <2>3
<1>5. pc[t] \in {"lockGeneration", "ensureSubject", "bump"} => LocksAt(t) \subseteq SubjectRows
  <2>1. SUFFICES ASSUME pc[t] \in {"lockGeneration", "ensureSubject", "bump"}
                 PROVE  LocksAt(t) \subseteq SubjectRows
    OBVIOUS
  <2>2. LocksAt(t) = {Subject(loc[t].uid)} /\ loc[t].uid \in Uid
    BY <1>1, <2>1 DEF LocksAt, SubjectLock, Knows, Route, Arguments
  <2> QED
    BY <2>2, OfKind
<1>6. pc[t] \in {"lockToken", "lockVictims", "deleteTokens"} => LocksAt(t) \subseteq TokenRows
  <2>1. CASE pc[t] = "lockToken"
    <3>1. LocksAt(t) = {Token(loc[t].token)} /\ loc[t].token \in Hash
      BY <1>1, <2>1 DEF LocksAt, TokenLock, Knows, Arguments
    <3> QED
      BY <3>1, OfKind
  <2>2. CASE pc[t] = "lockVictims"
    BY <2>2 DEF LocksAt, VictimLocks, EvictionCandidates, TokenRows
  <2>3. CASE pc[t] = "deleteTokens"
    <3>1. LocksAt(t) = {Token(h) : h \in UNION OldestTokens}
      BY <2>3 DEF LocksAt
    <3>2. UNION OldestTokens \subseteq Hash
      BY DEF OldestTokens, Oldest, ExpiredTokens
    <3> QED
      BY <3>1, <3>2 DEF TokenRows
  <2> QED
    BY <2>1, <2>2, <2>3
<1>7. pc[t] = "loginProfiles" => LocksAt(t) \subseteq IdentityRows
  BY DEF LocksAt, Provisioned, PlayersOf, IdentityRows
<1>8. pc[t] \in {"clearSession", "insertSession", "compareSession", "deleteSessions"} =>
          LocksAt(t) \subseteq SessionRows
  <2>1. CASE pc[t] \in {"clearSession", "insertSession", "compareSession"}
    <3>1. LocksAt(t) \subseteq {Session(call[t].server)}
      BY <2>1 DEF LocksAt, SessionLock
    <3> QED
      BY <1>2, <2>1, <3>1, OfKind
  <2>2. CASE pc[t] = "deleteSessions"
    <3>1. LocksAt(t) = {Session(s) : s \in UNION OldestSessions}
      BY <2>2 DEF LocksAt
    <3>2. UNION OldestSessions \subseteq Server
      BY DEF OldestSessions, Oldest, ExpiredSessions
    <3> QED
      BY <3>1, <3>2 DEF SessionRows
  <2> QED
    BY <2>1, <2>2
<1>9. pc[t] \notin {"lockGeneration", "ensureSubject", "bump", "lockToken", "lockVictims",
                    "deleteTokens", "loginProfiles", "clearSession", "insertSession",
                    "compareSession", "deleteSessions"} => LocksAt(t) = {}
  BY DEF LocksAt
<1> HIDE DEF SharesAt, LocksAt
<1> QED
  BY <1>3, <1>4, <1>5, <1>6, <1>7, <1>8, <1>9, Kinds

\* The rows that transactions wait for: those they lock exclusively, or share while another
\* may have locked them exclusively.
Contended == SubjectRows \cup TokenRows \cup IdentityRows \cup SessionRows

\* o waits for a row that t holds, at the statement that locks this kind of row.
WaitsAt(o, t, r) ==
    /\ r \in DOMAIN seen[t]
    /\ r \in SubjectRows => pc[o] \in {"lockGeneration", "ensureSubject", "bump"}
    /\ r \in TokenRows => pc[o] \in {"lockToken", "lockVictims", "deleteTokens"}
    /\ r \in IdentityRows => pc[o] = "loginProfiles"
    /\ r \in SessionRows => pc[o] \in {"clearSession", "insertSession", "compareSession",
                                       "deleteSessions", "lockSession"}

LEMMA Waiting ==
    ASSUME SharedAuthAssumption, Strong, NEW o \in Tx, NEW t \in Tx, WaitsFor(o, t)
    PROVE  \E r \in Contended : WaitsAt(o, t, r)
<1>1. Inductive /\ LockOrder(t) /\ excl[t] \subseteq DOMAIN seen[t]
  BY StrongParts, Parts DEF KnowsMore, StoreInv, WritesLocked
<1>2. CASE SharesAt(o) \cap excl[t] # {}
  <2>1. PICK r \in SharesAt(o) : r \in excl[t]
    BY <1>2
  <2>2. r \notin SiteRows
    BY <1>1, <2>1 DEF LockOrder
  <2>3. r \in SessionRows /\ pc[o] \in {"insertSession", "lockSession"}
    BY <1>1, <2>1, <2>2, WaitKinds
  <2> QED
    BY <1>1, <2>1, <2>3, Kinds DEF WaitsAt, Contended
<1>3. CASE LocksAt(o) \cap DOMAIN seen[t] # {}
  <2>1. PICK r \in LocksAt(o) : r \in DOMAIN seen[t]
    BY <1>3
  <2>2. r \in Contended
    BY <1>1, <2>1, WaitKinds DEF Contended
  <2>3. WaitsAt(o, t, r)
    BY <1>1, <2>1, WaitKinds DEF WaitsAt
  <2> QED
    BY <2>2, <2>3
<1> QED
  BY <1>2, <1>3 DEF WaitsFor

\* The lock order (state, user, subject, token, player, identity, session) leaves one way to
\* deadlock: Joins of one server id that hold the shared lock of a duplicate key and ask for
\* the exclusive one (auth.go:184-190).  Kind by kind, nobody in a cycle can be at a statement
\* that locks rows which come earlier than those it is waited for.
THEOREM DeadlocksAreJoins == Spec => []OnlyJoinsDeadlock
<1>1. ASSUME SharedAuthAssumption, Strong, NEW C \in SUBSET Tx, Deadlock(C), NEW t \in C
      PROVE  pc[t] = "compareSession"
  <2>1. \A m \in C : m \in Tx /\ LockOrder(m)
    BY <1>1, StrongParts DEF KnowsMore
  <2>2. \A m \in C : \E o \in C, r \in Contended : WaitsAt(o, m, r)
    <3>1. ASSUME NEW m \in C
          PROVE  \E o \in C, r \in Contended : WaitsAt(o, m, r)
      <4>1. PICK o \in C : WaitsFor(o, m)
        BY <1>1 DEF Deadlock
      <4> QED
        BY <1>1, <4>1, Waiting
    <3> QED
      BY <3>1
  <2>3. \A m \in C : pc[m] \notin BeforeSubject
    <3>1. ASSUME NEW m \in C, pc[m] \in BeforeSubject
          PROVE  FALSE
      <4>1. PICK o \in C, r \in Contended : WaitsAt(o, m, r)
        BY <2>2
      <4>2. DOMAIN seen[m] \cap Contended = {}
        BY <2>1, <3>1 DEF LockOrder, Contended, BeforeToken, BeforeIdentity, BeforeSession
      <4> QED
        BY <4>1, <4>2 DEF WaitsAt
    <3> QED
      BY <3>1
  <2>4. \A m \in C : pc[m] \notin BeforeToken
    <3>1. ASSUME NEW m \in C, pc[m] \in BeforeToken
          PROVE  FALSE
      <4>1. PICK o \in C, r \in Contended : WaitsAt(o, m, r)
        BY <2>2
      <4>2. r \notin SubjectRows
        BY <2>3, <4>1 DEF WaitsAt, BeforeSubject
      <4>3. DOMAIN seen[m] \cap (TokenRows \cup IdentityRows \cup SessionRows) = {}
        BY <2>1, <3>1 DEF LockOrder, BeforeIdentity, BeforeSession
      <4> QED
        BY <4>1, <4>2, <4>3 DEF WaitsAt, Contended
    <3> QED
      BY <3>1
  <2>5. \A m \in C : pc[m] \notin BeforeIdentity
    <3>1. ASSUME NEW m \in C, pc[m] \in BeforeIdentity
          PROVE  FALSE
      <4>1. PICK o \in C, r \in Contended : WaitsAt(o, m, r)
        BY <2>2
      <4>2. r \notin SubjectRows \cup TokenRows
        BY <2>4, <4>1 DEF WaitsAt, BeforeToken, BeforeSubject
      <4>3. DOMAIN seen[m] \cap (IdentityRows \cup SessionRows) = {}
        BY <2>1, <3>1 DEF LockOrder, BeforeSession
      <4> QED
        BY <4>1, <4>2, <4>3 DEF WaitsAt, Contended
    <3> QED
      BY <3>1
  <2>6. \A m \in C, o \in C, r \in Contended : WaitsAt(o, m, r) => r \in SessionRows
    BY <2>5 DEF WaitsAt, Contended, BeforeIdentity, BeforeToken, BeforeSubject
  <2>7. \A m \in C : pc[m] \notin BeforeSession
    <3>1. ASSUME NEW m \in C, pc[m] \in BeforeSession
          PROVE  FALSE
      <4>1. PICK o \in C, r \in Contended : WaitsAt(o, m, r)
        BY <2>2
      <4>2. DOMAIN seen[m] \cap SessionRows = {}
        BY <2>1, <3>1 DEF LockOrder
      <4> QED
        BY <2>6, <4>1, <4>2 DEF WaitsAt
    <3> QED
      BY <3>1
  <2>8. PICK o \in C : WaitsFor(t, o)
    BY <1>1 DEF Deadlock
  <2>9. pc[t] \in {"insertSession", "compareSession"}
    <3>1. PICK r \in Contended : WaitsAt(t, o, r)
      BY <1>1, <2>1, <2>8, Waiting
    <3>2. r \in SessionRows
      BY <2>6, <3>1
    <3> QED
      BY <2>7, <3>1, <3>2 DEF WaitsAt, BeforeSession
  <2>10. ASSUME pc[t] = "insertSession"
         PROVE  FALSE
    <3>1. PICK m \in C, r \in Contended : WaitsAt(m, t, r)
      BY <2>2
    <3>2. r \in DOMAIN seen[t] /\ r \in SessionRows
      BY <2>6, <3>1 DEF WaitsAt
    <3>3. r = Session(call[t].server) /\ r \in DOMAIN buf[t] /\ buf[t][r] = NoRow
      BY <2>1, <2>10, <3>2 DEF LockOrder, SessionRows
    <3>4. r \in excl[t] /\ (o # t => excl[t] \cap DOMAIN seen[o] = {})
      BY <1>1, <2>1, <3>3, StrongParts, Parts DEF StoreInv, WritesLocked, LocksExclude
    <3>5. SharesAt(t) = {} /\ LocksAt(t) = {r}
      BY <2>10, <3>3 DEF SharesAt, LocksAt, Taken, View, SessionLock
    <3> QED
      BY <2>8, <3>4, <3>5 DEF WaitsFor
  <2> QED
    BY <2>9, <2>10
<1>2. Strong => OnlyJoinsDeadlock
  BY <1>1, SharedAuthAssumption DEF OnlyJoinsDeadlock
<1> QED
  BY <1>2, StrongInvariant, PTL

-----------------------------------------------------------------------------
(***************************************************************************)
(* The limit on an account's live tokens: Limited is preserved by every    *)
(* action, and TokenLimitHolds and EvictsOldest follow from it.            *)
(*                                                                         *)
(* Only COMMIT changes the stored tokens, so every other step of t is      *)
(* judged by Fits(t)'; what the others rely on stays, because a token      *)
(* becomes live only under the lock of its owner's subject.                *)
(***************************************************************************)

(* Live tokens.                                                            *)

\* What Limited says of one transaction.
Fits(t) == LoginFits(t) /\ RefreshFits(t) /\ OthersDrop(t)

LEMMA LimitedParts ==
    ASSUME Limited
    PROVE  /\ Strong /\ Inductive /\ IsFiniteSet(Stored) /\ TokenLimitHolds
           /\ \A t \in Tx : Fits(t) /\ Knows(t) /\ KnowsMore(t)
BY StrongParts, Parts DEF Limited, Fits

LEMMA LiveStored ==
    ASSUME IsFiniteSet(Stored), NEW u
    PROVE  LiveOf(u) \subseteq Stored /\ IsFiniteSet(LiveOf(u)) /\ Cardinality(LiveOf(u)) \in Nat
<1>1. LiveOf(u) \subseteq Stored
  BY DEF LiveOf, Live, Current, Stored
<1> QED
  BY <1>1, FS_Subset, FS_CardinalityType

\* Fewer elements and one more.
LEMMA Fewer ==
    ASSUME NEW S, IsFiniteSet(S), NEW R, R \subseteq S, NEW x
    PROVE  /\ IsFiniteSet(R) /\ Cardinality(R) \in Nat /\ Cardinality(S) \in Nat
           /\ Cardinality(R) <= Cardinality(S)
           /\ Cardinality(R \cup {x}) \in Nat /\ Cardinality(S \cup {x}) \in Nat
           /\ Cardinality(R \cup {x}) <= Cardinality(S \cup {x})
           /\ Cardinality(S \cup {x}) <= Cardinality(S) + 1
<1>1. IsFiniteSet(R) /\ Cardinality(R) <= Cardinality(S)
  BY FS_Subset
<1>2. /\ IsFiniteSet(S \cup {x})
      /\ Cardinality(S \cup {x}) = IF x \in S THEN Cardinality(S) ELSE Cardinality(S) + 1
  BY FS_AddElement
<1>3. IsFiniteSet(R \cup {x}) /\ Cardinality(R \cup {x}) <= Cardinality(S \cup {x})
  <2>1. R \cup {x} \in SUBSET (S \cup {x})
    OBVIOUS
  <2> QED
    BY <1>2, <2>1, FS_Subset
<1>4. Cardinality(R) \in Nat /\ Cardinality(S) \in Nat
  BY <1>1, FS_CardinalityType
<1>5. Cardinality(R \cup {x}) \in Nat /\ Cardinality(S \cup {x}) \in Nat
  BY <1>2, <1>3, FS_CardinalityType
<1> QED
  BY <1>1, <1>2, <1>3, <1>4, <1>5

LEMMA SameLive ==
    ASSUME db' = db, now' = now
    PROVE  Stored' = Stored /\ \A u : LiveOf(u)' = LiveOf(u)
BY DEF Stored, LiveOf, Live, Current, Exists

\* A token that is live was, unless it is new.
LEMMA LiveShrinks ==
    ASSUME SharedAuthAssumption, Strong, [Next]_vars, now' \in Nat, now <= now', NEW h \in Stored,
           Live(h)'
    PROVE  Live(h) /\ db'[Token(h)] = db[Token(h)]
<1>1. Current(h)' /\ h \in Stored' /\ now' < db'[Token(h)].expires
  BY DEF Live, Current, Stored
<1>2. Current(h) /\ db'[Token(h)] = db[Token(h)]
  BY <1>1, RevocationStep
<1>3. Inductive /\ h \in Hash /\ db[Token(h)] # NoRow
  BY StrongParts DEF Stored, Exists
<1>4. db[Token(h)] \in TokenRow
  BY <1>3, Parts, Stores, KeyValues, KeysInRow
<1>5. db[Token(h)].expires \in Nat /\ now \in Nat
  BY <1>3, <1>4, Parts DEF TokenRow, LocalTypeOK
<1> QED
  BY <1>1, <1>2, <1>5 DEF Live

-----------------------------------------------------------------------------
(* The steps of the others.                                                *)

\* A transaction still fits while others move, if its account gets no live token meanwhile.
LEMMA FitsStays ==
    ASSUME Limited, Inductive', NEW o \in Tx, now <= now',
           pc'[o] = pc[o], call'[o] = call[o], loc'[o] = loc[o],
           seen'[o] = seen[o], excl'[o] = excl[o], buf'[o] = buf[o],
           Subject(loc[o].uid) \in excl[o] => LiveOf(loc[o].uid)' \subseteq LiveOf(loc[o].uid)
    PROVE  Fits(o)'
<1> DEFINE u == loc[o].uid
           r == Subject(u)
<1>1. /\ Inductive /\ IsFiniteSet(Stored) /\ LoginFits(o) /\ RefreshFits(o) /\ OthersDrop(o)
      /\ Op(o)' = Op(o) /\ StoreTypeOK /\ StoreInv /\ StoreInv'
  BY LimitedParts, Parts DEF Fits, Op, Inductive
<1>2. LoginFits(o)'
  <2>1. CASE Op(o) # "authenticate" \/ pc[o] \notin {"lockVictims", "loginProfiles", "bind", "issue", "commit"}
    BY <1>1, <2>1 DEF LoginFits
  <2>2. CASE Op(o) = "authenticate" /\ pc[o] \in {"lockVictims", "loginProfiles", "bind", "issue", "commit"}
    <3>1. r \in excl[o] /\ (r \in DOMAIN buf[o] => seen[o][r] = NoRow)
      BY <1>1, <2>2 DEF LoginFits
    <3>2. LiveOf(u)' \subseteq LiveOf(u)
      BY <3>1
    <3>3. Generation(o)' = Generation(o)
      <4>1. r \in DOMAIN seen[o]
        BY <1>1, <3>1 DEF StoreInv, WritesLocked
      <4>2. db'[r] = db[r]
        BY <1>1, <4>1 DEF StoreInv, SeenIsCurrent
      <4> QED
        BY <4>2 DEF Generation, View
    <3>4. Mine(o)' = Mine(o) /\ Evicted(o)' = Evicted(o)
      BY DEF Mine, Evicted
    <3>5. pc[o] \in {"loginProfiles", "bind", "issue", "commit"} =>
              /\ LiveOf(u)' \subseteq Mine(o) /\ Cardinality(Mine(o)) <= TokenLimit
              /\ \A h \in Mine(o) : /\ seen[o][Token(h)].owner = u
                                    /\ seen[o][Token(h)].generation = Generation(o)
      BY <1>1, <2>2, <3>2 DEF LoginFits
    <3>6. pc[o] \in {"loginProfiles", "bind", "issue"} =>
              \A h \in Hash : Token(h) \in DOMAIN seen[o] => h \in Mine(o)
      BY <1>1, <2>2 DEF LoginFits
    <3>7. pc[o] = "commit" =>
              \E new \in Hash \ Mine(o), X \in Evicted(o) :
                  /\ \A h \in Hash : Token(h) \in DOMAIN buf[o] => h \in X \cup {new}
                  /\ \A h \in X : Token(h) \in DOMAIN buf[o] /\ buf[o][Token(h)] = NoRow
                  /\ buf[o][Token(new)] # NoRow => buf[o][Token(new)].owner = u
      BY <1>1, <2>2 DEF LoginFits
    <3> QED
      BY <1>1, <3>1, <3>3, <3>4, <3>5, <3>6, <3>7 DEF LoginFits
  <2> QED
    BY <2>1, <2>2
<1>3. RefreshFits(o)'
  <2>1. ASSUME Op(o) = "refresh", pc[o] \in {"select", "deleteOld", "issue", "commit"}
        PROVE  Cardinality(LiveOf(u)' \cup {loc[o].token}) <= TokenLimit
    <3>1. r \in excl[o] /\ Cardinality(LiveOf(u) \cup {loc[o].token}) <= TokenLimit
      BY <1>1, <2>1 DEF RefreshFits, Unauthorized, Outside
    <3>2. LiveOf(u)' \subseteq LiveOf(u) /\ IsFiniteSet(LiveOf(u)) /\ TokenLimit \in Nat
      BY <1>1, <3>1, LiveStored, SharedAuthAssumption DEF SharedAuthAssumption
    <3> HIDE DEF u
    <3>3. /\ Cardinality(LiveOf(u)' \cup {loc[o].token}) <= Cardinality(LiveOf(u) \cup {loc[o].token})
          /\ Cardinality(LiveOf(u)' \cup {loc[o].token}) \in Nat
          /\ Cardinality(LiveOf(u) \cup {loc[o].token}) \in Nat
      BY <3>2, Fewer
    <3> QED
      BY <3>1, <3>2, <3>3
  <2> QED
    BY <1>1, <2>1 DEF RefreshFits
<1>4. OthersDrop(o)'
  <2>1. ASSUME NEW h \in Hash, Token(h) \in DOMAIN buf[o], pc[o] # "fail", Op(o) = "cleanup"
        PROVE  seen[o][Token(h)] # NoRow /\ seen[o][Token(h)].expires <= now'
    <3>1. seen[o][Token(h)] # NoRow /\ seen[o][Token(h)].expires <= now
      BY <1>1, <2>1 DEF OthersDrop
    <3>2. Token(h) \in DOMAIN seen[o]
      BY <1>1, <2>1 DEF StoreInv, WritesLocked
    <3>3. seen[o][Token(h)] \in TokenRow
      BY <1>1, <3>1, <3>2, Stores, KeyValues
    <3>4. seen[o][Token(h)].expires \in Nat
      BY <3>3 DEF TokenRow
    <3>5. now \in Nat /\ now' \in Nat
      BY <1>1 DEF Inductive, TypeOK
    <3> QED
      BY <3>1, <3>4, <3>5
  <2> QED
    BY <1>1, <2>1 DEF OthersDrop
<1> QED
  BY <1>2, <1>3, <1>4 DEF Fits

\* One transaction moves and commits nothing: it is enough to look at that one.
LEMMA OneFits ==
    ASSUME Limited, Strong', NEW t \in Tx, db' = db, now' = now, OthersLeft(t), Fits(t)'
    PROVE  Limited'
<1>1. Stored' = Stored /\ \A u : LiveOf(u)' = LiveOf(u)
  BY SameLive
<1>2. IsFiniteSet(Stored)' /\ TokenLimitHolds'
  BY <1>1 DEF Limited, TokenLimitHolds
<1>3. ASSUME NEW o \in Tx
      PROVE  Fits(o)'
  <2>1. CASE o = t
    BY <2>1
  <2>2. CASE o # t
    <3>1. now <= now' /\ Inductive'
      BY LimitedParts, Parts DEF LocalTypeOK, Strong
    <3> QED
      BY <1>1, <2>2, <3>1, FitsStays DEF OthersLeft
  <2> QED
    BY <2>1, <2>2
<1> QED
  BY <1>2, <1>3 DEF Limited, Fits

-----------------------------------------------------------------------------
(* The statements that leave the limit alone.                              *)

\* A transaction that fails promises nothing.
LEMMA FitsFail ==
    ASSUME NEW t \in Tx, pc'[t] = "fail"
    PROVE  Fits(t)'
BY DEF Fits, LoginFits, RefreshFits, OthersDrop, Unauthorized, Outside

\* Nor does one that has not locked a subject.
LEMMA FitsEarly ==
    ASSUME Strong', NEW t \in Tx, pc'[t] \in BeforeSubject
    PROVE  Fits(t)'
<1>1. Route(t)' /\ LockOrder(t)' /\ StoreInv'
  BY DEF Strong, Inductive, Knows, KnowsMore
<1>2. LoginFits(t)'
  BY DEF LoginFits, BeforeSubject
<1>3. RefreshFits(t)'
  BY <1>1 DEF RefreshFits, BeforeSubject, Unauthorized, Outside, Route, Authorizes
<1>4. OthersDrop(t)'
  <2>1. DOMAIN seen'[t] \cap TokenRows' = {} /\ DOMAIN buf'[t] \subseteq DOMAIN seen'[t]
    BY <1>1 DEF LockOrder, BeforeToken, StoreInv, WritesLocked
  <2>2. TokenRows' = TokenRows
    BY DEF TokenRows
  <2> QED
    BY <2>1, <2>2, OfKind DEF OthersDrop
<1> QED
  BY <1>2, <1>3, <1>4 DEF Fits

\* A Refresh has its subject locked.
LEMMA FitsRefresh ==
    ASSUME Strong', NEW t \in Tx, Op(t)' = "refresh",
           pc'[t] \in {"select", "deleteOld", "issue", "commit"} =>
               Cardinality(LiveOf(loc[t].uid)' \cup {loc[t].token}) <= TokenLimit,
           loc'[t].uid = loc[t].uid, loc'[t].token = loc[t].token
    PROVE  Fits(t)'
<1>1. Knows(t)' /\ LockOrder(t)'
  BY DEF Strong, Inductive, KnowsMore
<1>2. LoginFits(t)' /\ OthersDrop(t)'
  BY DEF LoginFits, OthersDrop
<1>3. ASSUME pc'[t] \notin Unauthorized \cup {"lockGeneration"}
      PROVE  Subject(loc'[t].uid) \in excl'[t]
  <2>1. SubjectRead(t)' /\ UserRead(t)'
    BY <1>1, <1>3 DEF Knows, Authorizes, Unauthorized
  <2>2. Subject(loc'[t].uid) \in DOMAIN seen'[t] /\ loc'[t].uid \in Uid
    BY <2>1 DEF SubjectRead, UserRead
  <2>3. DOMAIN seen'[t] \cap SubjectRows' \subseteq excl'[t] /\ SubjectRows' = SubjectRows
    BY <1>1 DEF LockOrder, SubjectRows
  <2> QED
    BY <2>2, <2>3, OfKind
<1>4. RefreshFits(t)'
  BY <1>3 DEF RefreshFits, Unauthorized
<1> QED
  BY <1>2, <1>4 DEF Fits

\* A Refresh that has been given its room keeps it.
LEMMA RefreshGoesOn ==
    ASSUME Limited, Strong', NEW t \in Tx, Op(t) = "refresh", call' = call, db' = db, now' = now,
           loc'[t].uid = loc[t].uid, loc'[t].token = loc[t].token,
           pc[t] \in {"select", "deleteOld", "issue"}
    PROVE  Fits(t)'
<1>1. Cardinality(LiveOf(loc[t].uid) \cup {loc[t].token}) <= TokenLimit
  BY LimitedParts DEF Fits, RefreshFits
<1>2. Op(t)' = "refresh" /\ LiveOf(loc[t].uid)' = LiveOf(loc[t].uid)
  BY SameLive DEF Op
<1> QED
  BY <1>1, <1>2, FitsRefresh

\* t writes no token.
WritesNoToken(t) ==
    \A h \in Hash : Token(h) \in DOMAIN buf'[t] =>
                        Token(h) \in DOMAIN buf[t] /\ buf'[t][Token(h)] = buf[t][Token(h)]

LEMMA FitsQuiet ==
    ASSUME Limited, Strong', NEW t \in Tx, Op(t) \notin {"authenticate", "refresh"},
           call' = call, loc'[t].token = loc[t].token, db' = db, now' = now, pc[t] # "fail",
           WritesNoToken(t)
    PROVE  Fits(t)'
<1>1. Op(t)' = Op(t) /\ OthersDrop(t) /\ StoreInv /\ StoreInv'
  BY LimitedParts, Parts DEF Fits, Op, Strong, Inductive
<1>2. LoginFits(t)' /\ RefreshFits(t)'
  BY <1>1 DEF LoginFits, RefreshFits
<1>3. \A h \in Hash : Token(h) \in DOMAIN buf'[t] => seen'[t][Token(h)] = seen[t][Token(h)]
  BY <1>1 DEF WritesNoToken, StoreInv, SeenIsCurrent, WritesLocked
<1>4. OthersDrop(t)'
  BY <1>1, <1>3 DEF OthersDrop, WritesNoToken
<1> QED
  BY <1>2, <1>4 DEF Fits

\* Statements that write no token.
LEMMA StatementQuiet ==
    ASSUME Inductive, NEW t \in Tx, NEW sh, NEW ex, NEW w, Statement(t, sh, ex, w),
           DOMAIN w \cap TokenRows = {}
    PROVE  WritesNoToken(t) /\ db' = db
<1>1. buf'[t] = Over(w, buf[t]) /\ db' = db
  BY Parts DEF Statement, StoreTypeOK, StoreShape
<1>2. \A h \in Hash : Token(h) \notin DOMAIN w
  BY OfKind
<1> QED
  BY <1>1, <1>2 DEF WritesNoToken, Over

-----------------------------------------------------------------------------
(* A transaction's own steps.                                              *)

\* A step of t writes the locks, writes and variables of t alone.
LEMMA StepLeaves ==
    ASSUME Inductive, NEW t \in Tx,
           (\E c \in Calls : Start(t, c)) \/ Step(t) \/ SqlError(t) \/ AbortVictim(t)
    PROVE  OthersLeft(t)
<1> DEFINE LocksLeft == \A o \in Tx \ {t} : /\ seen'[o] = seen[o] /\ excl'[o] = excl[o]
                                           /\ buf'[o] = buf[o]
           VarsLeft == \A o \in Tx \ {t} : /\ pc'[o] = pc[o] /\ call'[o] = call[o]
                                          /\ loc'[o] = loc[o]
<1>1. /\ DOMAIN seen = Tx /\ DOMAIN excl = Tx /\ DOMAIN buf = Tx
      /\ DOMAIN pc = Tx /\ DOMAIN call = Tx /\ DOMAIN loc = Tx
  BY Parts DEF StoreTypeOK, StoreShape, LocalTypeOK
<1>2. ASSUME NEW sh, NEW ex, NEW w, Statement(t, sh, ex, w)
      PROVE  LocksLeft
  BY <1>1, <1>2 DEF Statement
<1>3. ASSUME UNCHANGED store \/ Release(t)
      PROVE  LocksLeft
  BY <1>1, <1>3 DEF Release, store
<1>4. ASSUME NEW label, Goto(t, label), UNCHANGED call,
             loc' = loc \/ \E v : loc' = [loc EXCEPT ![t] = v]
      PROVE  VarsLeft
  BY <1>1, <1>4 DEF Goto
<1>5. ASSUME Return(t) \/ \E c \in Calls : Start(t, c)
      PROVE  VarsLeft
  BY <1>1, <1>5 DEF Return, Start, Goto
<1>6. ASSUME NEW ok, NEW label, Check(t, ok, label)
      PROVE  \E l : Goto(t, l)
  BY <1>6 DEF Check
<1> HIDE DEF LocksLeft, VarsLeft
<1>7. CASE (\E c \in Calls : Start(t, c)) \/ SqlError(t) \/ AbortVictim(t)
  BY <1>3, <1>4, <1>5, <1>7 DEF Start, SqlError, AbortVictim, local, OthersLeft, LocksLeft, VarsLeft
<1>8. ASSUME \E label : Goto(t, label),
             \/ call' = call /\ (loc' = loc \/ \E v : loc' = [loc EXCEPT ![t] = v])
             \/ Return(t),
             UNCHANGED store \/ Release(t) \/ \E sh, ex, w : Statement(t, sh, ex, w)
      PROVE  OthersLeft(t)
  BY <1>2, <1>3, <1>4, <1>5, <1>8 DEF OthersLeft, LocksLeft, VarsLeft
<1> USE DEF Check, local
<1>9. CASE Begin(t)
  BY <1>8, <1>9 DEF Begin
<1>10. CASE Authorize(t)
  <2>1. CASE FindOwner(t) \/ CheckExpiry(t)
    BY <1>8, <2>1 DEF FindOwner, CheckExpiry
  <2>2. CASE LockUser(t) \/ LockGeneration(t) \/ LockToken(t)
    BY <1>8, <2>2 DEF LockUser, LockGeneration, LockToken
  <2>3. CASE LockPlayer(t)
    BY <1>8, <2>3 DEF LockPlayer
  <2> QED
    BY <1>10, <2>1, <2>2, <2>3 DEF Authorize
<1>11. CASE AuthenticateOrSignout(t)
  <2>1. CASE Resolve(t) \/ Verify(t)
    BY <1>8, <2>1 DEF Resolve, Verify, Return
  <2>2. CASE CheckLogin(t) \/ EnsureSubject(t) \/ LockVictims(t)
    BY <1>8, <2>2 DEF CheckLogin, EnsureSubject, LockVictims
  <2>3. CASE LoginProfiles(t)
    BY <1>8, <2>3 DEF LoginProfiles
  <2>4. CASE BindLogin(t)
    BY <1>8, <2>4 DEF BindLogin
  <2>5. CASE Issue(t) \/ Bump(t)
    BY <1>8, <2>5 DEF Issue, Bump
  <2> QED
    BY <1>11, <2>1, <2>2, <2>3, <2>4, <2>5 DEF AuthenticateOrSignout
<1>12. CASE RefreshOrInvalidate(t)
  BY <1>8, <1>12 DEF RefreshOrInvalidate, Select, DeleteOld, DeleteInvalidated
<1>13. CASE JoinOrHasJoined(t)
  <2>1. CASE ClearSession(t) \/ InsertSession(t)
    BY <1>8, <2>1 DEF ClearSession, InsertSession
  <2>2. CASE CompareSession(t) \/ CheckName(t) \/ LockSession(t)
    BY <1>8, <2>2 DEF CompareSession, CheckName, LockSession
  <2>3. CASE FindSession(t)
    BY <1>8, <2>3 DEF FindSession
  <2> QED
    BY <1>13, <2>1, <2>2, <2>3 DEF JoinOrHasJoined
<1>14. CASE Cleanup(t)
  BY <1>8, <1>14 DEF Cleanup, DeleteTokens, DeleteSessions
<1>15. CASE Commit(t) \/ Rollback(t)
  BY <1>8, <1>15 DEF Commit, Rollback, CommitTx, RollbackTx, Return
<1> QED
  BY <1>7, <1>9, <1>10, <1>11, <1>12, <1>13, <1>14, <1>15 DEF Step

\* No statement of t but DELETE and INSERT on tokens matters to the limit.
LEMMA FitsUnlessIssuing ==
    ASSUME Limited, Strong', NEW t \in Tx, Op(t) # "authenticate", call' = call,
           loc'[t].uid = loc[t].uid, loc'[t].token = loc[t].token, db' = db, now' = now,
           pc[t] # "fail", WritesNoToken(t),
           Op(t) = "refresh" => pc'[t] \notin {"select", "deleteOld", "issue", "commit"}
    PROVE  Fits(t)'
<1>1. Op(t)' = Op(t)
  BY DEF Op
<1> QED
  BY <1>1, FitsQuiet, FitsRefresh

LEMMA NoStatement ==
    ASSUME NEW t \in Tx, UNCHANGED store
    PROVE  WritesNoToken(t) /\ db' = db
BY DEF WritesNoToken, store

LEMMA FitsAuthorize ==
    ASSUME SharedAuthAssumption, Limited, Strong', NEW t \in Tx, Authorize(t)
    PROVE  Fits(t)'
<1>1. /\ Inductive /\ LocalTypeOK /\ Knows(t) /\ TypeOK /\ TokenLimitHolds /\ IsFiniteSet(Stored)
      /\ DOMAIN pc = Tx /\ DOMAIN loc = Tx /\ DOMAIN NoWrites \cap TokenRows = {}
  BY LimitedParts, Parts, RowsNone DEF LocalTypeOK, Inductive
<1>2. CASE FindOwner(t)
  <2>1. /\ pc[t] = "findOwner" /\ call' = call /\ now' = now /\ UNCHANGED store
        /\ Op(t) # "authenticate"
    BY <1>1, <1>2 DEF FindOwner, local, Knows, Route, Authorizes
  <2>2. CASE Goto(t, "lockUser")
    BY <1>1, <2>2, GotoEffect, FitsEarly DEF BeforeSubject
  <2>3. CASE UNCHANGED loc /\ Check(t, Op(t) = "invalidate", "commit")
    <3>1. pc'[t] = "fail" \/ Op(t) = "invalidate"
      BY <1>1, <2>3, CheckEffect
    <3> QED
      BY <2>1, <2>3, <3>1, FitsFail, FitsUnlessIssuing, NoStatement
  <2> QED
    BY <1>2, <2>2, <2>3 DEF FindOwner
<1>3. CASE LockUser(t)
  <2>1. pc'[t] \in {"lockGeneration", "checkLogin", "fail"}
    BY <1>1, <1>3, GotoEffect, CheckEffect DEF LockUser
  <2> QED
    BY <2>1, FitsFail, FitsEarly DEF BeforeSubject
<1>4. CASE LockGeneration(t) \/ LockToken(t)
  <2>1. /\ pc[t] \in {"lockGeneration", "lockToken"} /\ call' = call /\ now' = now /\ loc' = loc
        /\ Op(t) # "authenticate" /\ Statement(t, {}, LocksAt(t), NoWrites)
    BY <1>1, <1>4 DEF LockGeneration, LockToken, local, Knows, Route, Authorizes
  <2>2. pc'[t] \in {"lockToken", "checkExpiry", "lockPlayer", "fail"}
    <3>1. CASE LockGeneration(t)
      BY <1>1, <3>1, CheckEffect DEF LockGeneration
    <3>2. CASE LockToken(t)
      <4> DEFINE token == db[Token(loc[t].token)]
                 ok == token # NoRow /\ TokenAccepted(t, token)
                 next == IF token = NoRow \/ token.identity = None THEN "checkExpiry" ELSE "lockPlayer"
      <4>1. Check(t, ok, next)
        BY <3>2 DEF LockToken
      <4>2. pc'[t] = IF ok THEN next ELSE "fail"
        <5> HIDE DEF ok, next
        <5> QED
          BY <1>1, <4>1, CheckEffect
      <4> QED
        BY <4>2
    <3> QED
      BY <1>4, <3>1, <3>2
  <2>3. WritesNoToken(t) /\ db' = db
    BY <1>1, <2>1, StatementQuiet
  <2> QED
    BY <2>1, <2>2, <2>3, FitsUnlessIssuing
<1>5. CASE LockPlayer(t)
  <2>1. /\ pc[t] = "lockPlayer" /\ call' = call /\ now' = now /\ loc'[t].uid = loc[t].uid
        /\ loc'[t].token = loc[t].token /\ Op(t) # "authenticate"
        /\ Statement(t, SharesAt(t), {}, NoWrites)
    BY <1>1, <1>5 DEF LockPlayer, local, Knows, Route, Authorizes, LocalTypeOK, Local
  <2>2. pc'[t] \in {"checkExpiry", "fail"}
    BY <1>1, <1>5, CheckEffect DEF LockPlayer
  <2>3. WritesNoToken(t) /\ db' = db
    BY <1>1, <2>1, StatementQuiet
  <2> QED
    BY <2>1, <2>2, <2>3, FitsUnlessIssuing
<1>6. CASE CheckExpiry(t)
  <2>1. /\ pc[t] = "checkExpiry" /\ call' = call /\ now' = now /\ loc' = loc /\ UNCHANGED store
        /\ Authorizes(t) /\ Op(t) # "authenticate"
    BY <1>1, <1>6 DEF CheckExpiry, local, Knows, Route, Authorizes
  <2>2. pc'[t] = "fail" \/ now < seen[t][Token(loc[t].token)].expires
    <3> DEFINE ok == now < seen[t][Token(loc[t].token)].expires
               next == CASE Op(t) = "validate" -> "commit"
                 [] Op(t) = "refresh"  -> IF call[t].selected = None THEN "deleteOld" ELSE "select"
                 [] Op(t) = "join"     -> "clearSession"
                 [] OTHER              -> "checkName"
    <3>1. Check(t, ok, next)
      BY <1>6 DEF CheckExpiry
    <3> HIDE DEF ok, next
    <3>2. pc'[t] = "fail" \/ ok
      BY <1>1, <3>1, CheckEffect
    <3> QED
      BY <3>2 DEF ok
  <2>3. CASE Op(t) # "refresh"
    BY <2>1, <2>3, FitsUnlessIssuing, NoStatement
  <2>4. CASE Op(t) = "refresh" /\ now < seen[t][Token(loc[t].token)].expires
    <3> DEFINE h == loc[t].token
               u == loc[t].uid
    <3>1. TokenRead(t) /\ SubjectRead(t) /\ UserRead(t)
      BY <1>1, <2>1 DEF Knows, Unauthorized, Outside
    <3>2. /\ h \in Hash /\ db[Token(h)] # NoRow /\ db[Token(h)].owner = u
          /\ db[Subject(u)] # NoRow /\ db[Token(h)].generation = db[Subject(u)]
          /\ now < db[Token(h)].expires
      BY <1>1, <2>4, <3>1, Parts DEF TokenRead, SubjectRead, StoreInv, SeenIsCurrent
    <3>3. h \in LiveOf(u) /\ u \in Uid
      BY <3>1, <3>2 DEF LiveOf, Live, Current, Exists, UserRead
    <3>4. LiveOf(u)' \cup {h} = LiveOf(u)
      BY <2>1, <3>3, SameLive, NoStatement
    <3>5. Cardinality(LiveOf(u)' \cup {h}) <= TokenLimit
      BY <1>1, <3>3, <3>4 DEF TokenLimitHolds
    <3>6. Op(t)' = "refresh"
      BY <2>1, <2>4 DEF Op
    <3> QED
      BY <2>1, <3>5, <3>6, FitsRefresh
  <2> QED
    BY <2>2, <2>3, <2>4, FitsFail
<1> QED
  BY <1>2, <1>3, <1>4, <1>5, <1>6 DEF Authorize

LEMMA FitsRefreshOrInvalidate ==
    ASSUME SharedAuthAssumption, Limited, Strong', NEW t \in Tx, RefreshOrInvalidate(t)
    PROVE  Fits(t)'
<1>1. /\ Inductive /\ LocalTypeOK /\ Knows(t) /\ DOMAIN pc = Tx /\ DOMAIN loc = Tx
      /\ DOMAIN buf = Tx /\ OthersDrop(t)
  BY LimitedParts, Parts DEF LocalTypeOK, Fits, StoreTypeOK, StoreShape
<1>2. CASE Select(t) \/ DeleteOld(t)
  <2>1. /\ pc[t] \in {"select", "deleteOld"} /\ Op(t) = "refresh" /\ call' = call /\ now' = now
        /\ loc'[t].uid = loc[t].uid /\ loc'[t].token = loc[t].token
    BY <1>1, <1>2 DEF Select, DeleteOld, local, Knows, Route, LocalTypeOK, Local
  <2>2. db' = db
    BY <1>2 DEF Select, DeleteOld, Statement
  <2> QED
    BY <2>1, <2>2, RefreshGoesOn
<1>3. CASE DeleteInvalidated(t)
  <2> DEFINE r == Token(loc[t].token)
             token == db[r]
             ok == token = NoRow \/ MatchesClient(token.client, call[t].client)
             w == IF token # NoRow /\ ok THEN Drop({r}) ELSE NoWrites
  <2>1. /\ pc[t] = "lockToken" /\ Op(t) = "invalidate" /\ call' = call /\ loc' = loc
        /\ Statement(t, {}, LocksAt(t), w)
    BY <1>3 DEF DeleteInvalidated, local
  <2>2. DOMAIN w \subseteq {r} /\ \A x \in DOMAIN w : w[x] = NoRow
    BY RowsNone DEF Drop
  <2> HIDE DEF w, r
  <2>3. buf'[t] = Over(w, buf[t])
    BY <1>1, <2>1 DEF Statement
  <2>4. ASSUME NEW h \in Hash, Token(h) \in DOMAIN buf'[t]
        PROVE  h = loc[t].token /\ buf'[t][Token(h)] = NoRow
    <3>1. CASE Token(h) \in DOMAIN w
      BY <2>2, <2>3, <3>1, KeysOne DEF Over, r
    <3>2. CASE Token(h) \notin DOMAIN w
      <4>1. Token(h) \in DOMAIN buf[t] /\ buf'[t][Token(h)] = buf[t][Token(h)]
        BY <2>3, <2>4, <3>2 DEF Over
      <4> QED
        BY <1>1, <2>1, <4>1 DEF OthersDrop
    <3> QED
      BY <3>1, <3>2
  <2> QED
    BY <2>1, <2>4 DEF Fits, LoginFits, RefreshFits, OthersDrop, Op
<1> QED
  BY <1>2, <1>3 DEF RefreshOrInvalidate

LEMMA FitsJoinOrHasJoined ==
    ASSUME SharedAuthAssumption, Limited, Strong', NEW t \in Tx, JoinOrHasJoined(t)
    PROVE  Fits(t)'
<1> DEFINE s == Session(call[t].server)
<1>1. Inductive /\ LocalTypeOK /\ Knows(t) /\ DOMAIN pc = Tx /\ DOMAIN loc = Tx
  BY LimitedParts, Parts DEF LocalTypeOK
<1>2. Op(t) \in {"join", "hasJoined"} => s \in SessionRows
  BY <1>1, SessionKey, OfKind
<1>3. CASE FindSession(t)
  <2>1. pc'[t] \in {"findOwner", "fail"}
    BY <1>1, <1>3, CheckEffect DEF FindSession
  <2> QED
    BY <2>1, FitsFail, FitsEarly DEF BeforeSubject
<1>4. ASSUME pc[t] # "fail", Op(t) \in {"join", "hasJoined"}, UNCHANGED <<local, loc>>,
             \/ UNCHANGED store
             \/ \E sh, ex, w : Statement(t, sh, ex, w) /\ DOMAIN w \subseteq {s}
      PROVE  Fits(t)'
  <2>1. call' = call /\ loc' = loc /\ now' = now
    BY <1>4 DEF local
  <2>2. WritesNoToken(t) /\ db' = db
    <3>1. ASSUME NEW sh, NEW ex, NEW w, Statement(t, sh, ex, w), DOMAIN w \subseteq {s}
          PROVE  WritesNoToken(t) /\ db' = db
      <4>1. DOMAIN w \cap TokenRows = {}
        BY <1>2, <1>4, <3>1, Kinds
      <4> QED
        BY <1>1, <3>1, <4>1, StatementQuiet
    <3> QED
      BY <1>4, <3>1, NoStatement
  <2> QED
    BY <1>4, <2>1, <2>2, FitsUnlessIssuing
<1>5. /\ DOMAIN NoWrites \subseteq {s} /\ DOMAIN Drop({s}) \subseteq {s}
      /\ DOMAIN Put(s, NewSession(t)) \subseteq {s}
  BY RowsNone DEF Drop, Put
<1> HIDE DEF s
<1>6. CASE ClearSession(t)
  <2>1. pc[t] = "clearSession" /\ Op(t) = "join"
    BY <1>1, <1>6 DEF ClearSession, Knows, Route
  <2>2. UNCHANGED store \/ Statement(t, {}, {}, Drop({s}))
    BY <1>6 DEF ClearSession, s
  <2> QED
    BY <1>4, <1>5, <1>6, <2>1, <2>2 DEF ClearSession
<1>7. CASE InsertSession(t)
  <2>1. pc[t] = "insertSession" /\ Op(t) = "join"
    BY <1>1, <1>7 DEF InsertSession, Knows, Route
  <2>2. \/ Statement(t, {}, LocksAt(t), Put(s, NewSession(t)))
        \/ Statement(t, SharesAt(t), {}, NoWrites)
    BY <1>7 DEF InsertSession, s
  <2> QED
    BY <1>4, <1>5, <1>7, <2>1, <2>2 DEF InsertSession
<1>8. CASE CompareSession(t) \/ LockSession(t)
  <2>1. pc[t] \in {"compareSession", "lockSession"} /\ Op(t) \in {"join", "hasJoined"}
    BY <1>1, <1>8 DEF CompareSession, LockSession, Knows, Route
  <2>2. UNCHANGED <<local, loc>> /\ \E sh, ex : Statement(t, sh, ex, NoWrites)
    BY <1>8 DEF CompareSession, LockSession
  <2> QED
    BY <1>4, <1>5, <2>1, <2>2
<1>9. CASE CheckName(t)
  <2>1. pc[t] = "checkName" /\ Op(t) = "hasJoined" /\ UNCHANGED <<local, loc>> /\ UNCHANGED store
    BY <1>1, <1>9 DEF CheckName, Knows, Route
  <2> QED
    BY <1>4, <2>1
<1> QED
  BY <1>3, <1>6, <1>7, <1>8, <1>9 DEF JoinOrHasJoined

LEMMA FitsCleanup ==
    ASSUME SharedAuthAssumption, Limited, Strong', NEW t \in Tx, Cleanup(t)
    PROVE  Fits(t)'
<1>1. /\ Inductive /\ LocalTypeOK /\ Knows(t) /\ LockOrder(t) /\ StoreInv /\ StoreInv'
      /\ DOMAIN buf = Tx
  BY LimitedParts, Parts DEF KnowsMore, Strong, Inductive, StoreTypeOK, StoreShape
<1>2. /\ pc[t] \in {"deleteTokens", "deleteSessions"} /\ Op(t) = "cleanup"
      /\ call' = call /\ loc' = loc /\ now' = now
  BY <1>1 DEF Cleanup, DeleteTokens, DeleteSessions, local, Knows, Route
<1>3. CASE DeleteSessions(t)
  <2>1. PICK X \in OldestSessions : Statement(t, {}, {}, Drop({Session(s) : s \in X}))
    BY <1>3 DEF DeleteSessions
  <2>2. DOMAIN Drop({Session(s) : s \in X}) \subseteq SessionRows
    BY OfKind DEF Drop, OldestSessions, Oldest, ExpiredSessions
  <2>3. DOMAIN Drop({Session(s) : s \in X}) \cap TokenRows = {}
    BY <2>2, Kinds
  <2>4. WritesNoToken(t) /\ db' = db
    BY <1>1, <2>1, <2>3, StatementQuiet
  <2> QED
    BY <1>2, <2>4, FitsUnlessIssuing
<1>4. CASE DeleteTokens(t)
  <2>1. PICK X \in OldestTokens : Statement(t, {}, {}, Drop({Token(h) : h \in X}))
    BY <1>4 DEF DeleteTokens
  <2> DEFINE w == Drop({Token(h) : h \in X})
  <2>2. buf'[t] = Over(w, buf[t]) /\ db' = db
    BY <1>1, <2>1 DEF Statement
  <2>3. DOMAIN w = {Token(h) : h \in X} /\ \A r \in DOMAIN w : w[r] = NoRow
    BY DEF Drop
  <2> HIDE DEF w
  <2>4. \A h \in Hash : Token(h) \notin DOMAIN buf[t]
    <3>1. DOMAIN buf[t] \subseteq DOMAIN seen[t]
      BY <1>1 DEF StoreInv, WritesLocked
    <3>2. DOMAIN seen[t] \cap TokenRows = {}
      BY <1>1, <1>4 DEF LockOrder, BeforeToken, BeforeSubject, DeleteTokens
    <3> QED
      BY <3>1, <3>2, OfKind
  <2>5. ASSUME NEW h \in Hash, Token(h) \in DOMAIN buf'[t]
        PROVE  /\ buf'[t][Token(h)] = NoRow
               /\ seen'[t][Token(h)] # NoRow /\ seen'[t][Token(h)].expires <= now
    <3>1. Token(h) \in DOMAIN w /\ buf'[t][Token(h)] = NoRow
      BY <2>2, <2>3, <2>4, <2>5 DEF Over
    <3>2. h \in X
      BY <2>3, <3>1, KeysOne
    <3>3. db[Token(h)] # NoRow /\ db[Token(h)].expires <= now
      BY <3>2 DEF OldestTokens, Oldest, ExpiredTokens, Exists
    <3>4. seen'[t][Token(h)] = db'[Token(h)]
      BY <1>1, <2>5 DEF StoreInv, WritesLocked, SeenIsCurrent
    <3> QED
      BY <2>2, <3>1, <3>3, <3>4
  <2> QED
    BY <1>2, <2>5 DEF Fits, LoginFits, RefreshFits, OthersDrop, Op
<1> QED
  BY <1>3, <1>4 DEF Cleanup

-----------------------------------------------------------------------------
(* Authenticate.                                                           *)

\* What a statement locks, reads and writes.
LEMMA StatementLocks ==
    ASSUME Inductive, Inductive', NEW t \in Tx, NEW sh, NEW ex, NEW w, Statement(t, sh, ex, w)
    PROVE  /\ db' = db /\ buf'[t] = Over(w, buf[t]) /\ excl[t] \subseteq excl'[t]
           /\ DOMAIN seen[t] \subseteq DOMAIN seen'[t]
           /\ DOMAIN seen'[t] \subseteq DOMAIN seen[t] \cup {r \in sh \cup ex : db[r] # NoRow} \cup DOMAIN w
           /\ {r \in ex : db[r] # NoRow} \cup DOMAIN w \subseteq excl'[t]
           /\ {r \in sh \cup ex : db[r] # NoRow} \subseteq DOMAIN seen'[t]
           /\ \A r \in DOMAIN seen[t] : seen[t][r] = db[r]
           /\ \A r \in DOMAIN seen'[t] : seen'[t][r] = db[r]
<1>1. /\ DOMAIN seen = Tx /\ DOMAIN excl = Tx /\ DOMAIN buf = Tx
      /\ StoreInv /\ StoreInv'
  BY Parts DEF StoreTypeOK, StoreShape, Inductive
<1>2. /\ db' = db /\ buf'[t] = Over(w, buf[t])
      /\ excl'[t] = excl[t] \cup {r \in ex : db[r] # NoRow} \cup DOMAIN w
  BY <1>1 DEF Statement
<1>3. DOMAIN seen'[t] = {r \in sh : db[r] # NoRow} \cup ({r \in ex : db[r] # NoRow} \cup DOMAIN w)
                            \cup DOMAIN seen[t]
  BY <1>1 DEF Statement, Over
<1>4. /\ \A r \in DOMAIN seen[t] : seen[t][r] = db[r]
      /\ \A r \in DOMAIN seen'[t] : seen'[t][r] = db[r]
  BY <1>1, <1>2 DEF StoreInv, SeenIsCurrent
<1> QED
  BY <1>2, <1>3, <1>4

LEMMA FitsLogin ==
    ASSUME NEW t \in Tx, Op(t)' = "authenticate", LoginFits(t)'
    PROVE  Fits(t)'
BY DEF Fits, RefreshFits, OthersDrop

\* INSERT ... ON DUPLICATE KEY UPDATE: the subject is locked, and new if it was written.
LEMMA FitsEnsureSubject ==
    ASSUME SharedAuthAssumption, Limited, Strong', NEW t \in Tx, EnsureSubject(t)
    PROVE  Fits(t)'
<1> DEFINE s == Subject(loc[t].uid)
           w == IF Exists(s) THEN NoWrites ELSE Put(s, 1)
<1>1. /\ Inductive /\ LocalTypeOK /\ Knows(t) /\ LockOrder(t) /\ StoreInv /\ Inductive'
      /\ DOMAIN pc = Tx
  BY LimitedParts, Parts DEF KnowsMore, Strong, LocalTypeOK
<1>2. /\ pc[t] = "ensureSubject" /\ Op(t) = "authenticate" /\ call' = call /\ loc' = loc
      /\ loc[t].uid \in Uid /\ pc'[t] = "lockVictims"
  BY <1>1, GotoEffect DEF EnsureSubject, local, Knows, Route, Arguments
<1>3. Statement(t, {}, {s}, w)
  BY <1>2 DEF EnsureSubject, LocksAt, SubjectLock
<1>4. s \notin DOMAIN buf[t]
  <2>1. DOMAIN buf[t] \subseteq DOMAIN seen[t]
    BY <1>1 DEF StoreInv, WritesLocked
  <2>2. DOMAIN seen[t] \cap SubjectRows = {}
    BY <1>1, <1>2 DEF LockOrder, BeforeSubject
  <2> QED
    BY <1>2, <2>1, <2>2, OfKind
<1>5. (db[s] = NoRow => s \in DOMAIN w) /\ (s \in DOMAIN w => db[s] = NoRow)
  BY RowsNone DEF Put, Exists
<1> HIDE DEF w, s
<1>6. /\ buf'[t] = Over(w, buf[t]) /\ {r \in {s} : db[r] # NoRow} \cup DOMAIN w \subseteq excl'[t]
      /\ \A r \in DOMAIN seen'[t] : seen'[t][r] = db[r]
  BY <1>1, <1>3, StatementLocks
<1>7. s \in excl'[t] /\ (s \in DOMAIN buf'[t] => db[s] = NoRow)
  BY <1>4, <1>5, <1>6 DEF Over
<1>8. s \in DOMAIN seen'[t]
  BY <1>1, <1>7 DEF Inductive, StoreInv, WritesLocked
<1>9. LoginFits(t)'
  BY <1>2, <1>6, <1>7, <1>8 DEF LoginFits, Op, s
<1> QED
  BY <1>2, <1>9, FitsLogin DEF Op

\* The candidates are the account's live tokens.
LEMMA CandidatesLive ==
    ASSUME Limited, NEW t \in Tx, SubjectEnsured(t), loc[t].uid \in Uid,
           Subject(loc[t].uid) \in DOMAIN buf[t] => seen[t][Subject(loc[t].uid)] = NoRow
    PROVE  EvictionCandidates(t) = LiveOf(loc[t].uid)
<1> DEFINE u == loc[t].uid
           r == Subject(u)
<1>1. Inductive /\ TokensKept /\ seen[t][r] = db[r]
  BY LimitedParts, Parts DEF Strong, SubjectEnsured, StoreInv, SeenIsCurrent
<1>2. ASSUME NEW h \in Hash, Exists(Token(h)), db[Token(h)].owner = u
      PROVE  Exists(r)
  BY <1>1, <1>2 DEF TokensKept, Stored
<1>3. Exists(r) => Generation(t) = db[r]
  BY <1>1 DEF Generation, View, Exists
<1>4. \A h \in Hash : h \in EvictionCandidates(t) <=> h \in LiveOf(u)
  BY <1>2, <1>3 DEF EvictionCandidates, LiveOf, Live, Current
<1> QED
  BY <1>4 DEF EvictionCandidates, LiveOf

LEMMA FitsLockVictims ==
    ASSUME SharedAuthAssumption, Limited, Strong', NEW t \in Tx, LockVictims(t)
    PROVE  Fits(t)'
<1> DEFINE u == loc[t].uid
           s == Subject(u)
<1>1. /\ Inductive /\ Inductive' /\ LocalTypeOK /\ Knows(t) /\ LockOrder(t) /\ LoginFits(t)
      /\ DOMAIN pc = Tx /\ TokenLimitHolds
  BY LimitedParts, Parts DEF KnowsMore, Strong, LocalTypeOK, Fits
<1>2. /\ pc[t] = "lockVictims" /\ Op(t) = "authenticate" /\ call' = call /\ loc' = loc
      /\ now' = now /\ u \in Uid /\ pc'[t] = "loginProfiles" /\ SubjectEnsured(t)
      /\ Statement(t, {}, LocksAt(t), NoWrites)
  BY <1>1, GotoEffect DEF LockVictims, local, Knows, Route, Arguments
<1>3. s \in excl[t] /\ (s \in DOMAIN buf[t] => seen[t][s] = NoRow) /\ s \in DOMAIN seen[t]
  BY <1>1, <1>2 DEF LoginFits, SubjectEnsured
<1>4. EvictionCandidates(t) = LiveOf(u)
  BY <1>2, <1>3, CandidatesLive
<1>5. LocksAt(t) = {Token(h) : h \in LiveOf(u)}
  BY <1>2, <1>4 DEF LocksAt, VictimLocks
<1>6. /\ db' = db /\ buf'[t] = Over(NoWrites, buf[t]) /\ excl[t] \subseteq excl'[t]
      /\ DOMAIN seen'[t] \subseteq DOMAIN seen[t] \cup {r \in {} \cup LocksAt(t) : db[r] # NoRow} \cup DOMAIN NoWrites
      /\ {r \in {} \cup LocksAt(t) : db[r] # NoRow} \subseteq DOMAIN seen'[t]
      /\ \A r \in DOMAIN seen[t] : seen[t][r] = db[r]
      /\ \A r \in DOMAIN seen'[t] : seen'[t][r] = db[r]
      /\ DOMAIN seen[t] \subseteq DOMAIN seen'[t]
  BY <1>1, <1>2, StatementLocks
<1>7. DOMAIN buf'[t] = DOMAIN buf[t] /\ \A r \in DOMAIN buf[t] : buf'[t][r] = buf[t][r]
  BY <1>6, NoWritesAdded
<1>8. \A h \in Hash : Token(h) \in DOMAIN seen'[t] <=> h \in LiveOf(u)
  <2>1. DOMAIN seen[t] \cap TokenRows = {}
    BY <1>1, <1>2 DEF LockOrder, BeforeToken
  <2>2. \A h \in Hash : Token(h) \notin DOMAIN seen[t]
    BY <2>1, OfKind
  <2>3. \A h \in LiveOf(u) : db[Token(h)] # NoRow
    BY DEF LiveOf, Live, Current, Exists
  <2> QED
    BY <1>5, <1>6, <2>2, <2>3, RowsNone, KeysOne
<1>9. Mine(t)' = LiveOf(u)
  <2>1. \A h \in Hash : h \in Mine(t)' <=> h \in LiveOf(u)
    BY <1>6, <1>8 DEF Mine, LiveOf, Live, Current, Exists
  <2> QED
    BY <2>1 DEF Mine, LiveOf
<1>10. LiveOf(u)' = LiveOf(u) /\ Generation(t)' = Generation(t)
  BY <1>2, <1>6, <1>7, SameLive DEF Generation, View
<1>11. \A h \in LiveOf(u) : db[Token(h)].owner = u /\ db[Token(h)].generation = Generation(t)
  BY <1>4 DEF EvictionCandidates
<1>12. Cardinality(LiveOf(u)) <= TokenLimit
  BY <1>1, <1>2 DEF TokenLimitHolds
<1>13. s \in DOMAIN buf'[t] => seen'[t][s] = NoRow
  BY <1>3, <1>6, <1>7
<1>14. \A h \in Mine(t)' : /\ seen'[t][Token(h)].owner = u
                           /\ seen'[t][Token(h)].generation = Generation(t)'
  <2>1. \A h \in LiveOf(u) : seen'[t][Token(h)] = db[Token(h)]
    BY <1>6, <1>8 DEF LiveOf
  <2> QED
    BY <1>9, <1>10, <1>11, <2>1
<1> HIDE DEF u, s
<1>15. LoginFits(t)'
  <2>1. loc'[t].uid = u
    BY <1>2 DEF u
  <2>2. LiveOf(loc[t].uid)' = LiveOf(u)
    BY <1>10 DEF u
  <2>3. Subject(loc'[t].uid) \in excl'[t] /\ (Subject(loc'[t].uid) \in DOMAIN buf'[t] => seen'[t][Subject(loc'[t].uid)] = NoRow)
    BY <1>3, <1>6, <1>13, <2>1 DEF s
  <2>4. LiveOf(loc[t].uid)' \subseteq Mine(t)' /\ Cardinality(Mine(t)') <= TokenLimit
    BY <1>9, <1>12, <2>2
  <2>5. \A h \in Hash : Token(h) \in DOMAIN seen'[t] => h \in Mine(t)'
    BY <1>8, <1>9
  <2> HIDE DEF s
  <2> QED
    BY <1>2, <1>14, <2>1, <2>3, <2>4, <2>5 DEF LoginFits
<1> QED
  BY <1>2, <1>15, FitsLogin DEF Op

\* A login that reads no other token and writes none goes on as before.
LEMMA LoginGoesOn ==
    ASSUME Limited, Strong', NEW t \in Tx, Op(t) = "authenticate", call' = call, db' = db,
           now' = now, loc'[t].uid = loc[t].uid, loc[t].uid \in Uid,
           pc[t] \in {"loginProfiles", "bind"}, pc'[t] \in {"bind", "issue"},
           excl[t] \subseteq excl'[t], DOMAIN seen[t] \subseteq DOMAIN seen'[t],
           \A r \in SubjectRows \cup TokenRows :
               /\ r \in DOMAIN seen'[t] => r \in DOMAIN seen[t]
               /\ r \in DOMAIN buf'[t] <=> r \in DOMAIN buf[t]
               /\ r \in DOMAIN buf[t] => buf'[t][r] = buf[t][r]
    PROVE  Fits(t)'
<1> DEFINE u == loc[t].uid
           s == Subject(u)
<1>1. LoginFits(t) /\ Inductive /\ Inductive' /\ StoreInv /\ StoreInv'
  BY LimitedParts, Parts DEF Fits, Strong, Inductive
<1>2. s \in excl[t] /\ (s \in DOMAIN buf[t] => seen[t][s] = NoRow)
  BY <1>1 DEF LoginFits
<1>3. /\ LiveOf(u) \subseteq Mine(t) /\ Cardinality(Mine(t)) <= TokenLimit
      /\ \A h \in Mine(t) : /\ seen[t][Token(h)].owner = u
                            /\ seen[t][Token(h)].generation = Generation(t)
      /\ \A h \in Hash : Token(h) \in DOMAIN seen[t] => h \in Mine(t)
  BY <1>1 DEF LoginFits
<1>4. /\ \A r \in DOMAIN seen[t] : seen[t][r] = db[r] /\ seen'[t][r] = db[r]
      /\ s \in DOMAIN seen[t]
  BY <1>1, <1>2 DEF StoreInv, SeenIsCurrent, WritesLocked
<1>5. \A h \in Hash : Token(h) \in DOMAIN seen'[t] <=> Token(h) \in DOMAIN seen[t]
  BY OfKind
<1>6. Mine(t)' = Mine(t)
  BY <1>4, <1>5 DEF Mine
<1>7. Generation(t)' = Generation(t) /\ LiveOf(u)' = LiveOf(u)
  BY SameLive, OfKind DEF Generation, View
<1>8. s \in excl'[t] /\ (s \in DOMAIN buf'[t] => seen'[t][s] = NoRow)
  BY <1>2, <1>4, OfKind
<1>9. \A h \in Mine(t) : seen'[t][Token(h)] = seen[t][Token(h)]
  BY <1>4 DEF Mine
<1>10. LoginFits(t)'
  <2>1. LiveOf(loc[t].uid)' \subseteq Mine(t)'
    BY <1>3, <1>6, <1>7
  <2>2. Subject(loc'[t].uid) = s
    OBVIOUS
  <2> HIDE DEF s
  <2> QED
    BY <1>3, <1>5, <1>6, <1>7, <1>8, <1>9, <2>1, <2>2 DEF LoginFits
<1> QED
  BY <1>10, FitsLogin DEF Op

LEMMA FitsLoginProfiles ==
    ASSUME SharedAuthAssumption, Limited, Strong', NEW t \in Tx, LoginProfiles(t)
    PROVE  Fits(t)'
<1> DEFINE new == Provisioned(t)
           ex == {Identity(p) : p \in new}
           sh == {Player(p) : p \in PlayersOf(loc[t].uid)}
           w == [r \in ex |-> "active"]
<1>1. /\ Inductive /\ Inductive' /\ LocalTypeOK /\ Knows(t) /\ DOMAIN pc = Tx
  BY LimitedParts, Parts DEF Strong, LocalTypeOK
<1>2. /\ pc[t] = "loginProfiles" /\ Op(t) = "authenticate" /\ call' = call /\ now' = now
      /\ loc[t].uid \in Uid /\ pc'[t] = "bind" /\ loc'[t].uid = loc[t].uid
  BY <1>1, GotoEffect DEF LoginProfiles, local, Knows, Route, Arguments, LocalTypeOK, Local
<1>3. SharesAt(t) = sh
  BY <1>2 DEF SharesAt, ProfileLocks
<1>4. LocksAt(t) = ex
  BY <1>2 DEF LocksAt
<1>5. Statement(t, sh, ex, w)
  BY <1>3, <1>4 DEF LoginProfiles
<1>6. sh \subseteq SiteRows /\ ex \subseteq IdentityRows
  BY OfKind DEF PlayersOf, Provisioned
<1>7. DOMAIN w = ex
  OBVIOUS
<1> HIDE DEF ex, sh, w
<1>8. /\ db' = db /\ buf'[t] = Over(w, buf[t]) /\ excl[t] \subseteq excl'[t]
      /\ DOMAIN seen[t] \subseteq DOMAIN seen'[t]
      /\ DOMAIN seen'[t] \subseteq DOMAIN seen[t] \cup {r \in sh \cup ex : db[r] # NoRow} \cup DOMAIN w
  BY <1>1, <1>5, StatementLocks
<1>9. \A r \in SubjectRows \cup TokenRows : r \notin sh \cup ex \cup DOMAIN w
  BY <1>6, <1>7, Kinds
<1>10. \A r \in SubjectRows \cup TokenRows :
           /\ r \in DOMAIN seen'[t] => r \in DOMAIN seen[t]
           /\ r \in DOMAIN buf'[t] <=> r \in DOMAIN buf[t]
           /\ r \in DOMAIN buf[t] => buf'[t][r] = buf[t][r]
  BY <1>8, <1>9 DEF Over
<1> QED
  BY <1>2, <1>8, <1>10, LoginGoesOn

LEMMA FitsBindLogin ==
    ASSUME SharedAuthAssumption, Limited, Strong', NEW t \in Tx, BindLogin(t)
    PROVE  Fits(t)'
<1>1. /\ Inductive /\ LocalTypeOK /\ Knows(t) /\ DOMAIN pc = Tx /\ DOMAIN loc = Tx
  BY LimitedParts, Parts DEF LocalTypeOK
<1>2. /\ pc[t] = "bind" /\ Op(t) = "authenticate" /\ call' = call /\ now' = now
      /\ db' = db /\ seen' = seen /\ excl' = excl /\ buf' = buf
      /\ loc[t].uid \in Uid /\ (Goto(t, "issue") \/ Goto(t, "fail"))
  BY <1>1 DEF BindLogin, local, store, Knows, Route, Arguments
<1>3. pc'[t] \in {"issue", "fail"}
  BY <1>1, <1>2, GotoEffect
<1>4. loc'[t].uid = loc[t].uid
  BY <1>1 DEF BindLogin, LocalTypeOK, Local
<1> QED
  BY <1>2, <1>3, <1>4, FitsFail, LoginGoesOn

\* The victims are chosen among the tokens it holds, and the new token is none of them.
Issuing(t, new, X) ==
    LET u == loc[t].uid
    IN  /\ pc'[t] = "commit" /\ db' = db /\ now' = now /\ call' = call /\ loc' = loc
        /\ Mine(t)' = Mine(t) /\ \A h \in Mine(t) : seen'[t][Token(h)] = seen[t][Token(h)]
        /\ Evicted(t)' = Evicted(t) /\ Generation(t)' = Generation(t) /\ LiveOf(u)' = LiveOf(u)
        /\ new \in Hash \ Mine(t) /\ X \in Evicted(t) /\ X \subseteq Mine(t)
        /\ Subject(u) \in excl'[t]
        /\ Subject(u) \in DOMAIN buf'[t] => seen'[t][Subject(u)] = NoRow
        /\ \A h \in Hash : Token(h) \in DOMAIN buf'[t] <=> h \in X \cup {new}
        /\ \A h \in X : buf'[t][Token(h)] = NoRow
        /\ buf'[t][Token(new)] = NewToken(t)
        /\ \A r \in Row \ TokenRows : /\ r \in DOMAIN buf'[t] <=> r \in DOMAIN buf[t]
                                      /\ r \in DOMAIN buf[t] => buf'[t][r] = buf[t][r]

LEMMA LoginIssues ==
    ASSUME SharedAuthAssumption, Limited, Strong', NEW t \in Tx, pc[t] = "issue",
           Op(t) = "authenticate", UNCHANGED <<local, loc>>, NEW new \in FreshHashes(t),
           NEW X \in Victims(t), Goto(t, "commit"),
           Statement(t, {}, {}, Over(Put(Token(new), NewToken(t)), Drop({Token(v) : v \in X})))
    PROVE  Issuing(t, new, X)
<1> DEFINE u == loc[t].uid
           s == Subject(u)
           D == {Token(v) : v \in X}
           w == Over(Put(Token(new), NewToken(t)), Drop(D))
<1>1. /\ Inductive /\ Inductive' /\ LocalTypeOK /\ Knows(t) /\ KnowsMore(t) /\ LoginFits(t)
      /\ DOMAIN pc = Tx /\ StoreInv /\ StoreInv'
  BY LimitedParts, Parts DEF Strong, LocalTypeOK, Fits, Inductive
<1>2. call' = call /\ loc' = loc /\ now' = now
  BY DEF local
<1>3. pc'[t] = "commit" /\ u \in Uid
  BY <1>1, <1>2, GotoEffect DEF Knows, Arguments
<1>4. /\ s \in excl[t] /\ (s \in DOMAIN buf[t] => seen[t][s] = NoRow)
      /\ LiveOf(u) \subseteq Mine(t) /\ Cardinality(Mine(t)) <= TokenLimit
      /\ \A h \in Mine(t) : /\ seen[t][Token(h)].owner = u
                            /\ seen[t][Token(h)].generation = Generation(t)
      /\ \A h \in Hash : Token(h) \in DOMAIN seen[t] => h \in Mine(t)
  BY <1>1, <1>2 DEF LoginFits
<1>5. X \in Evicted(t) /\ X \subseteq Mine(t)
  <2>1. {h \in Hash : Token(h) \in DOMAIN seen[t]} = Mine(t)
    BY <1>4 DEF Mine
  <2>2. Victims(t) = Evicted(t)
    BY <2>1 DEF Victims, Evicted
  <2> QED
    BY <2>2 DEF Evicted, Oldest
<1>6. \A h \in Hash : Token(h) \notin DOMAIN buf[t]
  BY <1>1, <1>2, OfKind DEF KnowsMore, LoginRead
<1>7. new \in Hash /\ db[Token(new)] = NoRow
  BY <1>6 DEF FreshHashes, View
<1>8. \A r \in DOMAIN seen[t] : seen[t][r] = db[r]
  BY <1>1 DEF StoreInv, SeenIsCurrent
<1>9. new \notin Mine(t) /\ new \notin X
  BY <1>5, <1>7, <1>8 DEF Mine
<1>10. /\ DOMAIN w = {Token(new)} \cup D /\ w[Token(new)] = NewToken(t)
      /\ \A v \in X : Token(v) \in DOMAIN w /\ w[Token(v)] = NoRow
  BY <1>9, KeysOne DEF Over, Put, Drop
<1>11. \A h \in Hash : Token(h) \in D => h \in X
  BY <1>5, KeysOne DEF Mine
<1>12. DOMAIN w \subseteq TokenRows /\ s \notin DOMAIN w
  <2>1. X \subseteq Hash
    BY <1>5 DEF Mine
  <2>2. D \subseteq TokenRows /\ Token(new) \in TokenRows
    BY <1>7, <2>1, OfKind
  <2> HIDE DEF w, D
  <2>3. DOMAIN w \subseteq TokenRows
    BY <1>10, <2>2
  <2> QED
    BY <1>3, <2>3, OfKind, Kinds
<1> HIDE DEF w, D
<1>13. /\ db' = db /\ buf'[t] = Over(w, buf[t]) /\ excl[t] \subseteq excl'[t]
       /\ DOMAIN seen[t] \subseteq DOMAIN seen'[t]
       /\ DOMAIN seen'[t] \subseteq DOMAIN seen[t] \cup {r \in {} \cup {} : db[r] # NoRow} \cup DOMAIN w
       /\ \A r \in DOMAIN seen'[t] : seen'[t][r] = db[r]
  <2>1. Statement(t, {}, {}, w)
    BY DEF w, D
  <2> QED
    BY <1>1, <2>1, StatementLocks
<1>14. Mine(t)' = Mine(t)
  <2>1. ASSUME NEW h \in Hash
        PROVE  h \in Mine(t)' <=> h \in Mine(t)
    <3>1. CASE h \in X \cup {new}
      BY <1>5, <1>7, <1>8, <1>9, <1>13, <3>1 DEF Mine
    <3>2. CASE h \notin X \cup {new}
      <4>1. Token(h) \notin DOMAIN w
        BY <1>10, <1>11, <3>2, KeysOne
      <4> QED
        BY <1>8, <1>13, <4>1 DEF Mine
    <3> QED
      BY <3>1, <3>2
  <2> QED
    BY <2>1 DEF Mine
<1>15. \A h \in Mine(t) : seen'[t][Token(h)] = seen[t][Token(h)]
  BY <1>8, <1>13 DEF Mine
<1>16. Evicted(t)' = Evicted(t)
  <2>1. [h \in Mine(t)' |-> seen'[t][Token(h)].created] = [h \in Mine(t) |-> seen[t][Token(h)].created]
    BY <1>14, <1>15
  <2> QED
    BY <1>14, <2>1 DEF Evicted
<1>17. Generation(t)' = Generation(t)
  <2>1. (s \in DOMAIN buf'[t] <=> s \in DOMAIN buf[t]) /\ (s \in DOMAIN buf[t] => buf'[t][s] = buf[t][s])
    BY <1>12, <1>13 DEF Over
  <2> QED
    BY <1>2, <1>13, <2>1 DEF Generation, View
<1>18. s \in excl'[t] /\ (s \in DOMAIN buf'[t] => seen'[t][s] = NoRow)
  <2>1. s \in DOMAIN seen[t]
    BY <1>1, <1>4 DEF StoreInv, WritesLocked
  <2> QED
    BY <1>4, <1>8, <1>12, <1>13, <2>1 DEF Over
<1>19. LiveOf(loc[t].uid)' = LiveOf(u)
  BY <1>2, <1>13, SameLive
<1>20. \A h \in Hash : Token(h) \in DOMAIN buf'[t] => h \in X \cup {new}
  BY <1>6, <1>10, <1>11, <1>13, KeysOne DEF Over
<1>21. \A h \in X \cup {new} : Token(h) \in DOMAIN buf'[t]
  BY <1>10, <1>13 DEF Over
<1>22. \A h \in X : buf'[t][Token(h)] = NoRow
  BY <1>10, <1>13 DEF Over
<1>23. buf'[t][Token(new)] = NewToken(t)
  BY <1>10, <1>13 DEF Over
<1>24. \A r \in Row \ TokenRows : /\ r \in DOMAIN buf'[t] <=> r \in DOMAIN buf[t]
                                  /\ r \in DOMAIN buf[t] => buf'[t][r] = buf[t][r]
  BY <1>12, <1>13 DEF Over
<1>25. \A h \in Hash : Token(h) \in DOMAIN buf'[t] <=> h \in X \cup {new}
  BY <1>5, <1>7, <1>20, <1>21 DEF Mine
<1> HIDE DEF s
<1> QED
  BY <1>2, <1>3, <1>5, <1>7, <1>9, <1>13, <1>14, <1>15, <1>16, <1>17, <1>18, <1>19, <1>22, <1>23,
     <1>24, <1>25 DEF Issuing, s

LEMMA FitsIssue ==
    ASSUME SharedAuthAssumption, Limited, Strong', NEW t \in Tx, Issue(t)
    PROVE  Fits(t)'
<1> DEFINE u == loc[t].uid
           s == Subject(u)
<1>1. /\ Inductive /\ Inductive' /\ LocalTypeOK /\ Knows(t) /\ KnowsMore(t) /\ LoginFits(t)
      /\ DOMAIN pc = Tx /\ StoreInv /\ StoreInv'
  BY LimitedParts, Parts DEF Strong, LocalTypeOK, Fits, Inductive
<1>2. /\ pc[t] = "issue" /\ Op(t) \in {"authenticate", "refresh"} /\ call' = call /\ loc' = loc
      /\ now' = now
  BY <1>1 DEF Issue, local, Knows, Route
<1>3. CASE Goto(t, "fail") /\ UNCHANGED store
  BY <1>1, <1>3, GotoEffect, FitsFail
<1>4. CASE Op(t) = "refresh"
  <2>1. db' = db
    BY <1>4 DEF Issue, Statement, store
  <2> QED
    BY <1>2, <1>4, <2>1, RefreshGoesOn
<1>5. ASSUME NEW new \in FreshHashes(t), NEW X \in Victims(t), Op(t) = "authenticate",
             Statement(t, {}, {}, Over(Put(Token(new), NewToken(t)), Drop({Token(v) : v \in X}))),
             Goto(t, "commit")
      PROVE  Fits(t)'
  <2>1. Issuing(t, new, X)
    BY <1>2, <1>5, LoginIssues DEF Issue
  <2>2. /\ LiveOf(u) \subseteq Mine(t) /\ Cardinality(Mine(t)) <= TokenLimit
        /\ \A h \in Mine(t) : /\ seen[t][Token(h)].owner = u
                              /\ seen[t][Token(h)].generation = Generation(t)
    BY <1>1, <1>2, <1>5 DEF LoginFits
  <2>3. /\ pc'[t] = "commit" /\ Subject(loc'[t].uid) = s /\ loc'[t].uid = u
        /\ Op(t)' = "authenticate" /\ s \in excl'[t]
        /\ s \in DOMAIN buf'[t] => seen'[t][s] = NoRow
    BY <1>2, <1>5, <2>1 DEF Op, Issuing
  <2>4. LiveOf(loc[t].uid)' \subseteq Mine(t)' /\ Cardinality(Mine(t)') <= TokenLimit
    BY <2>1, <2>2 DEF Issuing
  <2>5. \A h \in Mine(t)' : /\ seen'[t][Token(h)].owner = u
                            /\ seen'[t][Token(h)].generation = Generation(t)'
    BY <2>1, <2>2 DEF Issuing
  <2>6. /\ new \in Hash \ Mine(t)' /\ X \in Evicted(t)'
        /\ \A h \in Hash : Token(h) \in DOMAIN buf'[t] => h \in X \cup {new}
        /\ \A h \in X : Token(h) \in DOMAIN buf'[t] /\ buf'[t][Token(h)] = NoRow
        /\ buf'[t][Token(new)].owner = u
    BY <2>1 DEF Issuing, NewToken, Mine
  <2>7. LoginFits(t)'
    <3> HIDE DEF s, u
    <3> QED
      BY <2>3, <2>4, <2>5, <2>6 DEF LoginFits
  <2> QED
    BY <1>2, <1>5, <2>7, FitsLogin DEF Op
<1> QED
  BY <1>2, <1>3, <1>4, <1>5 DEF Issue

LEMMA FitsAuthenticateOrSignout ==
    ASSUME SharedAuthAssumption, Limited, Strong', NEW t \in Tx, AuthenticateOrSignout(t)
    PROVE  Fits(t)'
<1>1. /\ Inductive /\ LocalTypeOK /\ Knows(t) /\ DOMAIN pc = Tx
  BY LimitedParts, Parts DEF LocalTypeOK
<1>2. CASE Resolve(t) \/ Verify(t)
  <2>1. Goto(t, "verify") \/ Goto(t, "begin") \/ Goto(t, "idle")
    BY <1>2 DEF Resolve, Verify, Return
  <2>2. pc'[t] \in {"verify", "begin", "idle"}
    BY <1>1, <2>1, GotoEffect
  <2> QED
    BY <2>2, FitsEarly DEF BeforeSubject
<1>3. CASE CheckLogin(t)
  <2> DEFINE ok == LoginOwner(call[t].login, loc[t].uid)
             next == IF Op(t) = "signout" THEN "bump" ELSE "ensureSubject"
  <2>1. Check(t, ok, next)
    BY <1>3 DEF CheckLogin
  <2>2. pc'[t] = IF ok THEN next ELSE "fail"
    <3> HIDE DEF ok, next
    <3> QED
      BY <1>1, <2>1, CheckEffect
  <2>3. pc'[t] \in {"bump", "ensureSubject", "fail"}
    BY <2>2
  <2> QED
    BY <2>3, FitsFail, FitsEarly DEF BeforeSubject
<1>4. CASE Bump(t)
  <2>1. /\ pc[t] = "bump" /\ Op(t) = "signout" /\ call' = call /\ loc' = loc /\ now' = now
        /\ loc[t].uid \in Uid
    BY <1>1, <1>4 DEF Bump, local, Knows, Route, Arguments
  <2>2. CASE Goto(t, "fail")
    BY <1>1, <2>2, GotoEffect, FitsFail
  <2>3. CASE Statement(t, {}, LocksAt(t), Put(Subject(loc[t].uid), NextGeneration(loc[t].uid)))
    <3>1. DOMAIN Put(Subject(loc[t].uid), NextGeneration(loc[t].uid)) = {Subject(loc[t].uid)}
      BY DEF Put
    <3>2. DOMAIN Put(Subject(loc[t].uid), NextGeneration(loc[t].uid)) \cap TokenRows = {}
      BY <2>1, <3>1, OfKind, Kinds
    <3> QED
      BY <1>1, <2>1, <2>3, <3>2, StatementQuiet, FitsUnlessIssuing
  <2> QED
    BY <1>4, <2>2, <2>3 DEF Bump
<1> QED
  BY <1>2, <1>3, <1>4, FitsEnsureSubject, FitsLockVictims, FitsLoginProfiles, FitsBindLogin,
     FitsIssue DEF AuthenticateOrSignout

\* Every step of t but COMMIT.
LEMMA FitsNext ==
    ASSUME SharedAuthAssumption, Limited, Strong', NEW t \in Tx, ~Commit(t),
           (\E c \in Calls : Start(t, c)) \/ Step(t) \/ SqlError(t) \/ AbortVictim(t)
    PROVE  Fits(t)'
<1>1. Inductive /\ DOMAIN pc = Tx
  BY LimitedParts, Parts DEF LocalTypeOK
<1>2. ASSUME NEW label \in BeforeSubject \cup {"fail"}, Goto(t, label)
      PROVE  Fits(t)'
  BY <1>1, <1>2, GotoEffect, FitsFail, FitsEarly
<1>3. CASE (\E c \in Calls : Start(t, c)) \/ SqlError(t) \/ AbortVictim(t) \/ Rollback(t)
  <2>1. Goto(t, "resolve") \/ Goto(t, "begin") \/ Goto(t, "idle") \/ Goto(t, "fail")
    BY <1>3 DEF Start, SqlError, AbortVictim, Rollback, Return
  <2> QED
    BY <1>2, <2>1 DEF BeforeSubject
<1>4. CASE Begin(t)
  <2> DEFINE ok == db[Gate] = "active"
             next == CASE Op(t) \in {"authenticate", "signout"} -> "lockUser"
                       [] Op(t) = "hasJoined" -> "findSession"
                       [] Op(t) = "cleanup"   -> "deleteTokens"
                       [] OTHER               -> "findOwner"
  <2>1. Check(t, ok, next)
    BY <1>4 DEF Begin
  <2>2. next \in BeforeSubject
    BY DEF BeforeSubject
  <2> HIDE DEF ok, next
  <2> QED
    BY <1>2, <2>1, <2>2 DEF Check
<1> QED
  BY <1>3, <1>4, FitsAuthorize, FitsAuthenticateOrSignout, FitsRefreshOrInvalidate,
     FitsJoinOrHasJoined, FitsCleanup DEF Step

-----------------------------------------------------------------------------
(* COMMIT.                                                                 *)

\* A token that is new was written under the lock of its subject, and one that is gone deleted.
LEMMA CommittedToken ==
    ASSUME Limited, NEW t \in Tx, Commit(t), NEW h \in Hash
    PROVE  /\ h \in Stored' \ Stored =>
                  /\ Token(h) \in DOMAIN buf[t] /\ buf[t][Token(h)] # NoRow
                  /\ db'[Token(h)] = buf[t][Token(h)] /\ Subject(db'[Token(h)].owner) \in excl[t]
           /\ h \in Stored \ Stored' => Token(h) \in DOMAIN buf[t] /\ buf[t][Token(h)] = NoRow
           /\ Token(h) \in DOMAIN buf[t] =>
                  (h \in Stored' <=> buf[t][Token(h)] # NoRow) /\ db'[Token(h)] = buf[t][Token(h)]
<1>1. Inductive /\ KnowsMore(t) /\ Token(h) \in Row
  BY LimitedParts, KeysInRow
<1>2. db'[Token(h)] = IF Token(h) \in DOMAIN buf[t] THEN buf[t][Token(h)] ELSE db[Token(h)]
  BY <1>1, CommitRows DEF View
<1>3. Token(h) \in DOMAIN buf[t] /\ buf[t][Token(h)] # NoRow => Subject(buf[t][Token(h)].owner) \in excl[t]
  BY <1>1 DEF KnowsMore, HasWritten, Issued
<1> QED
  BY <1>2, <1>3 DEF Stored, Exists

\* What is live after a COMMIT was live before, or is new.
LEMMA LiveAfter ==
    ASSUME SharedAuthAssumption, Limited, [Next]_vars, NEW t \in Tx, Commit(t), NEW u,
           NEW h \in LiveOf(u)'
    PROVE  \/ h \in LiveOf(u)
           \/ /\ h \in Hash /\ h \in Stored' \ Stored /\ Token(h) \in DOMAIN buf[t]
              /\ buf[t][Token(h)] # NoRow /\ buf[t][Token(h)].owner = u /\ Subject(u) \in excl[t]
<1>1. h \in Hash /\ Live(h)' /\ db'[Token(h)].owner = u /\ h \in Stored'
  BY DEF LiveOf, Live, Current, Stored
<1>2. now' = now /\ now \in Nat /\ Strong
  BY LimitedParts, Parts DEF Commit, LocalTypeOK
<1>3. CASE h \in Stored
  <2>1. Live(h) /\ db'[Token(h)] = db[Token(h)]
    BY <1>1, <1>2, <1>3, LiveShrinks
  <2> QED
    BY <1>1, <2>1 DEF LiveOf
<1>4. CASE h \notin Stored
  BY <1>1, <1>4, CommittedToken
<1> QED
  BY <1>3, <1>4

\* A login evicts so many that one more fits.
LEMMA EvictionMakesRoom ==
    ASSUME SharedAuthAssumption, NEW t, IsFiniteSet(Mine(t)), Cardinality(Mine(t)) <= TokenLimit,
           NEW X \in Evicted(t)
    PROVE  /\ X \subseteq Mine(t) /\ IsFiniteSet(X)
           /\ Cardinality(Mine(t) \ X) + 1 <= TokenLimit
           /\ Cardinality(X) \in {0, 1}
           /\ X # {} => Cardinality(Mine(t)) = TokenLimit
<1> DEFINE n == Cardinality(Mine(t))
           k == IF n < TokenLimit THEN 0 ELSE n - TokenLimit + 1
<1>1. n \in Nat /\ TokenLimit \in Nat \ {0}
  BY FS_CardinalityType DEF SharedAuthAssumption
<1>2. X \subseteq Mine(t) /\ Cardinality(X) = IF n < k THEN n ELSE k
  BY DEF Evicted, Oldest
<1>3. IsFiniteSet(X) /\ Cardinality(X) \in Nat
  BY <1>2, FS_Subset, FS_CardinalityType
<1>4. Cardinality(Mine(t) \ X) = n - Cardinality(X)
  <2>1. Mine(t) \cap X = X
    BY <1>2
  <2> QED
    BY <2>1, FS_Difference
<1>5. X # {} => Cardinality(X) # 0
  BY <1>3, FS_EmptySet
<1> HIDE DEF n
<1>6. (n < TokenLimit => k = 0) /\ (n = TokenLimit => k = 1)
  BY <1>1
<1> HIDE DEF k
<1>7. n < TokenLimit \/ n = TokenLimit
  BY <1>1 DEF n
<1>8. CASE n < TokenLimit
  BY <1>1, <1>2, <1>3, <1>4, <1>5, <1>6, <1>8
<1>9. CASE n = TokenLimit
  BY <1>1, <1>2, <1>3, <1>4, <1>5, <1>6, <1>9 DEF n
<1> QED
  BY <1>7, <1>8, <1>9

LEMMA MineStored ==
    ASSUME Limited, NEW t \in Tx
    PROVE  Mine(t) \subseteq Stored /\ IsFiniteSet(Mine(t))
<1>1. StoreInv /\ IsFiniteSet(Stored)
  BY LimitedParts, Parts
<1>2. Mine(t) \subseteq Stored
  BY <1>1 DEF Mine, Stored, Exists, StoreInv, SeenIsCurrent
<1> QED
  BY <1>1, <1>2, FS_Subset

\* A COMMIT stores at most one token more, and only where there is room for it.
LEMMA CommitMakesRoom ==
    ASSUME SharedAuthAssumption, Limited, [Next]_vars, NEW t \in Tx, Commit(t)
    PROVE  \E new :
               /\ Stored' \subseteq Stored \cup {new}
               /\ \A u \in Uid : \/ LiveOf(u)' \subseteq LiveOf(u)
                                 \/ \E S : /\ IsFiniteSet(S) /\ Cardinality(S) + 1 <= TokenLimit
                                           /\ LiveOf(u)' \subseteq S \cup {new}
<1> DEFINE u == loc[t].uid
<1>1. /\ Inductive /\ KnowsMore(t) /\ LoginFits(t) /\ RefreshFits(t) /\ OthersDrop(t)
      /\ IsFiniteSet(Stored) /\ pc[t] = "commit"
  BY LimitedParts DEF Fits, Commit
<1>2. \A h : h \in Stored' => h \in Hash
  BY DEF Stored
<1>3. \A h, v : h \in LiveOf(v)' => h \in Stored'
  BY DEF LiveOf, Live, Current, Stored
<1>4. CASE Op(t) \notin {"authenticate", "refresh"}
  <2>1. \A h \in Hash : ~(Token(h) \in DOMAIN buf[t] /\ buf[t][Token(h)] # NoRow)
    BY <1>1, <1>4 DEF OthersDrop
  <2>2. Stored' \subseteq Stored
    BY <1>2, <2>1, CommittedToken
  <2>3. \A v : LiveOf(v)' \subseteq LiveOf(v)
    BY <2>1, LiveAfter
  <2> QED
    BY <2>2, <2>3
<1>5. ASSUME NEW new \in Hash, NEW S, IsFiniteSet(S), Cardinality(S) + 1 <= TokenLimit,
             \A h \in Hash : Token(h) \in DOMAIN buf[t] /\ buf[t][Token(h)] # NoRow =>
                                 h = new /\ buf[t][Token(h)].owner = u,
             \A h \in LiveOf(u) : h \in S \/ Token(h) \in DOMAIN buf[t]
      PROVE  \E n :
                 /\ Stored' \subseteq Stored \cup {n}
                 /\ \A v \in Uid : \/ LiveOf(v)' \subseteq LiveOf(v)
                                   \/ \E R : /\ IsFiniteSet(R) /\ Cardinality(R) + 1 <= TokenLimit
                                             /\ LiveOf(v)' \subseteq R \cup {n}
  <2>1. Stored' \subseteq Stored \cup {new}
    BY <1>2, <1>5, CommittedToken
  <2>2. ASSUME NEW v \in Uid, v # u
        PROVE  LiveOf(v)' \subseteq LiveOf(v)
    BY <1>5, <2>2, LiveAfter
  <2>3. ASSUME NEW v \in Uid, v = u
        PROVE  LiveOf(v)' \subseteq S \cup {new}
    <3>1. SUFFICES ASSUME NEW h \in LiveOf(v)' PROVE h \in S \cup {new}
      OBVIOUS
    <3>2. h \in Hash /\ h \in Stored'
      BY <1>2, <1>3
    <3>3. Token(h) \in DOMAIN buf[t] => h = new
      BY <1>5, <3>2, CommittedToken
    <3>4. h \in LiveOf(v) \/ Token(h) \in DOMAIN buf[t]
      BY LiveAfter
    <3> QED
      BY <1>5, <2>3, <3>3, <3>4
  <2> QED
    BY <1>5, <2>1, <2>2, <2>3
<1>6. CASE Op(t) = "refresh"
  <2> DEFINE old == loc[t].token
             L == LiveOf(u)
  <2>1. PICK new \in Hash \ {old} :
            /\ DOMAIN buf[t] = {Token(old), Token(new)} /\ buf[t][Token(old)] = NoRow
            /\ buf[t][Token(new)].owner = u
    BY <1>1, <1>6 DEF KnowsMore, RefreshWrites
  <2>2. IsFiniteSet(L) /\ Cardinality(L \cup {old}) <= TokenLimit
    BY <1>1, <1>6, LiveStored DEF RefreshFits
  <2>3. IsFiniteSet(L \ {old}) /\ Cardinality(L \ {old}) + 1 <= TokenLimit
    <3> HIDE DEF L, old
    <3>1. IsFiniteSet(L \ {old})
      BY <2>2, FS_Subset
    <3>2. old \notin L \ {old} /\ (L \ {old}) \cup {old} = L \cup {old}
      OBVIOUS
    <3>3. Cardinality(L \cup {old}) = Cardinality(L \ {old}) + 1
      BY <3>1, <3>2, FS_AddElement
    <3> QED
      BY <2>2, <3>1, <3>3
  <2>4. \A h \in Hash : Token(h) \in DOMAIN buf[t] /\ buf[t][Token(h)] # NoRow =>
                            h = new /\ buf[t][Token(h)].owner = u
    BY <2>1, KeysOne
  <2>5. \A h \in LiveOf(u) : h \in L \ {old} \/ Token(h) \in DOMAIN buf[t]
    BY <2>1
  <2> HIDE DEF L, u
  <2> QED
    BY <1>5, <2>3, <2>4, <2>5
<1>7. CASE Op(t) = "authenticate"
  <2>1. LiveOf(u) \subseteq Mine(t) /\ Cardinality(Mine(t)) <= TokenLimit
    BY <1>1, <1>7 DEF LoginFits
  <2>2. PICK new \in Hash \ Mine(t), X \in Evicted(t) :
            /\ \A h \in Hash : Token(h) \in DOMAIN buf[t] => h \in X \cup {new}
            /\ \A h \in X : Token(h) \in DOMAIN buf[t] /\ buf[t][Token(h)] = NoRow
            /\ buf[t][Token(new)] # NoRow => buf[t][Token(new)].owner = u
    BY <1>1, <1>7 DEF LoginFits
  <2>3. IsFiniteSet(Mine(t) \ X) /\ Cardinality(Mine(t) \ X) + 1 <= TokenLimit
    <3>1. IsFiniteSet(Mine(t))
      BY MineStored
    <3>2. IsFiniteSet(Mine(t) \ X)
      BY <3>1, FS_Subset
    <3> QED
      BY <2>1, <2>2, <3>1, <3>2, EvictionMakesRoom
  <2>4. \A h \in Hash : Token(h) \in DOMAIN buf[t] /\ buf[t][Token(h)] # NoRow =>
                            h = new /\ buf[t][Token(h)].owner = u
    BY <2>2
  <2>5. \A h \in LiveOf(u) : h \in Mine(t) \ X \/ Token(h) \in DOMAIN buf[t]
    BY <2>1, <2>2
  <2> HIDE DEF u
  <2> QED
    BY <1>5, <2>3, <2>4, <2>5
<1> QED
  BY <1>4, <1>6, <1>7

LEMMA CommitLimited ==
    ASSUME SharedAuthAssumption, Limited, Strong', [Next]_vars, NEW t \in Tx, Commit(t)
    PROVE  Limited'
<1>1. /\ Inductive /\ StoreInv /\ Inductive' /\ IsFiniteSet(Stored) /\ TokenLimitHolds
      /\ now' = now /\ now <= now' /\ Release(t) /\ Return(t) /\ LocalTypeOK
  BY LimitedParts, Parts DEF Strong, Commit, CommitTx, LocalTypeOK
<1>2. OthersLeft(t)
  BY <1>1, ReleasedMore
<1>3. PICK new :
          /\ Stored' \subseteq Stored \cup {new}
          /\ \A u \in Uid : \/ LiveOf(u)' \subseteq LiveOf(u)
                            \/ \E S : /\ IsFiniteSet(S) /\ Cardinality(S) + 1 <= TokenLimit
                                      /\ LiveOf(u)' \subseteq S \cup {new}
  BY CommitMakesRoom
<1>4. IsFiniteSet(Stored')
  <2>1. IsFiniteSet(Stored \cup {new})
    BY <1>1, FS_AddElement
  <2> QED
    BY <1>3, <2>1, FS_Subset
<1>5. TokenLimit \in Nat
  BY SharedAuthAssumption DEF SharedAuthAssumption
<1>6. ASSUME NEW u \in Uid
      PROVE  Cardinality(LiveOf(u)') <= TokenLimit
  <2> DEFINE L == LiveOf(u)
             M == LiveOf(u)'
  <2>1. CASE M \subseteq L
    <3>1. IsFiniteSet(L) /\ Cardinality(L) <= TokenLimit
      BY <1>1, LiveStored DEF TokenLimitHolds
    <3> HIDE DEF L, M
    <3>2. Cardinality(M) \in Nat /\ Cardinality(L) \in Nat /\ Cardinality(M) <= Cardinality(L)
      BY <2>1, <3>1, FS_Subset, FS_CardinalityType
    <3> QED
      BY <1>5, <3>1, <3>2 DEF M
  <2>2. ASSUME NEW S, IsFiniteSet(S), Cardinality(S) + 1 <= TokenLimit, M \subseteq S \cup {new}
        PROVE  Cardinality(M) <= TokenLimit
    <3> HIDE DEF M
    <3>1. Cardinality(S) \in Nat /\ Cardinality(S \cup {new}) <= Cardinality(S) + 1
      BY <2>2, Fewer
    <3>2. IsFiniteSet(S \cup {new})
      BY <2>2, FS_AddElement
    <3>3. /\ Cardinality(M) <= Cardinality(S \cup {new})
          /\ Cardinality(M) \in Nat /\ Cardinality(S \cup {new}) \in Nat
      BY <2>2, <3>2, FS_Subset, FS_CardinalityType
    <3> QED
      BY <1>5, <2>2, <3>1, <3>3
  <2> QED
    BY <1>3, <2>1, <2>2
<1>7. ASSUME NEW o \in Tx
      PROVE  Fits(o)'
  <2>1. CASE o = t
    <3>1. pc'[t] = "idle"
      BY <1>1, ReturnEffect
    <3> QED
      BY <2>1, <3>1, FitsEarly DEF BeforeSubject
  <2>2. CASE o # t
    <3>1. ASSUME Subject(loc[o].uid) \in excl[o]
          PROVE  LiveOf(loc[o].uid)' \subseteq LiveOf(loc[o].uid)
      <4>1. loc'[o] = loc[o]
        BY <1>2, <2>2 DEF OthersLeft
      <4>2. Subject(loc[o].uid) \notin excl[t]
        BY <1>1, <2>2, <3>1 DEF StoreInv, WritesLocked, LocksExclude
      <4>3. ASSUME NEW u, u = loc[o].uid
            PROVE  LiveOf(u)' \subseteq LiveOf(u)
        BY <4>2, <4>3, LiveAfter
      <4> QED
        BY <4>1, <4>3
    <3> QED
      BY <1>1, <1>2, <2>2, <3>1, FitsStays DEF OthersLeft
  <2> QED
    BY <2>1, <2>2
<1>8. TokenLimitHolds'
  BY <1>6 DEF TokenLimitHolds
<1> QED
  BY <1>4, <1>7, <1>8 DEF Limited, Fits

-----------------------------------------------------------------------------
(* The invariant.                                                          *)

LEMMA InitLimited ==
    ASSUME SharedAuthAssumption, Init
    PROVE  Limited
<1>1. Strong
  BY InitStrong
<1>2. \A h \in Hash : db[Token(h)] = NoRow
  BY KeysInRow DEF Init, StoreInit, Token, Gate
<1>3. Stored = {} /\ \A u : LiveOf(u) = {}
  BY <1>2 DEF Stored, LiveOf, Live, Current, Exists
<1>4. IsFiniteSet(Stored) /\ Cardinality({}) = 0
  BY <1>3, FS_EmptySet
<1>5. TokenLimitHolds
  BY <1>3, <1>4 DEF TokenLimitHolds, SharedAuthAssumption
<1>6. ASSUME NEW t \in Tx
      PROVE  LoginFits(t) /\ RefreshFits(t) /\ OthersDrop(t)
  <2>1. pc[t] = "idle" /\ DOMAIN buf[t] = {}
    BY RowsNone DEF Init, StoreInit
  <2> QED
    BY <2>1 DEF LoginFits, RefreshFits, OthersDrop, Unauthorized, Outside
<1> QED
  BY <1>1, <1>4, <1>5, <1>6 DEF Limited

\* The site, the operator and the clock make no token live.
LEMMA EnvironmentFits ==
    ASSUME SharedAuthAssumption, Limited, Strong', [Next]_vars, now <= now',
           \A h \in Hash : db'[Token(h)] = db[Token(h)],
           pc' = pc, call' = call, loc' = loc, seen' = seen, excl' = excl, buf' = buf
    PROVE  Limited'
<1>1. Inductive' /\ IsFiniteSet(Stored) /\ TokenLimitHolds /\ Strong /\ now' \in Nat
  BY LimitedParts DEF Strong, Inductive, TypeOK
<1>2. Stored' = Stored
  BY DEF Stored, Exists
<1>3. ASSUME NEW u
      PROVE  LiveOf(u)' \subseteq LiveOf(u)
  <2>1. SUFFICES ASSUME NEW h \in Hash, Live(h)', db'[Token(h)].owner = u
                 PROVE  Live(h) /\ db[Token(h)].owner = u
    BY DEF LiveOf
  <2>2. h \in Stored
    BY <1>2, <2>1 DEF Live, Current, Stored
  <2> QED
    BY <1>1, <2>1, <2>2, LiveShrinks
<1>4. TokenLimitHolds'
  <2>1. ASSUME NEW u \in Uid
        PROVE  Cardinality(LiveOf(u)') <= TokenLimit
    <3> DEFINE L == LiveOf(u)
               M == LiveOf(u)'
    <3>1. M \subseteq L /\ IsFiniteSet(L) /\ Cardinality(L) <= TokenLimit /\ TokenLimit \in Nat
      BY <1>1, <1>3, LiveStored, SharedAuthAssumption DEF TokenLimitHolds, SharedAuthAssumption
    <3> HIDE DEF L, M
    <3>2. Cardinality(M) \in Nat /\ Cardinality(L) \in Nat /\ Cardinality(M) <= Cardinality(L)
      BY <3>1, FS_Subset, FS_CardinalityType
    <3> QED
      BY <3>1, <3>2 DEF M
  <2> QED
    BY <2>1 DEF TokenLimitHolds
<1>5. ASSUME NEW o \in Tx
      PROVE  Fits(o)'
  BY <1>1, <1>3, FitsStays
<1> QED
  BY <1>1, <1>2, <1>4, <1>5 DEF Limited, Fits

LEMMA LimitedStep ==
    ASSUME SharedAuthAssumption, Limited, [Next]_vars
    PROVE  Limited'
<1>1. Strong /\ Strong' /\ Inductive /\ now \in Nat
  BY LimitedParts, StrongStep DEF Inductive, TypeOK
<1>2. ASSUME NEW t \in Tx, ~Commit(t),
             (\E c \in Calls : Start(t, c)) \/ Step(t) \/ SqlError(t) \/ AbortVictim(t)
      PROVE  Limited'
  <2>1. db' = db /\ now' = now
    BY <1>2, StepWrites DEF Start, SqlError, AbortVictim, store, local
  <2>2. OthersLeft(t) /\ Fits(t)'
    BY <1>1, <1>2, StepLeaves, FitsNext
  <2> QED
    BY <1>1, <2>1, <2>2, OneFits
<1>3. ASSUME NEW t \in Tx, Commit(t)
      PROVE  Limited'
  BY <1>1, <1>3, CommitLimited
<1>4. CASE Elsewhere
  <2>1. \A h \in Hash : db'[Token(h)] = db[Token(h)]
    BY <1>1, <1>4, ElsewhereRows
  <2>2. /\ pc' = pc /\ call' = call /\ loc' = loc /\ now' = now
        /\ seen' = seen /\ excl' = excl /\ buf' = buf
    BY <1>4 DEF Elsewhere, DeleteUser, UpdateUser, ResolveIdentity, RollbackIdentity, Reidentify,
                SetPlayer, Deactivate, Activate, AutoCommit, local
  <2> QED
    BY <1>1, <2>1, <2>2, EnvironmentFits
<1>5. CASE Tick \/ UNCHANGED vars
  <2>1. /\ db' = db /\ pc' = pc /\ call' = call /\ loc' = loc /\ now' \in {now, now + 1}
        /\ seen' = seen /\ excl' = excl /\ buf' = buf
    BY <1>5 DEF Tick, vars, store
  <2> QED
    BY <1>1, <2>1, EnvironmentFits
<1> QED
  BY <1>2, <1>3, <1>4, <1>5 DEF Next, Elsewhere

\* Whatever the nodes, the site and the operator do: logins and refreshes leave room for the
\* token they issue, and nothing else makes a token live (authenticate.go:53-57, 119-142,
\* auth.go:33-61).
THEOREM LimitedInvariant == Spec => []Limited
<1>1. Init => Limited
  BY SharedAuthAssumption, InitLimited
<1>2. Limited /\ [Next]_vars => Limited'
  BY SharedAuthAssumption, LimitedStep
<1> QED
  BY <1>1, <1>2, PTL DEF Spec

\* No account ever has more than TokenLimit live tokens, however many nodes log it in and
\* refresh its tokens at once (the subject lock of authenticate.go:53-57).
THEOREM LimitHolds == Spec => []TokenLimitHolds
<1>1. Limited => TokenLimitHolds
  BY DEF Limited
<1> QED
  BY <1>1, LimitedInvariant, PTL

-----------------------------------------------------------------------------
(* Which live tokens are lost.                                             *)

\* The tokens a login holds are all live, if one of those it evicts is.
LEMMA HeldAreLive ==
    ASSUME SharedAuthAssumption, Limited, NEW t \in Tx, Op(t) = "authenticate", pc[t] = "commit",
           NEW X \in Evicted(t), NEW h \in X, Live(h)
    PROVE  /\ Cardinality(LiveOf(loc[t].uid)) = TokenLimit /\ LiveOf(loc[t].uid) = Mine(t)
           /\ \A k \in Mine(t) : db[Token(k)].created >= db[Token(h)].created
<1> DEFINE u == loc[t].uid
           s == Subject(u)
<1>1. /\ Inductive /\ LoginFits(t) /\ StoreInv /\ IsFiniteSet(Mine(t)) /\ TokensKept /\ now \in Nat
  BY LimitedParts, Parts, MineStored DEF Fits, Strong, LocalTypeOK
<1>2. /\ LiveOf(u) \subseteq Mine(t) /\ Cardinality(Mine(t)) <= TokenLimit
      /\ s \in excl[t] /\ (s \in DOMAIN buf[t] => seen[t][s] = NoRow)
      /\ \A k \in Mine(t) : /\ seen[t][Token(k)].owner = u
                            /\ seen[t][Token(k)].generation = Generation(t)
  BY <1>1 DEF LoginFits
<1>3. /\ X \subseteq Mine(t) /\ Cardinality(X) = 1 /\ Cardinality(Mine(t)) = TokenLimit
  <2>1. /\ X \subseteq Mine(t) /\ IsFiniteSet(X) /\ Cardinality(X) \in {0, 1}
        /\ Cardinality(Mine(t)) = TokenLimit
    BY <1>1, <1>2, EvictionMakesRoom
  <2>2. Cardinality(X) # 0
    BY <2>1, FS_EmptySet
  <2> QED
    BY <2>1, <2>2
<1>4. X = {h}
  <2>1. IsFiniteSet(X)
    BY <1>1, <1>3, FS_Subset
  <2> QED
    BY <1>3, <2>1, FS_Singleton
<1>5. \A k \in Mine(t) : /\ k \in Hash /\ k \in Stored /\ seen[t][Token(k)] = db[Token(k)]
                         /\ db[Token(k)] # NoRow
  BY <1>1, MineStored DEF Mine, StoreInv, SeenIsCurrent
<1>6. ASSUME NEW k \in Mine(t)
      PROVE  /\ db[Token(k)].created \in Nat /\ db[Token(k)].expires \in Nat
             /\ db[Token(k)].expires = db[Token(k)].created + TokenTTL
  <2>1. db[Token(k)] \in TokenRow
    BY <1>1, <1>5, Parts, Stores, KeyValues, KeysInRow
  <2>2. db[Token(k)].created \in Nat /\ db[Token(k)].expires \in Nat
    BY <2>1 DEF TokenRow
  <2> QED
    BY <1>1, <1>5, <2>2 DEF TokensKept
<1>7. h \in Mine(t)
  BY <1>3
<1>8. ASSUME NEW k \in Mine(t)
      PROVE  db[Token(k)].created >= db[Token(h)].created
  <2>1. CASE k = h
    BY <1>6, <1>7, <2>1
  <2>2. CASE k # h
    <3> DEFINE created == [j \in Mine(t) |-> seen[t][Token(j)].created]
    <3>1. \A x \in X, y \in Mine(t) \ X : created[x] <= created[y]
      BY DEF Evicted, Oldest
    <3>2. created[h] <= created[k]
      BY <1>4, <2>2, <3>1
    <3>3. created[h] = db[Token(h)].created /\ created[k] = db[Token(k)].created
      BY <1>5, <1>7
    <3> HIDE DEF created
    <3> QED
      BY <1>6, <1>7, <3>2, <3>3
  <2> QED
    BY <2>1, <2>2
<1>9. Exists(s) /\ Generation(t) = db[s]
  <2>1. db[Token(h)].owner = u
    BY <1>2, <1>5, <1>7
  <2>2. Exists(s)
    BY <1>1, <1>5, <1>7, <2>1 DEF TokensKept
  <2>3. seen[t][s] = db[s]
    BY <1>1, <1>2 DEF StoreInv, SeenIsCurrent, WritesLocked
  <2>4. s \notin DOMAIN buf[t]
    BY <1>2, <2>2, <2>3 DEF Exists
  <2> QED
    BY <2>2, <2>4 DEF Generation, View
<1>10. ASSUME NEW k \in Mine(t)
       PROVE  k \in LiveOf(u)
  <2>1. now < db[Token(h)].expires
    BY DEF Live
  <2>2. now < db[Token(k)].expires
    <3>1. TokenTTL \in Nat
      BY SharedAuthAssumption DEF SharedAuthAssumption
    <3>2. db[Token(h)].created <= db[Token(k)].created
      BY <1>6, <1>7, <1>8
    <3> QED
      BY <1>1, <1>6, <1>7, <2>1, <3>1, <3>2
  <2>3. db[Token(k)].owner = u /\ db[Token(k)].generation = db[s]
    BY <1>2, <1>5, <1>9
  <2> QED
    BY <1>5, <1>9, <2>2, <2>3 DEF LiveOf, Live, Current, Exists
<1> QED
  BY <1>2, <1>3, <1>8, <1>10

LEMMA EvictionStep ==
    ASSUME SharedAuthAssumption, Limited, [Next]_vars, NEW h \in Hash, Live(h), h \notin Stored'
    PROVE  \E t \in Tx :
               /\ Commits(t)
               /\ \/ Op(t) \in {"refresh", "invalidate"} /\ loc[t].token = h
                  \/ /\ Op(t) = "authenticate" /\ loc[t].uid = db[Token(h)].owner
                     /\ Cardinality(LiveOf(loc[t].uid)) >= TokenLimit
                     /\ \A k \in LiveOf(loc[t].uid) :
                           k \in Stored' => db[Token(k)].created >= db[Token(h)].created
<1>1. Strong /\ Inductive /\ LocalTypeOK /\ now \in Nat /\ TokenLimit \in Nat
  BY LimitedParts, Parts, SharedAuthAssumption DEF LocalTypeOK, SharedAuthAssumption
<1>2. h \in Stored /\ db[Token(h)] # NoRow /\ db'[Token(h)] = NoRow
  BY DEF Live, Current, Stored, Exists
<1>3. PICK t \in Tx : Commit(t)
  BY <1>1, <1>2, NextRows
<1>4. pc[t] = "commit" /\ Commits(t)
  BY <1>1, <1>3, ReturnEffect DEF Commit, Commits
<1>5. Token(h) \in DOMAIN buf[t] /\ buf[t][Token(h)] = NoRow
  BY <1>2, <1>3, CommittedToken
<1>6. Fits(t) /\ KnowsMore(t)
  BY LimitedParts
<1>7. seen[t][Token(h)] = db[Token(h)] /\ Token(h) \in DOMAIN seen[t]
  BY <1>1, <1>3, <1>5, CommitRows
<1>8. /\ Op(t) \in {"refresh", "invalidate", "authenticate", "cleanup"}
      /\ Op(t) = "invalidate" => h = loc[t].token
      /\ Op(t) = "cleanup" => db[Token(h)].expires <= now
  BY <1>4, <1>5, <1>6, <1>7 DEF Fits, OthersDrop
<1>9. Op(t) # "cleanup"
  <2>1. db[Token(h)] \in TokenRow
    BY <1>1, <1>2, Parts, Stores, KeyValues, KeysInRow
  <2>2. db[Token(h)].expires \in Nat /\ now < db[Token(h)].expires
    BY <2>1 DEF TokenRow, Live
  <2> QED
    BY <1>1, <1>8, <2>2
<1>10. CASE Op(t) = "refresh"
  <2>1. loc[t].token = h
    BY <1>4, <1>5, <1>6, <1>10, KeysOne DEF KnowsMore, RefreshWrites
  <2> QED
    BY <1>4, <1>10, <2>1
<1>11. CASE Op(t) = "authenticate"
  <2>1. PICK new \in Hash \ Mine(t), X \in Evicted(t) :
            /\ \A k \in Hash : Token(k) \in DOMAIN buf[t] => k \in X \cup {new}
            /\ \A k \in X : Token(k) \in DOMAIN buf[t] /\ buf[t][Token(k)] = NoRow
    BY <1>4, <1>6, <1>11 DEF Fits, LoginFits
  <2>2. h \in Mine(t)
    BY <1>2, <1>7 DEF Mine
  <2>3. h \in X
    BY <1>5, <2>1, <2>2
  <2>4. /\ Cardinality(LiveOf(loc[t].uid)) = TokenLimit /\ LiveOf(loc[t].uid) = Mine(t)
        /\ \A k \in Mine(t) : db[Token(k)].created >= db[Token(h)].created
    BY <1>4, <1>11, <2>3, HeldAreLive
  <2>5. loc[t].uid = db[Token(h)].owner
    BY <2>2, <2>4 DEF LiveOf
  <2>6. Cardinality(LiveOf(loc[t].uid)) >= TokenLimit
    BY <1>1, <2>4
  <2> QED
    BY <1>4, <1>11, <2>4, <2>5, <2>6
<1> QED
  BY <1>4, <1>8, <1>9, <1>10, <1>11

\* A live token is lost only to its own refresh or invalidation, or to a login of its account
\* that has found as many live tokens as the limit, every survivor being as young
\* (authenticate.go:119-142, auth.go:56, 123).
THEOREM EvictionsAreOldest == Spec => EvictsOldest
<1>1. Limited /\ [Next]_vars =>
          [\A h \in Hash : Live(h) /\ h \notin Stored' =>
              \E t \in Tx :
                  /\ Commits(t)
                  /\ \/ Op(t) \in {"refresh", "invalidate"} /\ loc[t].token = h
                     \/ /\ Op(t) = "authenticate" /\ loc[t].uid = db[Token(h)].owner
                        /\ Cardinality(LiveOf(loc[t].uid)) >= TokenLimit
                        /\ \A k \in LiveOf(loc[t].uid) :
                              k \in Stored' => db[Token(k)].created >= db[Token(h)].created]_vars
  BY EvictionStep, SharedAuthAssumption
<1> QED
  BY <1>1, LimitedInvariant, PTL DEF Spec, EvictsOldest

-----------------------------------------------------------------------------
(***************************************************************************)
(* A call takes effect at once: Exact is preserved by every action, and    *)
(* with it each COMMIT is one step of AuthPromise.                         *)
(***************************************************************************)

(* What a transaction has written.                                         *)

LEMMA ExactParts ==
    ASSUME Exact
    PROVE  /\ Limited /\ Strong /\ Inductive /\ LocalTypeOK /\ StoreTypeOK /\ StoreInv
           /\ IsFiniteSet({s \in Server : Exists(Session(s))})
           /\ \A t \in Tx : WritesExactly(t) /\ Knows(t) /\ KnowsMore(t) /\ Fits(t)
           /\ DOMAIN pc = Tx /\ DOMAIN loc = Tx /\ DOMAIN call = Tx /\ DOMAIN buf = Tx
BY LimitedParts, Parts DEF Exact, LocalTypeOK, StoreTypeOK, StoreShape

\* The call of t is the one it was started with, and so is the token it names.
Carries(t) ==
    /\ pc[t] # "idle" => call[t] \in Calls
    /\ pc[t] # "idle" /\ Op(t) \in {"refresh", "validate", "invalidate", "join"} =>
          loc[t].token = call[t].token

\* What each operation writes.
Does(t) ==
    pc[t] # "fail" =>
        /\ Op(t) \in {"validate", "hasJoined"} => DOMAIN buf[t] = {}
        /\ LoginWrites(t) /\ RefreshBinds(t) /\ InvalidateWrites(t) /\ SignoutWrites(t)
        /\ JoinWrites(t) /\ CleanupWrites(t)

\* A token is not written before its time.
Dated(t) ==
    \A h \in Hash : Token(h) \in DOMAIN buf[t] /\ buf[t][Token(h)] # NoRow =>
                        buf[t][Token(h)].created <= now

LEMMA ExactlyIs ==
    ASSUME NEW t \in Tx
    PROVE  /\ WritesExactly(t) <=> Carries(t) /\ Dated(t) /\ Does(t)
           /\ WritesExactly(t)' <=> Carries(t)' /\ Dated(t)' /\ Does(t)'
<1>1. WritesExactly(t) <=> Carries(t) /\ Dated(t) /\ Does(t)
  BY DEF WritesExactly, Carries, Dated, Does
<1>2. WritesExactly(t)' <=> Carries(t)' /\ Dated(t)' /\ Does(t)'
  BY DEF WritesExactly, Carries, Dated, Does
<1> QED
  BY <1>1, <1>2

\* A statement of t adds the writes w, and reads.
Adds(t, w) ==
    /\ db' = db /\ now' = now /\ call' = call
    /\ DOMAIN buf'[t] = DOMAIN w \cup DOMAIN buf[t]
    /\ \A r \in DOMAIN buf'[t] : buf'[t][r] = IF r \in DOMAIN w THEN w[r] ELSE buf[t][r]
    /\ DOMAIN seen[t] \subseteq DOMAIN seen'[t] /\ DOMAIN buf'[t] \subseteq DOMAIN seen'[t]
    /\ DOMAIN buf[t] \subseteq DOMAIN seen[t]
    /\ \A r \in DOMAIN seen[t] : seen[t][r] = db[r]
    /\ \A r \in DOMAIN seen'[t] : seen'[t][r] = db[r]

LEMMA StatementAdds ==
    ASSUME Inductive, Inductive', NEW t \in Tx, NEW sh, NEW ex, NEW w, Statement(t, sh, ex, w),
           UNCHANGED local
    PROVE  /\ Adds(t, w)
           /\ \A r \in sh \cup ex : db[r] # NoRow => r \in DOMAIN seen'[t]
<1>1. StoreInv /\ StoreInv'
  BY Parts DEF Inductive
<1>2. /\ db' = db /\ buf'[t] = Over(w, buf[t])
      /\ DOMAIN seen[t] \subseteq DOMAIN seen'[t]
      /\ {r \in sh \cup ex : db[r] # NoRow} \subseteq DOMAIN seen'[t]
      /\ \A r \in DOMAIN seen[t] : seen[t][r] = db[r]
      /\ \A r \in DOMAIN seen'[t] : seen'[t][r] = db[r]
  BY StatementLocks
<1>3. DOMAIN buf[t] \subseteq DOMAIN seen[t] /\ DOMAIN buf'[t] \subseteq DOMAIN seen'[t]
  BY <1>1 DEF StoreInv, WritesLocked
<1>4. /\ DOMAIN buf'[t] = DOMAIN w \cup DOMAIN buf[t]
      /\ \A r \in DOMAIN buf'[t] : buf'[t][r] = IF r \in DOMAIN w THEN w[r] ELSE buf[t][r]
  BY <1>2 DEF Over
<1> QED
  BY <1>2, <1>3, <1>4 DEF Adds, local

LEMMA NothingAdded ==
    ASSUME Inductive, NEW t \in Tx, UNCHANGED store, UNCHANGED local
    PROVE  Adds(t, NoWrites)
<1>1. StoreInv
  BY Parts
<1>2. DOMAIN buf[t] \subseteq DOMAIN seen[t] /\ \A r \in DOMAIN seen[t] : seen[t][r] = db[r]
  BY <1>1 DEF StoreInv, WritesLocked, SeenIsCurrent
<1> QED
  BY <1>2, RowsNone DEF Adds, store, local

\* Other tokens than t's own new one keep their date.
LEMMA AddsDated ==
    ASSUME NEW t \in Tx, NEW w, Adds(t, w), Dated(t),
           \A h \in Hash : Token(h) \in DOMAIN w =>
               w[Token(h)] = NoRow \/ w[Token(h)].created = now, now \in Nat
    PROVE  Dated(t)'
BY DEF Adds, Dated

LEMMA AddsCarries ==
    ASSUME NEW t \in Tx, NEW w, Adds(t, w), Carries(t), pc[t] # "idle",
           Op(t) = "hasJoined" \/ loc'[t].token = loc[t].token
    PROVE  Carries(t)'
BY DEF Adds, Carries, Op

\* A transaction that has written nothing, and is not bound to write.
LEMMA EmptyDoes ==
    ASSUME SharedAuthAssumption, NEW t \in Tx, DOMAIN buf'[t] = {}, RefreshBinds(t)',
           Op(t)' = "authenticate" => pc'[t] # "commit", JoinWrites(t)'
    PROVE  Does(t)'
<1>1. LoginWrites(t)' /\ InvalidateWrites(t)' /\ SignoutWrites(t)'
  BY DEF LoginWrites, InvalidateWrites, SignoutWrites
<1>2. CleanupWrites(t)'
  <2>1. Cardinality({}) = 0
    BY FS_EmptySet
  <2>2. /\ {} \in SUBSET Hash /\ {} \in SUBSET Server
        /\ DOMAIN buf'[t] = {Token(h) : h \in {}} \cup {Session(s) : s \in {}}
        /\ Cardinality({}) <= CleanupBatch
    BY <2>1 DEF SharedAuthAssumption
  <2> QED
    BY <2>2 DEF CleanupWrites
<1> QED
  BY <1>1, <1>2 DEF Does

\* The statements at which nothing is said of what a call other than a login has bound.
Unbound == 
    {"idle", "resolve", "verify", "begin", "fail", "findSession", "findOwner", "lockUser",
     "checkLogin", "lockGeneration", "lockToken", "lockPlayer", "checkExpiry", "select",
     "checkName", "lockSession", "bump", "deleteTokens", "ensureSubject", "lockVictims",
     "loginProfiles", "bind"}

LEMMA EmptyStays ==
    ASSUME SharedAuthAssumption, NEW t \in Tx, DOMAIN buf'[t] = {}, pc'[t] \in Unbound
    PROVE  Does(t)'
<1>1. RefreshBinds(t)' /\ JoinWrites(t)'
  BY DEF RefreshBinds, JoinWrites, Unbound
<1> QED
  BY <1>1, EmptyDoes DEF Unbound

\* Up to their last statements only logins have written anything.
LEMMA EarlyEmpty ==
    ASSUME Exact, NEW t \in Tx, Op(t) # "authenticate",
           pc[t] \in Unbound \ {"fail"}
    PROVE  DOMAIN buf[t] = {}
<1>1. WritesExactly(t) /\ Knows(t) /\ KnowsMore(t) /\ StoreTypeOK /\ call[t] \in Call
  BY ExactParts DEF LocalTypeOK
<1>2. Op(t) \in {"refresh", "validate", "invalidate", "signout", "join", "hasJoined", "cleanup"}
  BY <1>1 DEF Op, Call
<1>3. CASE Op(t) = "refresh"
  BY <1>1, <1>3 DEF KnowsMore, RefreshWrites, Unbound
<1>4. CASE Op(t) \in {"validate", "hasJoined"}
  BY <1>1, <1>4 DEF WritesExactly, Unbound
<1>5. CASE Op(t) = "invalidate"
  BY <1>1, <1>5 DEF WritesExactly, InvalidateWrites, Unbound
<1>6. CASE Op(t) = "signout"
  BY <1>1, <1>6 DEF WritesExactly, SignoutWrites, Unbound
<1>7. CASE Op(t) = "join"
  BY <1>1, <1>7 DEF WritesExactly, JoinWrites, Unbound
<1>8. CASE Op(t) = "cleanup"
  <2>1. CleanupWrites(t) /\ pc[t] \notin {"deleteSessions", "commit"}
    BY <1>1 DEF WritesExactly, Unbound
  <2> QED
    BY <1>8, <2>1, Zenon DEF CleanupWrites
<1> QED
  BY <1>2, <1>3, <1>4, <1>5, <1>6, <1>7, <1>8

\* A statement of a call other than a login that reads, and goes on to another such.
LEMMA ExactReads ==
    ASSUME SharedAuthAssumption, Exact, NEW t \in Tx, Adds(t, NoWrites), pc[t] # "idle",
           Op(t) = "hasJoined" \/ loc'[t].token = loc[t].token,
           \/ pc'[t] = "fail"
           \/ Op(t) # "authenticate" /\ pc[t] \in Unbound \ {"fail"} /\ pc'[t] \in Unbound
    PROVE  WritesExactly(t)'
<1>1. Carries(t) /\ Dated(t) /\ now \in Nat
  BY ExactParts, ExactlyIs DEF LocalTypeOK
<1>2. Carries(t)' /\ Dated(t)'
  BY <1>1, AddsCarries, AddsDated, RowsNone
<1>3. CASE pc'[t] = "fail"
  BY <1>2, <1>3, ExactlyIs DEF Does
<1>4. CASE Op(t) # "authenticate" /\ pc[t] \in Unbound \ {"fail"} /\ pc'[t] \in Unbound
  <2>1. DOMAIN buf'[t] = {}
    BY <1>4, EarlyEmpty, RowsNone DEF Adds
  <2> QED
    BY <1>2, <1>4, <2>1, EmptyStays, ExactlyIs
<1> QED
  BY <1>3, <1>4

-----------------------------------------------------------------------------
(* The statements before the last ones.                                    *)

\* A call that begins or has ended has written nothing.
LEMMA ExactEnds ==
    ASSUME SharedAuthAssumption, NEW t \in Tx, DOMAIN buf'[t] = {}, pc'[t] = "idle"
    PROVE  WritesExactly(t)'
BY EmptyStays, ExactlyIs DEF Unbound, Carries, Dated

LEMMA ExactStart ==
    ASSUME SharedAuthAssumption, Exact, NEW t \in Tx, \E c \in Calls : Start(t, c)
    PROVE  WritesExactly(t)'
<1>1. PICK c \in Calls : Start(t, c)
  OBVIOUS
<1>2. /\ pc[t] = "idle" /\ call'[t] = c /\ buf' = buf /\ now' = now
      /\ pc'[t] \in {"resolve", "begin"}
  BY <1>1, ExactParts DEF Start, Goto, store
<1>3. loc'[t].token = c.token
  BY <1>1, ExactParts DEF Start, LocalTypeOK, Local
<1>4. DOMAIN buf'[t] = {}
  BY <1>2, ExactParts DEF Knows, WritesOf
<1>5. Does(t)'
  BY <1>2, <1>4, EmptyStays DEF Unbound
<1>6. Carries(t)' /\ Dated(t)'
  BY <1>2, <1>3, <1>4 DEF Carries, Dated, Op
<1> QED
  BY <1>5, <1>6, ExactlyIs

\* The login, before its transaction begins.
LEMMA ExactResolve ==
    ASSUME SharedAuthAssumption, Exact, NEW t \in Tx, Resolve(t) \/ Verify(t)
    PROVE  WritesExactly(t)'
<1>1. /\ pc[t] \in {"resolve", "verify"} /\ buf' = buf /\ now' = now
      /\ Op(t) \in {"authenticate", "signout"}
  BY ExactParts DEF Resolve, Verify, store, Knows, Route
<1>2. DOMAIN buf'[t] = {}
  BY <1>1, ExactParts DEF Knows, WritesOf
<1>3. CASE Return(t)
  BY <1>2, <1>3, ExactParts, ReturnEffect, ExactEnds
<1>4. CASE ~Return(t)
  <2>1. call' = call /\ pc'[t] \in {"verify", "begin"}
    BY <1>1, <1>4, ExactParts DEF Resolve, Verify, Goto
  <2>2. Does(t)'
    BY <1>2, <2>1, EmptyStays DEF Unbound
  <2>3. Carries(t)' /\ Dated(t)'
    BY <1>1, <1>2, <2>1, ExactParts, ExactlyIs DEF Carries, Dated, Op
  <2> QED
    BY <2>2, <2>3, ExactlyIs
<1> QED
  BY <1>3, <1>4

LEMMA ExactBegin ==
    ASSUME SharedAuthAssumption, Exact, Inductive', NEW t \in Tx, Begin(t)
    PROVE  WritesExactly(t)'
<1> DEFINE ok == db[Gate] = "active"
           next == CASE Op(t) \in {"authenticate", "signout"} -> "lockUser"
                     [] Op(t) = "hasJoined" -> "findSession"
                     [] Op(t) = "cleanup"   -> "deleteTokens"
                     [] OTHER               -> "findOwner"
<1>1. pc[t] = "begin" /\ loc' = loc /\ Adds(t, NoWrites) /\ Check(t, ok, next)
  BY ExactParts, StatementAdds DEF Begin
<1>2. next \in Unbound \ {"begin"}
  BY DEF Unbound
<1> HIDE DEF ok, next
<1>3. pc'[t] \in Unbound
  BY <1>1, <1>2, ExactParts, CheckEffect DEF Unbound
<1>4. DOMAIN buf'[t] = {}
  BY <1>1, ExactParts, RowsNone DEF Adds, Knows, WritesOf
<1>5. Carries(t)' /\ Dated(t)'
  BY <1>1, <1>4, ExactParts, ExactlyIs, AddsCarries DEF Dated
<1> QED
  BY <1>3, <1>4, <1>5, EmptyStays, ExactlyIs

\* A login that has written nothing but generation 1 for a new account, and identities for
\* its players that had none.
LEMMA LoginAdds ==
    ASSUME Exact, NEW t \in Tx, NEW w, Adds(t, w), Op(t) = "authenticate", pc[t] # "fail",
           loc'[t].uid = loc[t].uid, pc'[t] # "commit",
           DOMAIN w \subseteq {Subject(loc[t].uid)} \cup IdentityRows,
           Subject(loc[t].uid) \in DOMAIN w =>
               db[Subject(loc[t].uid)] = NoRow /\ w[Subject(loc[t].uid)] = 1,
           \A p \in Pid : Identity(p) \in DOMAIN w =>
               /\ p > Watermark /\ db[Identity(p)] = NoRow
               /\ Player(p) \in DOMAIN seen'[t] /\ db[Player(p)] # NoRow
               /\ db[Player(p)].owner = loc[t].uid
    PROVE  LoginWrites(t)'
<1> DEFINE u == loc[t].uid
           s == Subject(u)
<1>1. LoginWrites(t)
  BY ExactParts, ExactlyIs DEF Does
<1>2. /\ DOMAIN buf[t] \subseteq {s} \cup IdentityRows \cup TokenRows
      /\ s \in DOMAIN buf[t] => seen[t][s] = NoRow /\ buf[t][s] = 1
      /\ \A p \in Pid : Identity(p) \in DOMAIN buf[t] =>
             /\ p > Watermark /\ seen[t][Identity(p)] = NoRow
             /\ Player(p) \in DOMAIN seen[t] /\ seen[t][Player(p)] # NoRow
             /\ seen[t][Player(p)].owner = u
  BY <1>1 DEF LoginWrites
<1> HIDE DEF s
<1>3. DOMAIN buf'[t] \subseteq {s} \cup IdentityRows \cup TokenRows
  BY <1>2 DEF Adds, s
<1>4. s \in DOMAIN buf'[t] => seen'[t][s] = NoRow /\ buf'[t][s] = 1
  BY <1>2 DEF Adds, s
<1>5. ASSUME NEW p \in Pid, Identity(p) \in DOMAIN buf'[t]
      PROVE  /\ p > Watermark /\ seen'[t][Identity(p)] = NoRow
             /\ Player(p) \in DOMAIN seen'[t] /\ seen'[t][Player(p)] # NoRow
             /\ seen'[t][Player(p)].owner = u
  <2>1. CASE Identity(p) \in DOMAIN w
    BY <1>5, <2>1 DEF Adds
  <2>2. CASE Identity(p) \in DOMAIN buf[t]
    BY <1>2, <1>5, <2>2 DEF Adds
  <2> QED
    BY <1>5, <2>1, <2>2 DEF Adds
<1>6. loc'[t].uid = u
  OBVIOUS
<1> HIDE DEF u
<1> QED
  BY <1>3, <1>4, <1>5, <1>6 DEF LoginWrites, s

LEMMA ExactLogin ==
    ASSUME SharedAuthAssumption, Exact, NEW t \in Tx, NEW w, Adds(t, w), LoginWrites(t)',
           Op(t) = "authenticate", pc[t] # "idle", loc'[t].token = loc[t].token,
           \A h \in Hash : Token(h) \in DOMAIN w =>
               w[Token(h)] = NoRow \/ w[Token(h)].created = now
    PROVE  WritesExactly(t)'
<1>1. Op(t)' = "authenticate"
  BY DEF Adds, Op
<1>2. Does(t)'
  BY <1>1 DEF Does, RefreshBinds, InvalidateWrites, SignoutWrites, JoinWrites, CleanupWrites
<1>3. Carries(t) /\ Dated(t) /\ now \in Nat
  BY ExactParts, ExactlyIs DEF LocalTypeOK
<1>4. Carries(t)'
  BY <1>3, AddsCarries
<1>5. Dated(t)'
  BY <1>3, AddsDated
<1> QED
  BY <1>2, <1>4, <1>5, ExactlyIs

\* A statement of a login that only reads.
LEMMA LoginReads ==
    ASSUME SharedAuthAssumption, Exact, NEW t \in Tx, Adds(t, NoWrites), Op(t) = "authenticate",
           pc[t] \notin {"idle", "fail"}, pc'[t] # "commit", loc'[t].uid = loc[t].uid,
           loc'[t].token = loc[t].token
    PROVE  WritesExactly(t)'
<1>1. LoginWrites(t)'
  BY LoginAdds, RowsNone
<1> QED
  BY <1>1, ExactLogin, RowsNone

\* FindOwner, LockUser, LockGeneration, LockToken, LockPlayer.
LEMMA ExactAuthorize ==
    ASSUME SharedAuthAssumption, Exact, Inductive', NEW t \in Tx, Authorize(t)
    PROVE  WritesExactly(t)'
<1>1. Knows(t) /\ KnowsMore(t) /\ Inductive /\ DOMAIN pc = Tx /\ DOMAIN loc = Tx /\ LocalTypeOK
  BY ExactParts
<1>2. CASE FindOwner(t)
  <2>1. /\ pc[t] = "findOwner" /\ Adds(t, NoWrites) /\ Op(t) # "authenticate"
        /\ loc'[t].token = loc[t].token /\ call' = call
    BY <1>1, <1>2, NothingAdded DEF FindOwner, local, Knows, Route, Authorizes, LocalTypeOK, Local
  <2>2. pc'[t] \in {"lockUser", "fail"} \/ (Op(t) = "invalidate" /\ pc'[t] = "commit")
    BY <1>1, <1>2, GotoEffect, CheckEffect DEF FindOwner
  <2>3. CASE pc'[t] \in {"lockUser", "fail"}
    BY <2>1, <2>3, ExactReads DEF Unbound
  <2>4. CASE Op(t) = "invalidate" /\ pc'[t] = "commit"
    <3>1. DOMAIN buf'[t] = {}
      BY <2>1, EarlyEmpty, RowsNone DEF Adds, Unbound
    <3>2. Op(t)' = "invalidate"
      BY <2>1, <2>4 DEF Op
    <3>3. Does(t)'
      BY <3>1, <3>2, EmptyDoes DEF RefreshBinds, JoinWrites
    <3>4. Carries(t)' /\ Dated(t)'
      BY <2>1, <3>1, ExactParts, ExactlyIs, AddsCarries DEF Dated
    <3> QED
      BY <3>3, <3>4, ExactlyIs
  <2> QED
    BY <2>2, <2>3, <2>4
<1>3. CASE LockUser(t)
  <2>1. pc[t] = "lockUser" /\ Adds(t, NoWrites) /\ loc' = loc
    BY <1>1, <1>3, StatementAdds DEF LockUser
  <2>2. pc'[t] \in {"lockGeneration", "checkLogin", "fail"}
    BY <1>1, <1>3, GotoEffect, CheckEffect DEF LockUser
  <2> QED
    BY <2>1, <2>2, ExactReads, LoginReads DEF Unbound
<1>4. CASE LockGeneration(t) \/ LockToken(t)
  <2>1. /\ pc[t] \in {"lockGeneration", "lockToken"} /\ loc' = loc /\ Op(t) # "authenticate"
        /\ Adds(t, NoWrites)
    BY <1>1, <1>4, StatementAdds DEF LockGeneration, LockToken, Knows, Route, Authorizes
  <2>2. pc'[t] \in {"lockToken", "checkExpiry", "lockPlayer", "fail"}
    <3>1. CASE LockGeneration(t)
      BY <1>1, <3>1, CheckEffect DEF LockGeneration
    <3>2. CASE LockToken(t)
      <4> DEFINE token == db[Token(loc[t].token)]
                 ok == token # NoRow /\ TokenAccepted(t, token)
                 next == IF token = NoRow \/ token.identity = None THEN "checkExpiry" ELSE "lockPlayer"
      <4>1. Check(t, ok, next)
        BY <3>2 DEF LockToken
      <4>2. pc'[t] = IF ok THEN next ELSE "fail"
        <5> HIDE DEF ok, next
        <5> QED
          BY <1>1, <4>1, CheckEffect
      <4> QED
        BY <4>2
    <3> QED
      BY <1>4, <3>1, <3>2
  <2> QED
    BY <2>1, <2>2, ExactReads DEF Unbound
<1>5. CASE LockPlayer(t)
  <2>1. pc[t] = "lockPlayer" /\ Op(t) # "authenticate" /\ Adds(t, NoWrites)
    BY <1>1, <1>5, StatementAdds DEF LockPlayer, Knows, Route, Authorizes
  <2>2. loc'[t].token = loc[t].token
    BY <1>1, <1>5 DEF LockPlayer, LocalTypeOK, Local
  <2>3. pc'[t] \in {"checkExpiry", "fail"}
    BY <1>1, <1>5, CheckEffect DEF LockPlayer
  <2> QED
    BY <2>1, <2>2, <2>3, ExactReads DEF Unbound
<1>6. CASE CheckExpiry(t)
  <2> DEFINE ok == now < seen[t][Token(loc[t].token)].expires
             next == CASE Op(t) = "validate" -> "commit"
               [] Op(t) = "refresh"  -> IF call[t].selected = None THEN "deleteOld" ELSE "select"
               [] Op(t) = "join"     -> "clearSession"
               [] OTHER              -> "checkName"
  <2>1. /\ pc[t] = "checkExpiry" /\ Authorizes(t) /\ Adds(t, NoWrites) /\ loc' = loc
        /\ call' = call /\ seen' = seen /\ Check(t, ok, next)
    BY <1>1, <1>6, NothingAdded DEF CheckExpiry, Knows, Route, local, store
  <2>2. pc'[t] = "fail" \/ pc'[t] = next
    <3> HIDE DEF ok, next
    <3> QED
      BY <1>1, <2>1, CheckEffect
  <2>3. CASE pc'[t] = "fail"
    BY <2>1, <2>3, ExactReads
  <2>4. CASE pc'[t] = next
    <3>1. /\ Op(t)' = Op(t) /\ Op(t) # "authenticate" /\ Bound(t)' = Bound(t)
          /\ seen[t][Token(loc[t].token)].identity = loc[t].identity
      BY <1>1, <2>1 DEF Op, Authorizes, Bound, KnowsMore, BindingRead
    <3>2. DOMAIN buf'[t] = {}
      BY <2>1, <3>1, EarlyEmpty, RowsNone DEF Adds, Unbound
    <3>3. RefreshBinds(t)'
      <4>1. SUFFICES ASSUME Op(t) = "refresh", call[t].selected = None
                     PROVE  loc[t].identity = Bound(t)
        BY <2>1, <2>4, <3>1 DEF RefreshBinds
      <4> QED
        BY <3>1, <4>1 DEF Bound
    <3>4. JoinWrites(t)'
      BY <2>1, <2>4, <3>1, <3>2 DEF JoinWrites
    <3>5. Does(t)'
      BY <3>1, <3>2, <3>3, <3>4, EmptyDoes
    <3>6. Carries(t)' /\ Dated(t)'
      BY <2>1, <3>2, ExactParts, ExactlyIs, AddsCarries DEF Dated
    <3> QED
      BY <3>5, <3>6, ExactlyIs
  <2> QED
    BY <2>2, <2>3, <2>4
<1> QED
  BY <1>2, <1>3, <1>4, <1>5, <1>6 DEF Authorize

-----------------------------------------------------------------------------
(* The last statements of each operation.                                  *)

\* What an operation other than a login has written.
LEMMA OnlyDoes ==
    ASSUME NEW t \in Tx,
           \/ Op(t)' = "refresh" /\ RefreshBinds(t)'
           \/ Op(t)' = "invalidate" /\ InvalidateWrites(t)'
           \/ Op(t)' = "signout" /\ SignoutWrites(t)'
           \/ Op(t)' = "join" /\ JoinWrites(t)'
           \/ Op(t)' = "hasJoined" /\ DOMAIN buf'[t] = {}
           \/ Op(t)' = "cleanup" /\ CleanupWrites(t)'
    PROVE  Does(t)'
BY DEF Does, LoginWrites, RefreshBinds, InvalidateWrites, SignoutWrites, JoinWrites, CleanupWrites

LEMMA ExactAdds ==
    ASSUME SharedAuthAssumption, Exact, NEW t \in Tx, NEW w, Adds(t, w), Does(t)', pc[t] # "idle",
           loc'[t].token = loc[t].token,
           \A h \in Hash : Token(h) \in DOMAIN w =>
               w[Token(h)] = NoRow \/ w[Token(h)].created = now
    PROVE  WritesExactly(t)'
<1>1. Carries(t) /\ Dated(t) /\ now \in Nat
  BY ExactParts, ExactlyIs DEF LocalTypeOK
<1> QED
  BY <1>1, AddsCarries, AddsDated, ExactlyIs

LEMMA ExactCheckLogin ==
    ASSUME SharedAuthAssumption, Exact, NEW t \in Tx, CheckLogin(t)
    PROVE  WritesExactly(t)'
<1> DEFINE ok == LoginOwner(call[t].login, loc[t].uid)
           next == IF Op(t) = "signout" THEN "bump" ELSE "ensureSubject"
<1>1. /\ pc[t] = "checkLogin" /\ Adds(t, NoWrites) /\ loc' = loc /\ Check(t, ok, next)
      /\ Op(t) \in {"authenticate", "signout"}
  BY ExactParts, NothingAdded DEF CheckLogin, Knows, Route, local
<1>2. pc'[t] \in {next, "fail"}
  <2> HIDE DEF ok, next
  <2> QED
    BY <1>1, ExactParts, CheckEffect
<1> QED
  BY <1>1, <1>2, ExactReads, LoginReads DEF Unbound

LEMMA ExactEnsureSubject ==
    ASSUME SharedAuthAssumption, Exact, Inductive', NEW t \in Tx, EnsureSubject(t)
    PROVE  WritesExactly(t)'
<1> DEFINE s == Subject(loc[t].uid)
           w == IF Exists(s) THEN NoWrites ELSE Put(s, 1)
<1>1. /\ pc[t] = "ensureSubject" /\ loc' = loc /\ pc'[t] = "lockVictims" /\ Op(t) = "authenticate"
      /\ loc[t].uid \in Uid
  BY ExactParts, GotoEffect DEF EnsureSubject, Knows, Route, Arguments
<1>2. Adds(t, w)
  <2> HIDE DEF w
  <2>1. Statement(t, {}, LocksAt(t), w)
    BY DEF EnsureSubject, w
  <2> QED
    BY <2>1, ExactParts, StatementAdds DEF EnsureSubject
<1>3. DOMAIN w \subseteq {s} /\ (s \in DOMAIN w => db[s] = NoRow /\ w[s] = 1)
  BY RowsNone DEF Put, Exists
<1>4. \A p \in Pid : Identity(p) # s
  BY <1>1, OfKind, Kinds
<1>5. \A h \in Hash : Token(h) # s
  BY <1>1, OfKind, Kinds
<1> HIDE DEF w
<1>6. LoginWrites(t)'
  BY <1>1, <1>2, <1>3, <1>4, LoginAdds
<1> QED
  BY <1>1, <1>2, <1>3, <1>5, <1>6, ExactLogin

LEMMA ExactLockVictims ==
    ASSUME SharedAuthAssumption, Exact, Inductive', NEW t \in Tx, LockVictims(t)
    PROVE  WritesExactly(t)'
<1>1. /\ pc[t] = "lockVictims" /\ loc' = loc /\ pc'[t] = "loginProfiles" /\ Op(t) = "authenticate"
      /\ Adds(t, NoWrites)
  BY ExactParts, GotoEffect, StatementAdds DEF LockVictims, Knows, Route
<1> QED
  BY <1>1, LoginReads

LEMMA ExactLoginProfiles ==
    ASSUME SharedAuthAssumption, Exact, Inductive', NEW t \in Tx, LoginProfiles(t)
    PROVE  WritesExactly(t)'
<1> DEFINE new == Provisioned(t)
           w == [r \in {Identity(p) : p \in new} |-> "active"]
<1>1. /\ pc[t] = "loginProfiles" /\ pc'[t] = "bind" /\ Op(t) = "authenticate"
      /\ loc[t].uid \in Uid /\ loc[t] \in Local
  BY ExactParts, GotoEffect DEF LoginProfiles, Knows, Route, Arguments, LocalTypeOK
<1>2. loc'[t].uid = loc[t].uid /\ loc'[t].token = loc[t].token
  BY <1>1, ExactParts DEF LoginProfiles, Local
<1>3. SharesAt(t) = ProfileLocks(t)
  BY <1>1 DEF SharesAt
<1>4. /\ Adds(t, w)
      /\ \A r \in ProfileLocks(t) : db[r] # NoRow => r \in DOMAIN seen'[t]
  <2> HIDE DEF w
  <2>1. Statement(t, ProfileLocks(t), LocksAt(t), w)
    BY <1>3 DEF LoginProfiles, w
  <2> QED
    BY <2>1, ExactParts, StatementAdds DEF LoginProfiles
<1>5. DOMAIN w \subseteq IdentityRows
  BY DEF IdentityRows, Provisioned, PlayersOf
<1>6. ASSUME NEW p \in Pid, Identity(p) \in DOMAIN w
      PROVE  /\ p > Watermark /\ db[Identity(p)] = NoRow
             /\ Player(p) \in DOMAIN seen'[t] /\ db[Player(p)] # NoRow
             /\ db[Player(p)].owner = loc[t].uid
  <2>1. p \in new
    BY <1>6 DEF Identity
  <2>2. p > Watermark /\ db[Identity(p)] = NoRow /\ p \in PlayersOf(loc[t].uid)
    BY <2>1 DEF Provisioned, Exists
  <2>3. Player(p) \in ProfileLocks(t) /\ db[Player(p)] # NoRow /\ db[Player(p)].owner = loc[t].uid
    BY <2>2 DEF ProfileLocks, PlayersOf, Exists
  <2> QED
    BY <1>4, <2>2, <2>3
<1> HIDE DEF w
<1>7. Subject(loc[t].uid) \notin DOMAIN w /\ \A h \in Hash : Token(h) \notin DOMAIN w
  BY <1>1, <1>5, OfKind, Kinds
<1>8. LoginWrites(t)'
  BY <1>1, <1>2, <1>4, <1>5, <1>6, <1>7, LoginAdds
<1> QED
  BY <1>1, <1>2, <1>4, <1>7, <1>8, ExactLogin

LEMMA ExactBindLogin ==
    ASSUME SharedAuthAssumption, Exact, NEW t \in Tx, BindLogin(t)
    PROVE  WritesExactly(t)'
<1>1. /\ pc[t] = "bind" /\ Op(t) = "authenticate" /\ Adds(t, NoWrites)
      /\ Goto(t, "issue") \/ Goto(t, "fail")
  BY ExactParts, NothingAdded DEF BindLogin, Knows, Route
<1>2. pc'[t] # "commit"
  BY <1>1, ExactParts, GotoEffect
<1>3. loc'[t].uid = loc[t].uid /\ loc'[t].token = loc[t].token
  BY ExactParts DEF BindLogin, LocalTypeOK, Local
<1> QED
  BY <1>1, <1>2, <1>3, LoginReads

\* The token that t has been authorized with is locked, and stays as it was read.
LEMMA TokenHeld ==
    ASSUME Exact, NEW t \in Tx, NEW w, Adds(t, w), Authorizes(t),
           pc[t] \notin Unauthorized \cup {"lockGeneration", "lockToken", "lockPlayer"}
    PROVE  seen'[t][Token(loc[t].token)] = seen[t][Token(loc[t].token)]
<1>1. TokenRead(t)
  BY ExactParts, IsAuthorized DEF Authorized
<1> QED
  BY <1>1 DEF TokenRead, Adds

\* The new token and the one it evicts are the only ones that a login writes.
LEMMA ExactIssue ==
    ASSUME SharedAuthAssumption, Exact, Strong', NEW t \in Tx, Issue(t)
    PROVE  WritesExactly(t)'
<1> DEFINE u == loc[t].uid
           s == Subject(u)
<1>1. /\ Inductive /\ Inductive' /\ Knows(t) /\ KnowsMore(t) /\ Limited /\ DOMAIN pc = Tx
      /\ now \in Nat /\ LoginWrites(t) /\ RefreshBinds(t)
  BY ExactParts, ExactlyIs DEF Strong, LocalTypeOK, WritesExactly, Issue
<1>2. /\ pc[t] = "issue" /\ Op(t) \in {"authenticate", "refresh"} /\ call' = call /\ loc' = loc
      /\ now' = now /\ Op(t)' = Op(t) /\ UNCHANGED local
  BY <1>1 DEF Issue, local, Knows, Route, Op
<1>3. CASE Goto(t, "fail") /\ UNCHANGED store
  BY <1>1, <1>2, <1>3, GotoEffect, NothingAdded, ExactReads
<1>4. ASSUME NEW new \in FreshHashes(t), NEW X, Goto(t, "commit"),
             (X \in Victims(t) /\ Op(t) = "authenticate") \/ (X = {} /\ Op(t) = "refresh"),
             Statement(t, {}, {}, Over(Put(Token(new), NewToken(t)), Drop({Token(v) : v \in X})))
      PROVE  WritesExactly(t)'
  <2> DEFINE w == Over(Put(Token(new), NewToken(t)), Drop({Token(v) : v \in X}))
  <2>1. \A r \in DOMAIN w : w[r] = NoRow \/ w[r] = NewToken(t)
    BY DEF Over, Put, Drop
  <2>2. NewToken(t).created = now
    BY DEF NewToken
  <2> HIDE DEF w
  <2>3. Adds(t, w)
    <3>1. Statement(t, {}, {}, w)
      BY <1>4 DEF w
    <3> QED
      BY <1>1, <1>2, <3>1, StatementAdds
  <2>4. CASE Op(t) = "authenticate"
    <3>1. Issuing(t, new, X) /\ X \in Victims(t)
      BY <1>1, <1>2, <1>4, <2>4, LoginIssues
    <3>2. /\ DOMAIN buf[t] \subseteq {s} \cup IdentityRows \cup TokenRows
          /\ s \in DOMAIN buf[t] => seen[t][s] = NoRow /\ buf[t][s] = 1
          /\ \A p \in Pid : Identity(p) \in DOMAIN buf[t] =>
                 /\ p > Watermark /\ seen[t][Identity(p)] = NoRow
                 /\ Player(p) \in DOMAIN seen[t] /\ seen[t][Player(p)] # NoRow
                 /\ seen[t][Player(p)].owner = u
      BY <1>1, <2>4 DEF LoginWrites
    <3>3. u \in Uid /\ SubjectEnsured(t)
      BY <1>1, <1>2, <2>4 DEF Knows, Arguments
    <3>4. DOMAIN buf'[t] \subseteq {s} \cup IdentityRows \cup TokenRows
      <4>1. DOMAIN w \subseteq TokenRows
        <5>1. X \subseteq Hash /\ new \in Hash
          BY <3>1 DEF Issuing, Mine
        <5> QED
          BY <5>1, OfKind DEF w, Over, Put, Drop
      <4> QED
        BY <2>3, <3>2, <4>1 DEF Adds
    <3>5. /\ s \in DOMAIN buf[t] <=> s \in DOMAIN buf'[t]
          /\ s \in DOMAIN buf[t] => buf'[t][s] = buf[t][s]
      <4>1. s \in Row /\ s \notin TokenRows
        BY <3>3, OfKind, Kinds, KeysInRow
      <4>2. \A r \in Row \ TokenRows : /\ r \in DOMAIN buf'[t] <=> r \in DOMAIN buf[t]
                                       /\ r \in DOMAIN buf[t] => buf'[t][r] = buf[t][r]
        BY <3>1, Zenon DEF Issuing
      <4> HIDE DEF s
      <4> QED
        BY <4>1, <4>2
    <3>6. /\ \A r \in DOMAIN seen[t] : r \in DOMAIN seen'[t] /\ seen'[t][r] = seen[t][r]
          /\ DOMAIN buf[t] \subseteq DOMAIN seen[t]
      BY <2>3 DEF Adds
    <3>7. s \in DOMAIN buf'[t] => seen'[t][s] = NoRow /\ buf'[t][s] = 1
      BY <3>2, <3>5, <3>6
    <3>8. ASSUME NEW p \in Pid, Identity(p) \in DOMAIN buf'[t]
          PROVE  /\ p > Watermark /\ seen'[t][Identity(p)] = NoRow
                 /\ Player(p) \in DOMAIN seen'[t] /\ seen'[t][Player(p)] # NoRow
                 /\ seen'[t][Player(p)].owner = u
      <4>1. Identity(p) \in DOMAIN buf[t]
        <5>1. Identity(p) \in Row /\ Identity(p) \notin TokenRows
          BY OfKind, Kinds, KeysInRow
        <5>2. \A r \in Row \ TokenRows : r \in DOMAIN buf'[t] <=> r \in DOMAIN buf[t]
          BY <3>1, Zenon DEF Issuing
        <5> QED
          BY <3>8, <5>1, <5>2
      <4> QED
        BY <3>2, <3>6, <4>1
    <3>9. SubjectEnsured(t)'
      <4>1. s \in DOMAIN seen[t] /\ (s \in DOMAIN buf[t] \/ seen[t][s] # NoRow)
        BY <3>3 DEF SubjectEnsured
      <4>2. Subject(loc'[t].uid) = s
        BY <1>2
      <4> HIDE DEF s
      <4>3. s \in DOMAIN seen'[t] /\ (s \in DOMAIN buf'[t] \/ seen'[t][s] # NoRow)
        BY <3>5, <3>6, <4>1
      <4> QED
        BY <4>2, <4>3 DEF SubjectEnsured
    <3>10. /\ new \in Hash \ Mine(t)' /\ X \in Evicted(t)' /\ now \in 0 .. now'
           /\ \A h \in Hash : Token(h) \in DOMAIN buf'[t] <=> h \in X \cup {new}
           /\ \A h \in X : buf'[t][Token(h)] = NoRow
      BY <1>1, <1>2, <3>1 DEF Issuing
    <3>11. buf'[t][Token(new)] = [owner |-> u, generation |-> Generation(t)',
                                  client |-> call'[t].client, identity |-> loc'[t].identity,
                                  created |-> now, expires |-> now + TokenTTL]
      BY <1>2, <2>4, <3>1 DEF Issuing, NewToken
    <3>12. LoginWrites(t)'
      <4>1. loc'[t].uid = u
        BY <1>2
      <4> HIDE DEF u, s
      <4> QED
        BY <3>4, <3>7, <3>8, <3>9, <3>10, <3>11, <4>1 DEF LoginWrites, s
    <3>13. loc'[t].token = loc[t].token /\ pc[t] # "idle"
      BY <1>2
    <3> QED
      BY <2>1, <2>2, <2>3, <2>4, <3>12, <3>13, ExactLogin
  <2>5. CASE Op(t) = "refresh"
    <3>1. loc[t].identity = Bound(t) /\ call[t].selected \in {None, loc[t].identity}
      BY <1>1, <1>2, <2>5 DEF RefreshBinds
    <3>2. Bound(t)' = Bound(t)
      BY <1>2, <2>3, <2>5, TokenHeld DEF Bound, Authorizes, Unauthorized, Outside
    <3>3. RefreshBinds(t)'
      BY <1>2, <3>1, <3>2 DEF RefreshBinds
    <3> QED
      BY <1>2, <2>1, <2>2, <2>3, <2>5, <3>3, OnlyDoes, ExactAdds
  <2> QED
    BY <1>2, <2>4, <2>5
<1>5. CASE \E new \in FreshHashes(t),
             X \in IF Op(t) = "authenticate" THEN Victims(t) ELSE {{}} :
              /\ Statement(t, {}, {}, Over(Put(Token(new), NewToken(t)), Drop({Token(v) : v \in X})))
              /\ Goto(t, "commit")
  <2>1. PICK new \in FreshHashes(t), X \in IF Op(t) = "authenticate" THEN Victims(t) ELSE {{}} :
              /\ Statement(t, {}, {}, Over(Put(Token(new), NewToken(t)), Drop({Token(v) : v \in X})))
              /\ Goto(t, "commit")
    BY <1>5, Zenon
  <2>2. (X \in Victims(t) /\ Op(t) = "authenticate") \/ (X = {} /\ Op(t) = "refresh")
    BY <1>2
  <2> QED
    BY <1>4, <2>1, <2>2
<1>6. \/ Goto(t, "fail") /\ UNCHANGED store
      \/ \E new \in FreshHashes(t), X \in IF Op(t) = "authenticate" THEN Victims(t) ELSE {{}} :
              /\ Statement(t, {}, {}, Over(Put(Token(new), NewToken(t)), Drop({Token(v) : v \in X})))
              /\ Goto(t, "commit")
  BY Zenon DEF Issue
<1> QED
  BY <1>3, <1>5, <1>6

LEMMA ExactBump ==
    ASSUME SharedAuthAssumption, Exact, Inductive', NEW t \in Tx, Bump(t)
    PROVE  WritesExactly(t)'
<1> DEFINE r == Subject(loc[t].uid)
           w == Put(r, NextGeneration(loc[t].uid))
<1>1. /\ pc[t] = "bump" /\ loc' = loc /\ call' = call /\ Op(t) = "signout" /\ Op(t)' = Op(t)
      /\ loc[t].uid \in Uid /\ UNCHANGED local
  BY ExactParts DEF Bump, Knows, Route, Arguments, local, Op
<1>2. CASE Goto(t, "fail") /\ UNCHANGED store
  BY <1>1, <1>2, ExactParts, GotoEffect, NothingAdded, ExactReads
<1>3. CASE Statement(t, {}, LocksAt(t), w) /\ Goto(t, "commit")
  <2>1. DOMAIN w = {r} /\ w[r] = IF db[r] = NoRow THEN 1 ELSE db[r] + 1
    BY DEF Put, NextGeneration, Exists
  <2>2. \A h \in Hash : Token(h) # r
    BY <1>1, OfKind, Kinds
  <2> HIDE DEF w
  <2>3. Adds(t, w)
    BY <1>1, <1>3, ExactParts, StatementAdds
  <2>4. pc'[t] = "commit" /\ DOMAIN buf[t] = {}
    BY <1>1, <1>3, ExactParts, GotoEffect, EarlyEmpty DEF Unbound
  <2> HIDE DEF r
  <2>5. DOMAIN buf'[t] = {r} /\ buf'[t][r] = IF seen'[t][r] = NoRow THEN 1 ELSE seen'[t][r] + 1
    BY <2>1, <2>3, <2>4 DEF Adds
  <2>6. SignoutWrites(t)'
    BY <1>1, <2>4, <2>5 DEF SignoutWrites, r
  <2> QED
    BY <1>1, <2>1, <2>2, <2>3, <2>6, OnlyDoes, ExactAdds
<1> QED
  BY <1>2, <1>3 DEF Bump

LEMMA ExactAuthenticateOrSignout ==
    ASSUME SharedAuthAssumption, Exact, Strong', NEW t \in Tx, AuthenticateOrSignout(t)
    PROVE  WritesExactly(t)'
BY ExactResolve, ExactCheckLogin, ExactEnsureSubject, ExactLockVictims, ExactLoginProfiles,
   ExactBindLogin, ExactIssue, ExactBump DEF AuthenticateOrSignout, Strong

\* Refresh binds what the call asks for, or keeps what was bound.
LEMMA ExactRefresh ==
    ASSUME SharedAuthAssumption, Exact, Inductive', NEW t \in Tx, Select(t) \/ DeleteOld(t)
    PROVE  WritesExactly(t)'
<1>1. /\ pc[t] \in {"select", "deleteOld"} /\ Op(t) = "refresh" /\ call' = call /\ Op(t)' = Op(t)
      /\ Authorizes(t) /\ UNCHANGED local
  BY ExactParts DEF Select, DeleteOld, Knows, Route, local, Op, Authorizes
<1>2. CASE Select(t)
  <2> DEFINE sel == call[t].selected
             own == loc[t].identity = None /\ Active(sel) /\ Exists(Player(sel))
                      /\ db[Player(sel)].owner = loc[t].uid
             ok == own \/ loc[t].identity = sel
  <2>1. pc[t] = "select" /\ Adds(t, NoWrites) /\ Check(t, ok, "deleteOld")
    BY <1>1, <1>2, ExactParts, StatementAdds DEF Select
  <2>2. loc'[t].token = loc[t].token /\ loc'[t].identity = sel
    BY <1>2, ExactParts DEF Select, LocalTypeOK, Local
  <2>3. pc'[t] = IF ok THEN "deleteOld" ELSE "fail"
    <3> HIDE DEF ok
    <3> QED
      BY <2>1, ExactParts, CheckEffect
  <2>4. CASE ~ok
    BY <1>1, <2>1, <2>2, <2>3, <2>4, ExactReads
  <2>5. CASE ok
    <3>1. seen[t][Token(loc[t].token)].identity = loc[t].identity
      BY <1>1, <2>1, ExactParts DEF KnowsMore, BindingRead
    <3>2. Bound(t) = sel
      BY <2>5, <3>1 DEF Bound
    <3>3. Bound(t)' = Bound(t)
      BY <1>1, <2>1, <2>2, TokenHeld DEF Bound, Unauthorized, Outside
    <3>4. RefreshBinds(t)'
      BY <1>1, <2>2, <3>2, <3>3 DEF RefreshBinds
    <3> QED
      BY <1>1, <2>1, <2>2, <3>4, RowsNone, OnlyDoes, ExactAdds
  <2> QED
    BY <2>4, <2>5
<1>3. CASE DeleteOld(t)
  <2> DEFINE w == Drop({Token(loc[t].token)})
  <2>1. \A r \in DOMAIN w : w[r] = NoRow
    BY DEF Drop
  <2> HIDE DEF w
  <2>2. pc[t] = "deleteOld" /\ loc' = loc /\ Statement(t, {}, {}, w)
    BY <1>3 DEF DeleteOld, w
  <2>3. Adds(t, w)
    BY <1>1, <2>2, ExactParts, StatementAdds
  <2>4. loc[t].identity = Bound(t) /\ call[t].selected \in {None, loc[t].identity}
    BY <1>1, <2>2, ExactParts DEF WritesExactly, RefreshBinds
  <2>5. Bound(t)' = Bound(t)
    BY <1>1, <2>2, <2>3, TokenHeld DEF Bound, Unauthorized, Outside
  <2>6. RefreshBinds(t)'
    BY <1>1, <2>2, <2>4, <2>5 DEF RefreshBinds
  <2> QED
    BY <1>1, <2>1, <2>2, <2>3, <2>6, OnlyDoes, ExactAdds
<1> QED
  BY <1>2, <1>3

LEMMA ExactInvalidate ==
    ASSUME SharedAuthAssumption, Exact, Inductive', NEW t \in Tx, DeleteInvalidated(t)
    PROVE  WritesExactly(t)'
<1> DEFINE r == Token(loc[t].token)
           ok == db[r] = NoRow \/ MatchesClient(db[r].client, call[t].client)
           w == IF db[r] # NoRow /\ ok THEN Drop({r}) ELSE NoWrites
<1>1. /\ pc[t] = "lockToken" /\ Op(t) = "invalidate" /\ loc' = loc /\ call' = call /\ Op(t)' = Op(t)
      /\ UNCHANGED local /\ Statement(t, {}, LocksAt(t), w) /\ Check(t, ok, "commit")
  BY DEF DeleteInvalidated, local, Op
<1>2. /\ DOMAIN w \subseteq {r} /\ \A x \in DOMAIN w : w[x] = NoRow
      /\ DOMAIN w # {} => ok /\ db[r] # NoRow /\ MatchesClient(db[r].client, call[t].client)
  BY RowsNone DEF Drop
<1> HIDE DEF w
<1>3. Adds(t, w)
  BY <1>1, ExactParts, StatementAdds
<1> HIDE DEF ok
<1>4. pc'[t] = IF ok THEN "commit" ELSE "fail"
  BY <1>1, ExactParts, CheckEffect
<1>5. DOMAIN buf[t] = {}
  BY <1>1, EarlyEmpty DEF Unbound
<1> HIDE DEF r
<1>6. DOMAIN buf'[t] \subseteq {r}
  BY <1>2, <1>3, <1>5 DEF Adds
<1>7. r \in DOMAIN buf'[t] => /\ pc'[t] = "commit" /\ buf'[t][r] = NoRow /\ seen'[t][r] # NoRow
                              /\ MatchesClient(seen'[t][r].client, call'[t].client)
  BY <1>1, <1>2, <1>3, <1>4, <1>5 DEF Adds
<1>8. InvalidateWrites(t)'
  BY <1>1, <1>6, <1>7 DEF InvalidateWrites, r
<1> QED
  BY <1>1, <1>2, <1>3, <1>8, OnlyDoes, ExactAdds

-----------------------------------------------------------------------------
(* Join, HasJoined, Cleanup.                                               *)

\* What the statements of a join share.
LEMMA ExactJoining ==
    ASSUME SharedAuthAssumption, Exact, NEW t \in Tx, NEW w, Adds(t, w), loc' = loc, Op(t) = "join",
           pc[t] \in {"clearSession", "insertSession", "compareSession"},
           DOMAIN w \subseteq {Session(call[t].server)},
           pc'[t] \in {"insertSession", "commit"} \/ DOMAIN buf'[t] = {},
           pc'[t] \in {"insertSession", "compareSession", "commit"},
           loc[t].identity = call[t].selected,
           pc'[t] = "commit" => DOMAIN buf'[t] = {} \/ w = Put(Session(call[t].server), NewSession(t)),
           call[t].server \in Server
    PROVE  WritesExactly(t)'
<1> DEFINE r == Session(call[t].server)
           p == seen[t][Token(loc[t].token)].identity
<1>1. /\ JoinWrites(t) /\ call' = call /\ now' = now /\ Op(t)' = "join" /\ now \in Nat
      /\ Authorizes(t)
  BY ExactParts DEF WritesExactly, Adds, Op, LocalTypeOK, Authorizes
<1>2. p = loc[t].identity /\ DOMAIN buf[t] \subseteq {r}
  BY <1>1 DEF JoinWrites
<1>3. seen'[t][Token(loc[t].token)].identity = p
  BY <1>1, TokenHeld DEF Unauthorized, Outside
<1>4. DOMAIN buf'[t] \subseteq {r}
  BY <1>2 DEF Adds
<1>5. ASSUME pc'[t] = "commit", r \in DOMAIN buf'[t]
      PROVE  \E at \in 0 .. now : buf'[t][r] = [token |-> loc[t].token, ip |-> call[t].ip,
                                                expires |-> at + SessionTTL]
  <2>1. w = Put(r, NewSession(t))
    BY <1>5
  <2>2. r \in DOMAIN w /\ w[r] = NewSession(t)
    BY <2>1 DEF Put
  <2>3. buf'[t][r] = NewSession(t) /\ now \in 0 .. now
    BY <1>1, <1>5, <2>2 DEF Adds
  <2> QED
    BY <2>3 DEF NewSession
<1>6. JoinWrites(t)'
  <2>1. /\ Session(call'[t].server) = r /\ call'[t] = call[t] /\ loc'[t] = loc[t] /\ now' = now
        /\ seen'[t][Token(loc'[t].token)].identity = p
    BY <1>1, <1>3
  <2>2. DOMAIN buf'[t] \subseteq IF pc'[t] \in {"insertSession", "commit"} THEN {r} ELSE {}
    BY <1>4
  <2> HIDE DEF r, p
  <2> QED
    BY <1>2, <1>5, <2>1, <2>2 DEF JoinWrites
<1>7. r \in SessionRows
  BY OfKind
<1>8. \A h \in Hash : Token(h) \notin DOMAIN w
  <2>1. \A h \in Hash : Token(h) # r
    BY <1>7, OfKind, Kinds
  <2> HIDE DEF r
  <2> QED
    BY <2>1 DEF r
<1> QED
  BY <1>1, <1>6, <1>8, OnlyDoes, ExactAdds

LEMMA ExactClearSession ==
    ASSUME SharedAuthAssumption, Exact, Inductive', NEW t \in Tx, ClearSession(t)
    PROVE  WritesExactly(t)'
<1> DEFINE s == Session(call[t].server)
           w == IF SessionExpired(call[t].server) THEN Drop({s}) ELSE NoWrites
<1>1. /\ pc[t] = "clearSession" /\ Op(t) = "join" /\ loc' = loc /\ UNCHANGED local
      /\ call[t].server \in Server
  BY ExactParts, SessionKey DEF ClearSession, Knows, Route
<1>2. CASE Goto(t, "fail") /\ UNCHANGED store
  BY <1>1, <1>2, ExactParts, GotoEffect, NothingAdded, ExactReads
<1>3. CASE /\ loc[t].identity # None /\ loc[t].identity = call[t].selected
           /\ IF SessionExpired(call[t].server) THEN Statement(t, {}, {}, Drop({s})) ELSE UNCHANGED store
           /\ Goto(t, "insertSession")
  <2>1. Adds(t, w)
    <3>1. CASE SessionExpired(call[t].server)
      BY <1>1, <1>3, <3>1, ExactParts, StatementAdds
    <3>2. CASE ~SessionExpired(call[t].server)
      BY <1>1, <1>3, <3>2, ExactParts, NothingAdded
    <3> QED
      BY <3>1, <3>2
  <2>2. pc'[t] = "insertSession" /\ DOMAIN w \subseteq {s}
    BY <1>3, ExactParts, GotoEffect, RowsNone DEF Drop
  <2> HIDE DEF w
  <2> QED
    BY <1>1, <1>3, <2>1, <2>2, ExactJoining
<1> QED
  BY <1>2, <1>3 DEF ClearSession

LEMMA ExactInsertSession ==
    ASSUME SharedAuthAssumption, Exact, Inductive', NEW t \in Tx, InsertSession(t)
    PROVE  WritesExactly(t)'
<1> DEFINE s == Session(call[t].server)
<1>1. /\ pc[t] = "insertSession" /\ Op(t) = "join" /\ loc' = loc /\ UNCHANGED local
      /\ call[t].server \in Server /\ JoinWrites(t) /\ LockOrder(t)
  BY ExactParts, SessionKey DEF InsertSession, Knows, Route, KnowsMore, WritesExactly
<1>2. DOMAIN buf[t] \subseteq {s} /\ loc[t].identity = call[t].selected
  BY <1>1 DEF JoinWrites
<1>3. CASE ~Taken(t) /\ Statement(t, {}, LocksAt(t), Put(s, NewSession(t))) /\ Goto(t, "commit")
  <2>1. Adds(t, Put(s, NewSession(t))) /\ pc'[t] = "commit"
    BY <1>1, <1>3, ExactParts, StatementAdds, GotoEffect
  <2>2. DOMAIN Put(s, NewSession(t)) \subseteq {s}
    BY DEF Put
  <2> QED
    BY <1>1, <1>2, <2>1, <2>2, ExactJoining
<1>4. CASE Taken(t) /\ Statement(t, SharesAt(t), {}, NoWrites) /\ Goto(t, "compareSession")
  <2>1. Adds(t, NoWrites) /\ pc'[t] = "compareSession"
    BY <1>1, <1>4, ExactParts, StatementAdds, GotoEffect
  <2>2. s \notin DOMAIN buf[t]
    <3>1. s \in DOMAIN seen[t] => s \in DOMAIN buf[t] /\ buf[t][s] = NoRow
      BY <1>1 DEF LockOrder
    <3>2. DOMAIN buf[t] \subseteq DOMAIN seen[t]
      BY <2>1 DEF Adds
    <3> QED
      BY <1>4, <3>1, <3>2 DEF Taken, View
  <2>3. DOMAIN buf'[t] = {}
    BY <1>2, <2>1, <2>2, RowsNone DEF Adds
  <2> QED
    BY <1>1, <1>2, <2>1, <2>3, RowsNone, ExactJoining
<1> QED
  BY <1>3, <1>4 DEF InsertSession

LEMMA ExactCompareSession ==
    ASSUME SharedAuthAssumption, Exact, Inductive', NEW t \in Tx, CompareSession(t)
    PROVE  WritesExactly(t)'
<1> DEFINE s == Session(call[t].server)
           ok == Exists(s) /\ db[s].token = loc[t].token /\ db[s].ip = call[t].ip
<1>1. /\ pc[t] = "compareSession" /\ Op(t) = "join" /\ loc' = loc /\ UNCHANGED local
      /\ call[t].server \in Server /\ JoinWrites(t) /\ Check(t, ok, "commit")
      /\ Adds(t, NoWrites)
  BY ExactParts, SessionKey, StatementAdds DEF CompareSession, Knows, Route, WritesExactly
<1>2. DOMAIN buf[t] = {} /\ loc[t].identity = call[t].selected
  BY <1>1 DEF JoinWrites
<1>3. DOMAIN buf'[t] = {}
  BY <1>1, <1>2, RowsNone DEF Adds
<1>4. pc'[t] \in {"commit", "fail"}
  <2> HIDE DEF ok
  <2> QED
    BY <1>1, ExactParts, CheckEffect
<1>5. CASE pc'[t] = "fail"
  BY <1>1, <1>5, ExactReads
<1>6. CASE pc'[t] = "commit"
  BY <1>1, <1>2, <1>3, <1>6, RowsNone, ExactJoining
<1> QED
  BY <1>4, <1>5, <1>6

\* HasJoined only reads.
LEMMA ExactHasJoined ==
    ASSUME SharedAuthAssumption, Exact, Inductive', NEW t \in Tx,
           FindSession(t) \/ CheckName(t) \/ LockSession(t)
    PROVE  WritesExactly(t)'
<1>1. /\ pc[t] \in {"findSession", "checkName", "lockSession"} /\ Op(t) = "hasJoined"
      /\ call' = call /\ UNCHANGED local
  BY ExactParts DEF FindSession, CheckName, LockSession, Knows, Route, local
<1>2. CASE FindSession(t)
  <2>1. Adds(t, NoWrites) /\ pc'[t] \in {"findOwner", "fail"}
    BY <1>1, <1>2, ExactParts, NothingAdded, CheckEffect DEF FindSession
  <2> QED
    BY <1>1, <2>1, ExactReads DEF Unbound
<1>3. CASE CheckName(t)
  <2>1. Adds(t, NoWrites) /\ pc'[t] \in {"lockSession", "fail"} /\ loc' = loc
    BY <1>1, <1>3, ExactParts, NothingAdded, CheckEffect DEF CheckName
  <2> QED
    BY <1>1, <2>1, ExactReads DEF Unbound
<1>4. CASE LockSession(t)
  <2>1. Adds(t, NoWrites) /\ loc' = loc
    BY <1>1, <1>4, ExactParts, StatementAdds DEF LockSession
  <2>2. DOMAIN buf'[t] = {}
    BY <1>1, <2>1, EarlyEmpty, RowsNone DEF Adds, Unbound
  <2> QED
    BY <1>1, <2>1, <2>2, RowsNone, OnlyDoes, ExactAdds DEF Op
<1> QED
  BY <1>2, <1>3, <1>4

\* At most so many of the oldest.
LEMMA OldestFew ==
    ASSUME NEW S, IsFiniteSet(S), NEW n \in Nat, NEW age, NEW X \in Oldest(S, n, age)
    PROVE  X \subseteq S /\ Cardinality(X) <= n
<1>1. Cardinality(S) \in Nat
  BY FS_CardinalityType
<1> QED
  BY <1>1 DEF Oldest

LEMMA ExactDeleteTokens ==
    ASSUME SharedAuthAssumption, Exact, Inductive', NEW t \in Tx, DeleteTokens(t)
    PROVE  WritesExactly(t)'
<1>1. /\ pc[t] = "deleteTokens" /\ Op(t) = "cleanup" /\ loc' = loc /\ UNCHANGED local
      /\ Op(t)' = "cleanup" /\ pc'[t] = "deleteSessions" /\ now' = now
  BY ExactParts, GotoEffect DEF DeleteTokens, Knows, Route, Op, local
<1>2. PICK X \in OldestTokens : Statement(t, {}, {}, Drop({Token(h) : h \in X}))
  BY DEF DeleteTokens
<1>3. IsFiniteSet(ExpiredTokens) /\ ExpiredTokens \subseteq Hash
  <2>1. ExpiredTokens \subseteq Stored /\ IsFiniteSet(Stored)
    BY ExactParts, LimitedParts DEF ExpiredTokens, Stored
  <2> QED
    BY <2>1, FS_Subset DEF ExpiredTokens
<1>4. X \subseteq ExpiredTokens /\ Cardinality(X) <= CleanupBatch
  <2>1. CleanupBatch \in Nat
    BY DEF SharedAuthAssumption
  <2> QED
    BY <1>3, <2>1, OldestFew DEF OldestTokens
<1> DEFINE w == Drop({Token(h) : h \in X})
<1>5. DOMAIN w = {Token(h) : h \in X} /\ \A r \in DOMAIN w : w[r] = NoRow
  BY DEF Drop
<1>6. \A r \in DOMAIN w : db[r] # NoRow /\ db[r].expires <= now
  BY <1>4, <1>5 DEF ExpiredTokens, Exists
<1> HIDE DEF w
<1>7. Adds(t, w)
  BY <1>1, <1>2, ExactParts, StatementAdds DEF w
<1>8. DOMAIN buf[t] = {}
  BY <1>1, EarlyEmpty DEF Unbound
<1>9. /\ DOMAIN buf'[t] = {Token(h) : h \in X} \cup {Session(s) : s \in {}}
      /\ \A r \in DOMAIN buf'[t] : buf'[t][r] = NoRow /\ seen'[t][r] # NoRow /\ seen'[t][r].expires <= now'
  BY <1>1, <1>5, <1>6, <1>7, <1>8 DEF Adds
<1>10. /\ X \in SUBSET Hash /\ {} \in SUBSET Server /\ Cardinality({}) <= CleanupBatch
  BY <1>3, <1>4, FS_EmptySet DEF SharedAuthAssumption
<1>11. CleanupWrites(t)'
  BY <1>1, <1>4, <1>9, <1>10 DEF CleanupWrites
<1> QED
  BY <1>1, <1>5, <1>7, <1>11, OnlyDoes, ExactAdds

LEMMA ExactDeleteSessions ==
    ASSUME SharedAuthAssumption, Exact, Inductive', NEW t \in Tx, DeleteSessions(t)
    PROVE  WritesExactly(t)'
<1>1. /\ pc[t] = "deleteSessions" /\ Op(t) = "cleanup" /\ loc' = loc /\ UNCHANGED local
      /\ Op(t)' = "cleanup" /\ pc'[t] = "commit" /\ now' = now /\ CleanupWrites(t)
  BY ExactParts, GotoEffect DEF DeleteSessions, Knows, Route, Op, WritesExactly, local
<1>2. PICK Y \in OldestSessions : Statement(t, {}, {}, Drop({Session(s) : s \in Y}))
  BY DEF DeleteSessions
<1>3. IsFiniteSet(ExpiredSessions) /\ ExpiredSessions \subseteq Server
  <2>1. /\ ExpiredSessions \subseteq {s \in Server : Exists(Session(s))}
        /\ IsFiniteSet({s \in Server : Exists(Session(s))})
    BY ExactParts DEF ExpiredSessions, SessionExpired
  <2> QED
    BY <2>1, FS_Subset DEF ExpiredSessions
<1>4. Y \subseteq ExpiredSessions /\ Cardinality(Y) <= CleanupBatch
  <2>1. CleanupBatch \in Nat
    BY DEF SharedAuthAssumption
  <2> QED
    BY <1>3, <2>1, OldestFew DEF OldestSessions
<1>5. PICK X \in SUBSET Hash :
          /\ DOMAIN buf[t] = {Token(h) : h \in X} /\ Cardinality(X) <= CleanupBatch
          /\ \A r \in DOMAIN buf[t] : buf[t][r] = NoRow /\ seen[t][r] # NoRow /\ seen[t][r].expires <= now
  <2>1. PICK X \in SUBSET Hash, Z \in SUBSET Server :
            /\ DOMAIN buf[t] = {Token(h) : h \in X} \cup {Session(s) : s \in Z}
            /\ Cardinality(X) <= CleanupBatch /\ (pc[t] # "commit" => Z = {})
            /\ \A r \in DOMAIN buf[t] : buf[t][r] = NoRow /\ seen[t][r] # NoRow /\ seen[t][r].expires <= now
    BY <1>1, Zenon DEF CleanupWrites
  <2> QED
    BY <1>1, <2>1
<1> DEFINE w == Drop({Session(s) : s \in Y})
<1>6. DOMAIN w = {Session(s) : s \in Y} /\ \A r \in DOMAIN w : w[r] = NoRow
  BY DEF Drop
<1>7. \A r \in DOMAIN w : db[r] # NoRow /\ db[r].expires <= now
  BY <1>4, <1>6 DEF ExpiredSessions, SessionExpired, Exists
<1> HIDE DEF w
<1>8. Adds(t, w)
  BY <1>1, <1>2, ExactParts, StatementAdds DEF w
<1>9. /\ DOMAIN buf'[t] = {Token(h) : h \in X} \cup {Session(s) : s \in Y}
      /\ \A r \in DOMAIN buf'[t] : buf'[t][r] = NoRow /\ seen'[t][r] # NoRow /\ seen'[t][r].expires <= now'
  BY <1>1, <1>5, <1>6, <1>7, <1>8 DEF Adds
<1>10. Y \in SUBSET Server
  BY <1>3, <1>4
<1>11. CleanupWrites(t)'
  BY <1>1, <1>4, <1>5, <1>9, <1>10 DEF CleanupWrites
<1> QED
  BY <1>1, <1>6, <1>8, <1>11, OnlyDoes, ExactAdds

-----------------------------------------------------------------------------
(* Every step of t, and the others meanwhile.                              *)

LEMMA ExactReturns ==
    ASSUME SharedAuthAssumption, Exact, NEW t \in Tx, Commit(t) \/ Rollback(t)
    PROVE  WritesExactly(t)'
<1>1. Release(t) /\ Return(t)
  BY DEF Commit, Rollback, CommitTx, RollbackTx
<1>2. DOMAIN buf'[t] = {} /\ pc'[t] = "idle"
  BY <1>1, ExactParts, ReturnEffect, RowsNone DEF Release
<1> QED
  BY <1>2, ExactEnds

LEMMA ExactFails ==
    ASSUME SharedAuthAssumption, Exact, NEW t \in Tx, SqlError(t) \/ AbortVictim(t)
    PROVE  WritesExactly(t)'
<1>1. UNCHANGED store /\ now' = now
  BY DEF SqlError, AbortVictim, local
<1>2. CASE pc[t] \in {"resolve", "verify"} /\ Return(t)
  <2>1. DOMAIN buf'[t] = {} /\ pc'[t] = "idle"
    BY <1>1, <1>2, ExactParts, ReturnEffect DEF store, Knows, WritesOf
  <2> QED
    BY <2>1, ExactEnds
<1>3. CASE pc[t] # "idle" /\ Goto(t, "fail") /\ UNCHANGED <<call, loc>>
  <2>1. Adds(t, NoWrites) /\ pc'[t] = "fail"
    BY <1>1, <1>3, ExactParts, NothingAdded, GotoEffect DEF local
  <2> QED
    BY <1>3, <2>1, ExactReads
<1>4. CASE AbortVictim(t)
  <2>1. \E o : WaitsFor(t, o)
    BY <1>4 DEF AbortVictim, Deadlock
  <2>2. pc[t] # "idle"
    BY <2>1 DEF WaitsFor, SharesAt, LocksAt
  <2> QED
    BY <1>3, <1>4, <2>2 DEF AbortVictim, local
<1> QED
  BY <1>1, <1>2, <1>3, <1>4 DEF SqlError

LEMMA ExactNext ==
    ASSUME SharedAuthAssumption, Exact, Strong', NEW t \in Tx,
           (\E c \in Calls : Start(t, c)) \/ Step(t) \/ SqlError(t) \/ AbortVictim(t)
    PROVE  WritesExactly(t)'
<1>1. Inductive'
  BY DEF Strong
<1>2. CASE RefreshOrInvalidate(t)
  BY <1>1, <1>2, ExactRefresh, ExactInvalidate DEF RefreshOrInvalidate
<1>3. CASE JoinOrHasJoined(t)
  BY <1>1, <1>3, ExactClearSession, ExactInsertSession, ExactCompareSession, ExactHasJoined
     DEF JoinOrHasJoined
<1>4. CASE Cleanup(t)
  BY <1>1, <1>4, ExactDeleteTokens, ExactDeleteSessions DEF Cleanup
<1> QED
  BY <1>1, <1>2, <1>3, <1>4, ExactStart, ExactBegin, ExactAuthorize, ExactAuthenticateOrSignout,
     ExactReturns, ExactFails DEF Step

\* What a transaction has written stays exact while others move and time passes.
LEMMA ExactStays ==
    ASSUME SharedAuthAssumption, Exact, Inductive', NEW o \in Tx, now <= now',
           pc'[o] = pc[o], call'[o] = call[o], loc'[o] = loc[o],
           seen'[o] = seen[o], buf'[o] = buf[o]
    PROVE  WritesExactly(o)'
<1>1. /\ Op(o)' = Op(o) /\ now \in Nat /\ now' \in Nat /\ Carries(o) /\ Dated(o) /\ Does(o)
      /\ StoreTypeOK /\ StoreInv /\ StoreInv'
  BY ExactParts, ExactlyIs DEF Op, Inductive, TypeOK, LocalTypeOK
<1>2. Carries(o)'
  BY <1>1 DEF Carries
<1>3. Dated(o)'
  <2>1. ASSUME NEW h \in Hash, Token(h) \in DOMAIN buf[o], buf[o][Token(h)] # NoRow
        PROVE  buf[o][Token(h)].created <= now'
    <3>1. buf[o][Token(h)] \in TokenRow
      BY <1>1, <2>1, Stores, KeyValues
    <3>2. buf[o][Token(h)].created \in Nat
      BY <3>1 DEF TokenRow
    <3>3. buf[o][Token(h)].created <= now
      BY <1>1, <2>1 DEF Dated
    <3> QED
      BY <1>1, <3>2, <3>3
  <2> QED
    BY <2>1 DEF Dated
<1>4. SUFFICES ASSUME pc[o] # "fail"
               PROVE  Does(o)'
  BY <1>2, <1>3, ExactlyIs DEF Does
<1>5. 0 .. now \subseteq 0 .. now'
  BY <1>1
<1>6. LoginWrites(o)'
  <2>1. SUFFICES ASSUME Op(o) = "authenticate"
                 PROVE  LoginWrites(o)'
    BY <1>1 DEF LoginWrites
  <2>2. LoginWrites(o)
    BY <1>1, <1>4 DEF Does
  <2>3. Mine(o)' = Mine(o) /\ Evicted(o)' = Evicted(o) /\ SubjectEnsured(o)' = SubjectEnsured(o)
    BY DEF Mine, Evicted, SubjectEnsured
  <2>4. pc[o] = "commit" => Generation(o)' = Generation(o)
    <3>1. SUFFICES ASSUME pc[o] = "commit"
                   PROVE  Generation(o)' = Generation(o)
      OBVIOUS
    <3>2. Subject(loc[o].uid) \in DOMAIN seen[o]
      BY <2>1, <2>2, <3>1 DEF LoginWrites, SubjectEnsured
    <3>3. db'[Subject(loc[o].uid)] = db[Subject(loc[o].uid)]
      BY <1>1, <3>2 DEF StoreInv, SeenIsCurrent
    <3> QED
      BY <3>3 DEF Generation, View
  <2>5. CASE pc[o] # "commit"
    BY <2>1, <2>2, <2>5 DEF LoginWrites
  <2>6. CASE pc[o] = "commit"
    <3>1. PICK new \in Hash \ Mine(o), X \in Evicted(o), at \in 0 .. now :
              /\ \A h \in Hash : Token(h) \in DOMAIN buf[o] <=> h \in X \cup {new}
              /\ \A h \in X : buf[o][Token(h)] = NoRow
              /\ buf[o][Token(new)] =
                    [owner |-> loc[o].uid, generation |-> Generation(o),
                     client |-> call[o].client, identity |-> loc[o].identity,
                     created |-> at, expires |-> at + TokenTTL]
      BY <2>1, <2>2, <2>6, Zenon DEF LoginWrites
    <3>2. /\ new \in Hash \ Mine(o)' /\ X \in Evicted(o)' /\ at \in 0 .. now'
          /\ \A h \in Hash : Token(h) \in DOMAIN buf'[o] <=> h \in X \cup {new}
          /\ \A h \in X : buf'[o][Token(h)] = NoRow
          /\ buf'[o][Token(new)] =
                [owner |-> loc'[o].uid, generation |-> Generation(o)',
                 client |-> call'[o].client, identity |-> loc'[o].identity,
                 created |-> at, expires |-> at + TokenTTL]
      BY <1>5, <2>3, <2>4, <2>6, <3>1
    <3>3. SubjectEnsured(o)'
      BY <2>1, <2>2, <2>3, <2>6 DEF LoginWrites
    <3> QED
      BY <2>1, <2>2, <3>2, <3>3 DEF LoginWrites
  <2> QED
    BY <2>5, <2>6
<1>7. RefreshBinds(o)' /\ InvalidateWrites(o)' /\ SignoutWrites(o)'
  BY <1>1, <1>4 DEF Does, RefreshBinds, InvalidateWrites, SignoutWrites, Bound
<1>8. JoinWrites(o)'
  BY <1>1, <1>4, <1>5 DEF Does, JoinWrites
<1>9. CleanupWrites(o)'
  <2>1. SUFFICES ASSUME Op(o) = "cleanup"
                 PROVE  CleanupWrites(o)'
    BY <1>1 DEF CleanupWrites
  <2>2. PICK X \in SUBSET Hash, Y \in SUBSET Server :
            /\ DOMAIN buf[o] = {Token(h) : h \in X} \cup {Session(s) : s \in Y}
            /\ Cardinality(X) <= CleanupBatch /\ Cardinality(Y) <= CleanupBatch
            /\ pc[o] \notin {"deleteSessions", "commit"} => X = {}
            /\ pc[o] # "commit" => Y = {}
            /\ \A r \in DOMAIN buf[o] :
                  buf[o][r] = NoRow /\ seen[o][r] # NoRow /\ seen[o][r].expires <= now
    BY <1>1, <1>4, <2>1, Zenon DEF Does, CleanupWrites
  <2>3. ASSUME NEW r \in DOMAIN buf[o]
        PROVE  seen[o][r].expires <= now'
    <3>1. r \in DOMAIN seen[o] /\ seen[o][r] # NoRow /\ seen[o][r].expires <= now
      BY <1>1, <2>2 DEF StoreInv, WritesLocked
    <3>2. Values(r) \in {TokenRow, SessionRow}
      BY <2>2, KeyValues
    <3>3. seen[o][r] \in TokenRow \cup SessionRow
      BY <1>1, <3>1, <3>2, Stores
    <3>4. seen[o][r].expires \in Nat
      BY <3>3 DEF TokenRow, SessionRow
    <3> QED
      BY <1>1, <3>1, <3>4
  <2> QED
    BY <2>1, <2>2, <2>3 DEF CleanupWrites
<1>10. Op(o) \in {"validate", "hasJoined"} => DOMAIN buf'[o] = {}
  BY <1>1, <1>4 DEF Does
<1> QED
  BY <1>1, <1>6, <1>7, <1>8, <1>9, <1>10 DEF Does

\* The rows that a COMMIT of each operation may write.
WrittenRows(t) ==
    CASE Op(t) = "authenticate" -> {Subject(loc[t].uid)} \cup IdentityRows \cup TokenRows
      [] Op(t) \in {"refresh", "invalidate"} -> TokenRows
      [] Op(t) = "signout" -> {Subject(loc[t].uid)}
      [] Op(t) = "join" -> {Session(call[t].server)}
      [] Op(t) = "cleanup" -> TokenRows \cup SessionRows
      [] OTHER -> {}

LEMMA CommitWrites ==
    ASSUME Exact, NEW t \in Tx, Commit(t)
    PROVE  DOMAIN buf[t] \subseteq WrittenRows(t)
<1>1. /\ pc[t] = "commit" /\ Does(t) /\ KnowsMore(t) /\ Fits(t) /\ WritesExactly(t)
      /\ Op(t) \in {"authenticate", "refresh", "validate", "invalidate", "signout", "join",
                    "hasJoined", "cleanup"}
  <2>1. pc[t] = "commit" /\ WritesExactly(t) /\ call[t] \in Call
    BY ExactParts DEF Commit, LocalTypeOK
  <2>2. call[t] \in Calls
    BY <2>1 DEF WritesExactly
  <2> QED
    BY <2>1, <2>2, ExactParts, ExactlyIs, SharedAuthAssumption DEF SharedAuthAssumption, Call, Op
<1>2. CASE Op(t) = "authenticate"
  BY <1>1, <1>2 DEF Does, LoginWrites, WrittenRows
<1>3. CASE Op(t) = "refresh"
  <2>1. loc[t].token \in Hash
    BY <1>1, <1>3, ExactParts, IsAuthorized DEF Authorized, TokenRead, Authorizes, Unauthorized, Outside
  <2> QED
    BY <1>1, <1>3, <2>1, OfKind DEF KnowsMore, RefreshWrites, WrittenRows
<1>4. CASE Op(t) = "invalidate"
  <2>1. loc[t].token \in Hash
    BY <1>1, <1>4, ExactParts, SharedAuthAssumption
       DEF WritesExactly, Knows, Arguments, WellFormed, Op, SharedAuthAssumption
  <2> QED
    BY <1>1, <1>4, <2>1, OfKind DEF Does, InvalidateWrites, WrittenRows
<1>5. CASE Op(t) = "signout"
  BY <1>1, <1>5 DEF Does, SignoutWrites, WrittenRows
<1>6. CASE Op(t) = "join"
  BY <1>1, <1>6 DEF Does, JoinWrites, WrittenRows
<1>7. CASE Op(t) = "cleanup"
  <2>1. PICK X \in SUBSET Hash, Y \in SUBSET Server :
            DOMAIN buf[t] = {Token(h) : h \in X} \cup {Session(s) : s \in Y}
    BY <1>1, <1>7, Zenon DEF Does, CleanupWrites
  <2> QED
    BY <1>7, <2>1, OfKind DEF WrittenRows
<1>8. CASE Op(t) \in {"validate", "hasJoined"}
  BY <1>1, <1>8 DEF Does
<1> QED
  BY <1>1, <1>2, <1>3, <1>4, <1>5, <1>6, <1>7, <1>8

\* A COMMIT stores at most the session of its own call.
LEMMA SessionsFinite ==
    ASSUME SharedAuthAssumption, Exact, [Next]_vars
    PROVE  IsFiniteSet({s \in Server : Exists(Session(s))})'
<1> DEFINE Held == {s \in Server : Exists(Session(s))}
<1>1. Strong /\ Inductive /\ IsFiniteSet(Held)
  BY ExactParts
<1>2. CASE db' = db \/ \A s \in Server : db'[Session(s)] = db[Session(s)]
  <2>1. Held' = Held
    BY <1>2 DEF Exists
  <2> QED
    BY <1>1, <2>1
<1>3. ASSUME NEW t \in Tx, Commit(t)
      PROVE  IsFiniteSet(Held')
  <2>1. Held' \subseteq Held \cup {call[t].server}
    <3>1. SUFFICES ASSUME NEW s \in Server, db'[Session(s)] # NoRow, db[Session(s)] = NoRow
                   PROVE  s = call[t].server
      BY DEF Exists
    <3>2. Session(s) \in DOMAIN buf[t] /\ buf[t][Session(s)] # NoRow
      BY <1>1, <1>3, <3>1, CommitRows, KeysInRow DEF View
    <3>3. Session(s) \in WrittenRows(t) /\ Session(s) \in SessionRows
      BY <1>3, <3>2, CommitWrites, OfKind
    <3>4. CASE Op(t) = "join"
      BY <3>3, <3>4, KeysOne DEF WrittenRows
    <3>5. CASE Op(t) = "cleanup"
      <4>1. CleanupWrites(t) /\ pc[t] = "commit"
        BY <1>3, ExactParts DEF WritesExactly, Commit
      <4> QED
        BY <3>2, <3>5, <4>1, Zenon DEF CleanupWrites
    <3>6. CASE Op(t) \in {"authenticate", "signout"}
      <4>1. loc[t].uid \in Uid
        BY <1>3, <3>6, ExactParts DEF Commit, Knows, Arguments
      <4> QED
        BY <3>3, <3>6, <4>1, OfKind, Kinds DEF WrittenRows
    <3>7. CASE Op(t) \notin {"join", "cleanup", "authenticate", "signout"}
      BY <3>3, <3>7, Kinds DEF WrittenRows
    <3> QED
      BY <3>4, <3>5, <3>6, <3>7
  <2>2. IsFiniteSet(Held \cup {call[t].server})
    BY <1>1, FS_AddElement
  <2> HIDE DEF Held
  <2> QED
    BY <2>1, <2>2, FS_Subset
<1>4. \/ db' = db
      \/ \E t \in Tx : Commit(t)
      \/ \A s \in Server : db'[Session(s)] = db[Session(s)]
  BY <1>1, NextRows
<1> QED
  BY <1>2, <1>3, <1>4

\* Only the steps of t change what t has written.
LEMMA ExactStep ==
    ASSUME SharedAuthAssumption, Exact, [Next]_vars
    PROVE  Exact'
<1>1. Limited /\ Inductive /\ Limited' /\ Strong' /\ Inductive' /\ now \in Nat
  BY ExactParts, LimitedStep DEF Limited, Strong, LocalTypeOK
<1>2. ASSUME NEW t \in Tx,
             (\E c \in Calls : Start(t, c)) \/ Step(t) \/ SqlError(t) \/ AbortVictim(t)
      PROVE  \A o \in Tx : WritesExactly(o)'
  <2>1. OthersLeft(t) /\ WritesExactly(t)'
    BY <1>1, <1>2, StepLeaves, ExactNext
  <2>2. now' = now
    BY <1>2, StepWrites DEF Start, SqlError, AbortVictim, local
  <2>3. now <= now'
    BY <1>1, <2>2
  <2>4. ASSUME NEW o \in Tx \ {t}
        PROVE  WritesExactly(o)'
    BY <1>1, <2>1, <2>3, ExactStays DEF OthersLeft
  <2> QED
    BY <2>1, <2>4
<1>3. ASSUME Elsewhere \/ Tick \/ UNCHANGED vars
      PROVE  \A o \in Tx : WritesExactly(o)'
  <2>1. /\ pc' = pc /\ call' = call /\ loc' = loc /\ now' \in {now, now + 1}
        /\ seen' = seen /\ buf' = buf
    BY <1>3 DEF Elsewhere, DeleteUser, UpdateUser, ResolveIdentity, RollbackIdentity, Reidentify,
                SetPlayer, Deactivate, Activate, AutoCommit, local, Tick, vars, store
  <2>2. now <= now'
    BY <1>1, <2>1
  <2> SUFFICES ASSUME NEW o \in Tx
               PROVE  WritesExactly(o)'
    OBVIOUS
  <2>3. pc'[o] = pc[o] /\ call'[o] = call[o] /\ loc'[o] = loc[o]
    BY <2>1
  <2>4. seen'[o] = seen[o] /\ buf'[o] = buf[o]
    BY <2>1
  <2> QED
    BY <1>1, <2>2, <2>3, <2>4, ExactStays
<1>4. \/ \E t \in Tx : (\E c \in Calls : Start(t, c)) \/ Step(t) \/ SqlError(t) \/ AbortVictim(t)
      \/ Elsewhere \/ Tick \/ UNCHANGED vars
  BY DEF Next, Elsewhere
<1>5. \A o \in Tx : WritesExactly(o)'
  BY <1>2, <1>3, <1>4
<1>6. IsFiniteSet({s \in Server : Exists(Session(s))})'
  BY SessionsFinite
<1> QED
  BY <1>1, <1>5, <1>6 DEF Exact

LEMMA InitExact ==
    ASSUME SharedAuthAssumption, Init
    PROVE  Exact
<1>1. Limited
  BY InitLimited
<1>2. ASSUME NEW t \in Tx
      PROVE  WritesExactly(t)
  <2>1. pc[t] = "idle" /\ DOMAIN buf[t] = {} /\ call[t] = NoCall
    BY RowsNone DEF Init, StoreInit
  <2>2. Op(t) = "cleanup"
    BY <2>1 DEF Op, NoCall
  <2>3. CleanupWrites(t)
    <3> DEFINE X == {}
               Y == {}
    <3>1. /\ X \in SUBSET Hash /\ Y \in SUBSET Server
          /\ DOMAIN buf[t] = {Token(h) : h \in X} \cup {Session(s) : s \in Y}
      BY <2>1
    <3>2. Cardinality(X) <= CleanupBatch /\ Cardinality(Y) <= CleanupBatch
      BY FS_EmptySet, SharedAuthAssumption DEF SharedAuthAssumption
    <3> QED
      BY <2>1, <3>1, <3>2 DEF CleanupWrites
  <2> QED
    BY <2>1, <2>2, <2>3 DEF WritesExactly, LoginWrites, RefreshBinds, InvalidateWrites,
                            SignoutWrites, JoinWrites
<1>3. {s \in Server : Exists(Session(s))} = {}
  BY KeysInRow DEF Init, StoreInit, Session, Gate, Exists
<1>4. IsFiniteSet({s \in Server : Exists(Session(s))})
  BY <1>3, FS_EmptySet
<1> QED
  BY <1>1, <1>2, <1>4 DEF Exact

\* Whatever the others do, every transaction has written what its operation promises, at
\* each of its statements (auth.go:33-197, authenticate.go:28-160, cleanup.go:14-40).
THEOREM ExactInvariant == Spec => []Exact
<1>1. Init => Exact
  BY SharedAuthAssumption, InitExact
<1>2. Exact /\ [Next]_vars => Exact'
  BY SharedAuthAssumption, ExactStep
<1> QED
  BY <1>1, <1>2, PTL DEF Spec

-----------------------------------------------------------------------------
(* Every step is one of AuthPromise, or changes none of its tables.        *)

\* The tables row by row.
SameSite ==
    /\ db'[Gate] = db[Gate] /\ \A u \in Uid : db'[User(u)] = db[User(u)]
    /\ \A p \in Pid : db'[Player(p)] = db[Player(p)]
SameSubjects == \A u \in Uid : db'[Subject(u)] = db[Subject(u)]
SameIdentities == \A p \in Pid : db'[Identity(p)] = db[Identity(p)]
SameTokens == \A h \in Hash : db'[Token(h)] = db[Token(h)]
SameSessions == \A s \in Server : db'[Session(s)] = db[Session(s)]

LEMMA SameTables ==
    /\ SameSite => UNCHANGED Promise!site
    /\ SameSubjects => [u \in Uid |-> db[Subject(u)]]' = [u \in Uid |-> db[Subject(u)]]
    /\ SameIdentities => [p \in Pid |-> db[Identity(p)]]' = [p \in Pid |-> db[Identity(p)]]
    /\ SameTokens => [h \in Hash |-> db[Token(h)]]' = [h \in Hash |-> db[Token(h)]]
    /\ SameSessions => [s \in Server |-> db[Session(s)]]' = [s \in Server |-> db[Session(s)]]
BY DEF SameSite, SameSubjects, SameIdentities, SameTokens, SameSessions, Promise!site

LEMMA SameAll ==
    ASSUME SameSite, SameSubjects, SameIdentities, SameTokens, SameSessions, now' = now
    PROVE  UNCHANGED Promise!tables
BY SameTables DEF Promise!tables

LEMMA EditsUser ==
    ASSUME NEW u \in Uid, NEW row, Exists(User(u)), db'[User(u)] = row, db'[Gate] = db[Gate],
           \A v \in Uid \ {u} : db'[User(v)] = db[User(v)] /\ db'[Subject(v)] = db[Subject(v)],
           db'[Subject(u)] =
               IF /\ row # NoRow /\ row.password = db[User(u)].password
                  /\ row.permission = db[User(u)].permission
               THEN db[Subject(u)] ELSE NextGeneration(u),
           \A p \in Pid : db'[Player(p)] = db[Player(p)],
           SameIdentities, SameTokens, SameSessions, now' = now
    PROVE  Promise!EditUser(u, row)
<1> DEFINE users == [v \in Uid |-> db[User(v)]]
           generations == [v \in Uid |-> db[Subject(v)]]
           kept == /\ row # NoRow /\ row.password = users[u].password
                   /\ row.permission = users[u].permission
<1>1. users[u] # NoRow /\ users[u] = db[User(u)]
  BY DEF Exists
<1>2. users' = [users EXCEPT ![u] = row]
  OBVIOUS
<1>3. generations' = IF kept THEN generations ELSE Promise!NextGeneration(u)
  <2>1. CASE kept
    BY <1>1, <2>1
  <2>2. CASE ~kept
    BY <1>1, <2>2 DEF Promise!NextGeneration, NextGeneration, Exists
  <2> QED
    BY <2>1, <2>2
<1>4. [p \in Pid |-> db[Player(p)]]' = [p \in Pid |-> db[Player(p)]]
  OBVIOUS
<1> QED
  BY <1>1, <1>2, <1>3, <1>4, SameTables DEF Promise!EditUser

\* The site and the operator.
LEMMA UserEffect ==
    ASSUME SharedAuthAssumption, Inductive, NEW u \in Uid,
           DeleteUser(u) \/ \E row \in UserRow : UpdateUser(u, row)
    PROVE  \E row \in UserRow \cup {NoRow} : Promise!EditUser(u, row)
<1>1. \A r \in Row \ {User(u), Subject(u)} : db'[r] = db[r]
  BY UserRows
<1>2. /\ \A v \in Uid \ {u} : db'[User(v)] = db[User(v)] /\ db'[Subject(v)] = db[Subject(v)]
      /\ db'[Gate] = db[Gate] /\ \A p \in Pid : db'[Player(p)] = db[Player(p)]
      /\ SameIdentities /\ SameTokens /\ SameSessions
  BY <1>1, KeysInRow DEF Gate, User, Subject, Player, Identity, Token, Session, SameIdentities,
                         SameTokens, SameSessions
<1>3. CASE DeleteUser(u)
  <2>1. now' = now
    BY <1>3 DEF DeleteUser, local
  <2>2. Promise!EditUser(u, NoRow)
    BY <1>2, <1>3, <2>1, DeletedRows, EditsUser
  <2> QED
    BY <2>2
<1>4. ASSUME NEW row \in UserRow, UpdateUser(u, row)
      PROVE  Promise!EditUser(u, row)
  <2>1. now' = now /\ row # NoRow
    BY <1>4 DEF UpdateUser, local, SharedAuthAssumption
  <2>2. /\ Exists(User(u)) /\ db'[User(u)] = row
        /\ db'[Subject(u)] =
               IF /\ row # NoRow /\ row.password = db[User(u)].password
                  /\ row.permission = db[User(u)].permission
               THEN db[Subject(u)] ELSE NextGeneration(u)
    BY <1>4, <2>1, UpdatedRows
  <2> QED
    BY <1>2, <2>1, <2>2, EditsUser
<1> QED
  BY <1>3, <1>4

LEMMA PlayerEffect ==
    ASSUME SharedAuthAssumption, Inductive, NEW p \in Pid, NEW row \in PlayerRow \cup {NoRow},
           SetPlayer(p, row)
    PROVE  Promise!EditPlayer(p, row)
<1>1. /\ AutoCommit(Put(Player(p), row)) /\ now' = now
      /\ ~Exists(Player(p)) => ~Exists(Identity(p))
      /\ row # NoRow => Exists(User(row.owner))
  BY DEF SetPlayer, local
<1>2. DOMAIN Put(Player(p), row) = {Player(p)} /\ Put(Player(p), row)[Player(p)] = row
  BY DEF Put
<1>3. /\ \A r \in Row \ {Player(p)} : db'[r] = db[r]
      /\ db'[Player(p)] = row
  BY <1>1, <1>2, AutoCommitRows, KeysInRow
<1>4. /\ \A q \in Pid : db'[Player(q)] = IF q = p THEN row ELSE db[Player(q)]
      /\ db'[Gate] = db[Gate] /\ (\A u \in Uid : db'[User(u)] = db[User(u)])
      /\ SameSubjects /\ SameIdentities /\ SameTokens /\ SameSessions
  BY <1>3, KeysInRow DEF Gate, User, Subject, Player, Identity, Token, Session, SameSubjects,
                         SameIdentities, SameTokens, SameSessions
<1>5. [q \in Pid |-> db[Player(q)]]' = [[q \in Pid |-> db[Player(q)]] EXCEPT ![p] = row]
  BY <1>4
<1>6. [u \in Uid |-> db[User(u)]]' = [u \in Uid |-> db[User(u)]]
  BY <1>4
<1>7. row # NoRow => [u \in Uid |-> db[User(u)]][row.owner] # NoRow
  <2>1. row # NoRow => row.owner \in Uid
    BY DEF PlayerRow
  <2> QED
    BY <1>1, <2>1 DEF Exists
<1>8. [q \in Pid |-> db[Player(q)]][p] = NoRow => [q \in Pid |-> db[Identity(q)]][p] = NoRow
  BY <1>1 DEF Exists
<1> QED
  BY <1>1, <1>4, <1>5, <1>6, <1>7, <1>8, SameTables DEF Promise!EditPlayer

LEMMA GateEffect ==
    ASSUME SharedAuthAssumption, Inductive, Deactivate \/ Activate
    PROVE  Promise!Toggle
<1> DEFINE to == IF db[Gate] = "active" THEN "staged" ELSE "active"
<1>1. AutoCommit(Put(Gate, to)) /\ now' = now
  BY DEF Deactivate, Activate, local
<1>2. DOMAIN Put(Gate, to) = {Gate} /\ Put(Gate, to)[Gate] = to
  BY DEF Put
<1>3. /\ \A r \in Row \ {Gate} : db'[r] = db[r]
      /\ db'[Gate] = to
  <2> HIDE DEF to
  <2> QED
    BY <1>1, <1>2, AutoCommitRows, KeysInRow
<1>4. /\ \A u \in Uid : db'[User(u)] = db[User(u)]
      /\ \A p \in Pid : db'[Player(p)] = db[Player(p)]
      /\ SameSubjects /\ SameIdentities /\ SameTokens /\ SameSessions
  BY <1>3, KeysInRow DEF Gate, User, Subject, Player, Identity, Token, Session, SameSubjects,
                         SameIdentities, SameTokens, SameSessions
<1>5. /\ [u \in Uid |-> db[User(u)]]' = [u \in Uid |-> db[User(u)]]
      /\ [p \in Pid |-> db[Player(p)]]' = [p \in Pid |-> db[Player(p)]]
  BY <1>4
<1> QED
  BY <1>1, <1>3, <1>4, <1>5, SameTables DEF Promise!Toggle

LEMMA ResolutionEffect ==
    ASSUME SharedAuthAssumption, Inductive, NEW p \in Pid,
           ResolveIdentity(p) \/ RollbackIdentity(p)
    PROVE  Promise!Resolve(p)
<1>1. PICK from, to :
          /\ Reidentify(p, from, to)
          /\ <<from, to>> \in {<<"blocked", "active">>, <<"active", "blocked">>}
  BY DEF ResolveIdentity, RollbackIdentity
<1> DEFINE w == Over(Put(Identity(p), to), Put(Gate, db[Gate]))
<1>2. /\ AutoCommit(w) /\ now' = now /\ db[Gate] = "staged" /\ db[Identity(p)] = from
      /\ Unreferenced(p)
  BY <1>1 DEF Reidentify, local
<1>3. /\ DOMAIN w = {Identity(p), Gate} /\ w[Identity(p)] = to /\ w[Gate] = db[Gate]
  BY KeysDiffer DEF Over, Put
<1> HIDE DEF w
<1>4. /\ \A r \in Row \ {Identity(p)} : db'[r] = db[r]
      /\ db'[Identity(p)] = to
  BY <1>2, <1>3, AutoCommitRows, KeysInRow
<1>5. /\ SameSite /\ SameSubjects /\ SameTokens /\ SameSessions
      /\ \A q \in Pid : db'[Identity(q)] = IF q = p THEN to ELSE db[Identity(q)]
  BY <1>4, KeysInRow DEF Gate, User, Subject, Player, Identity, Token, Session, SameSite,
                         SameSubjects, SameTokens, SameSessions
<1>6. [q \in Pid |-> db[Identity(q)]]' = [[q \in Pid |-> db[Identity(q)]] EXCEPT ![p] = to]
  BY <1>5
<1>7. /\ \A h \in Hash : LET tokens == [g \in Hash |-> db[Token(g)]]
                         IN  tokens[h] # NoRow => tokens[h].identity # p
      /\ [q \in Pid |-> db[Identity(q)]][p] = from
  BY <1>2 DEF Unreferenced, Exists
<1> QED
  BY <1>1, <1>2, <1>5, <1>6, <1>7, SameTables DEF Promise!Resolve

LEMMA ElsewhereEffect ==
    ASSUME SharedAuthAssumption, Inductive, Elsewhere
    PROVE  Promise!Next
BY UserEffect, PlayerEffect, GateEffect, ResolutionEffect, Zenon DEF Elsewhere, Promise!Next

\* What a COMMIT does, and which tables it leaves.
LEMMA CommitDoes ==
    ASSUME SharedAuthAssumption, Exact, NEW t \in Tx, Commit(t)
    PROVE  /\ pc[t] = "commit" /\ now' = now /\ now \in Nat
           /\ call[t] \in Calls /\ WellFormed(call[t]) /\ Knows(t) /\ KnowsMore(t) /\ Fits(t)
           /\ Carries(t) /\ Dated(t) /\ Does(t)
           /\ Op(t) \in {"authenticate", "refresh", "validate", "invalidate", "signout", "join",
                         "hasJoined", "cleanup"}
           /\ DOMAIN buf[t] # {} => db[Gate] = "active"
           /\ \A r \in Row : db'[r] = IF r \in DOMAIN buf[t] THEN buf[t][r] ELSE db[r]
           /\ \A r \in DOMAIN seen[t] : r \in Row /\ seen[t][r] = db[r]
           /\ DOMAIN buf[t] \subseteq DOMAIN seen[t] /\ DOMAIN buf[t] \subseteq WrittenRows(t)
<1>1. /\ pc[t] = "commit" /\ now' = now /\ now \in Nat /\ Inductive /\ Knows(t) /\ KnowsMore(t)
      /\ Fits(t) /\ Carries(t) /\ Dated(t) /\ Does(t)
  BY ExactParts, ExactlyIs DEF Commit, LocalTypeOK
<1>2. call[t] \in Calls
  BY <1>1 DEF Carries
<1>3. /\ WellFormed(call[t])
      /\ Op(t) \in {"authenticate", "refresh", "validate", "invalidate", "signout", "join",
                    "hasJoined", "cleanup"}
  BY <1>2, SharedAuthAssumption DEF SharedAuthAssumption, Call, Op
<1>4. /\ \A r \in Row : db'[r] = IF r \in DOMAIN buf[t] THEN buf[t][r] ELSE db[r]
      /\ \A r \in DOMAIN seen[t] : r \in Row /\ seen[t][r] = db[r]
      /\ DOMAIN buf[t] \subseteq DOMAIN seen[t]
  BY <1>1, CommitRows DEF View
<1>5. DOMAIN buf[t] # {} => db[Gate] = "active"
  BY <1>1, <1>4 DEF KnowsMore, HasWritten, GateRead
<1> QED
  BY <1>1, <1>2, <1>3, <1>4, <1>5, CommitWrites

LEMMA CommitSame ==
    ASSUME SharedAuthAssumption, Exact, NEW t \in Tx, Commit(t)
    PROVE  /\ SameSite
           /\ Op(t) \notin {"authenticate", "signout"} => SameSubjects
           /\ Op(t) # "authenticate" => SameIdentities
           /\ Op(t) \notin {"authenticate", "refresh", "invalidate", "cleanup"} => SameTokens
           /\ Op(t) \notin {"join", "cleanup"} => SameSessions
<1>1. /\ DOMAIN buf[t] \subseteq WrittenRows(t)
      /\ \A r \in Row \ DOMAIN buf[t] : db'[r] = db[r]
      /\ Knows(t) /\ pc[t] = "commit" /\ WellFormed(call[t])
  BY CommitDoes
<1>2. /\ Op(t) \in {"authenticate", "signout"} => Subject(loc[t].uid) \in SubjectRows
      /\ Op(t) = "join" => Session(call[t].server) \in SessionRows
  BY <1>1 DEF Knows, Arguments, WellFormed, Op, SubjectRows, SessionRows
<1>3. /\ WrittenRows(t) \cap SiteRows = {}
      /\ Op(t) \notin {"authenticate", "signout"} => WrittenRows(t) \cap SubjectRows = {}
      /\ Op(t) # "authenticate" => WrittenRows(t) \cap IdentityRows = {}
      /\ Op(t) \notin {"authenticate", "refresh", "invalidate", "cleanup"} =>
             WrittenRows(t) \cap TokenRows = {}
      /\ Op(t) \notin {"join", "cleanup"} => WrittenRows(t) \cap SessionRows = {}
  BY <1>2, Kinds DEF WrittenRows
<1>4. SameSite
  BY <1>1, <1>3, OfKind, KeysInRow DEF SameSite
<1>5. /\ Op(t) \notin {"authenticate", "signout"} => SameSubjects
      /\ Op(t) # "authenticate" => SameIdentities
  BY <1>1, <1>3, OfKind, KeysInRow DEF SameSubjects, SameIdentities
<1>6. /\ Op(t) \notin {"authenticate", "refresh", "invalidate", "cleanup"} => SameTokens
      /\ Op(t) \notin {"join", "cleanup"} => SameSessions
  BY <1>1, <1>3, OfKind, KeysInRow DEF SameTokens, SameSessions
<1> QED
  BY <1>4, <1>5, <1>6

\* A COMMIT that writes nothing changes nothing.
LEMMA CommitNothing ==
    ASSUME SharedAuthAssumption, Exact, NEW t \in Tx, Commit(t), DOMAIN buf[t] = {}
    PROVE  UNCHANGED Promise!tables
<1>1. now' = now /\ \A r \in Row : db'[r] = db[r]
  BY CommitDoes
<1>2. SameSite /\ SameSubjects /\ SameIdentities /\ SameTokens /\ SameSessions
  BY <1>1, KeysInRow DEF SameSite, SameSubjects, SameIdentities, SameTokens, SameSessions
<1> QED
  BY <1>1, <1>2, SameAll

LEMMA InvalidateEffect ==
    ASSUME SharedAuthAssumption, Exact, NEW t \in Tx, Commit(t), Op(t) = "invalidate",
           DOMAIN buf[t] # {}
    PROVE  Promise!Effect(call[t])
<1> DEFINE h == call[t].token
           tokens == [g \in Hash |-> db[Token(g)]]
<1>1. /\ h = loc[t].token /\ h \in Hash /\ db[Gate] = "active" /\ now' = now
  BY CommitDoes DEF Carries, WellFormed, Op
<1>2. /\ DOMAIN buf[t] = {Token(h)} /\ buf[t][Token(h)] = NoRow /\ db[Token(h)] # NoRow
      /\ MatchesClient(db[Token(h)].client, call[t].client)
  BY <1>1, CommitDoes DEF Does, InvalidateWrites
<1>3. \A g \in Hash : db'[Token(g)] = IF g = h THEN NoRow ELSE db[Token(g)]
  BY <1>1, <1>2, CommitDoes, KeysInRow, KeysOne
<1>4. tokens' = Promise!Without(tokens, {h})
  BY <1>3 DEF Promise!Without
<1>5. tokens[h] # NoRow /\ call[t].client \in {None, tokens[h].client}
  BY <1>1, <1>2 DEF MatchesClient
<1>6. SameSite /\ SameSubjects /\ SameIdentities /\ SameSessions
  BY CommitSame
<1>7. Promise!Invalidate(call[t])
  BY <1>1, <1>4, <1>5, <1>6, SameTables DEF Promise!Invalidate
<1> QED
  BY <1>1, <1>7 DEF Promise!Effect, Op

LEMMA SignoutEffect ==
    ASSUME SharedAuthAssumption, Exact, NEW t \in Tx, Commit(t), Op(t) = "signout",
           DOMAIN buf[t] # {}
    PROVE  Promise!Effect(call[t])
<1> DEFINE u == loc[t].uid
           users == [v \in Uid |-> db[User(v)]]
           generations == [v \in Uid |-> db[Subject(v)]]
<1>1. u \in Uid /\ db[Gate] = "active" /\ now' = now
  BY CommitDoes DEF Knows, Arguments
<1>2. Exists(User(u)) /\ Allowed(db[User(u)]) /\ db[User(u)].password = call[t].password
  BY ExactParts, LoginNow, CommitDoes DEF LoginHolds
<1>3. Promise!Allowed(u) /\ users[u].password = call[t].password
  BY <1>1, <1>2 DEF Promise!Allowed, Allowed, Exists
<1>4. /\ DOMAIN buf[t] = {Subject(u)}
      /\ buf[t][Subject(u)] = IF db[Subject(u)] = NoRow THEN 1 ELSE db[Subject(u)] + 1
  BY CommitDoes DEF Does, SignoutWrites
<1>5. \A v \in Uid : db'[Subject(v)] = IF v # u THEN db[Subject(v)] ELSE
                                       IF db[Subject(u)] = NoRow THEN 1 ELSE db[Subject(u)] + 1
  BY <1>1, <1>4, CommitDoes, KeysInRow, KeysOne
<1>6. generations' = Promise!NextGeneration(u)
  BY <1>1, <1>5 DEF Promise!NextGeneration
<1>7. SameSite /\ SameIdentities /\ SameTokens /\ SameSessions
  BY CommitSame
<1>8. Promise!Signout(call[t])
  BY <1>1, <1>3, <1>6, <1>7, SameTables DEF Promise!Signout
<1> QED
  BY <1>1, <1>8 DEF Promise!Effect, Op

\* The tokens of an account, as AuthPromise has them.
LEMMA PromisedTokens ==
    ASSUME NEW u \in Uid
    PROVE  /\ TokensKept => Promise!LiveOf(u) = LiveOf(u)
           /\ TokensKept' => Promise!LiveOf(u)' = LiveOf(u)'
           /\ TokensKept => \A h \in Hash : h \in Promise!CurrentOf(u) <=>
                                Current(h) /\ db[Token(h)].owner = u
<1>1. TokensKept => \A h \in Hash : h \in Promise!CurrentOf(u) <=>
                                Current(h) /\ db[Token(h)].owner = u
  BY DEF Promise!CurrentOf, Current, TokensKept, Stored, Exists
<1>2. TokensKept => Promise!LiveOf(u) = LiveOf(u)
  BY <1>1 DEF Promise!LiveOf, LiveOf, Live, Promise!CurrentOf
<1>3. TokensKept' => \A h \in Hash : (h \in Promise!CurrentOf(u))' <=>
                                (Current(h) /\ db[Token(h)].owner = u)'
  BY DEF Promise!CurrentOf, Current, TokensKept, Stored, Exists
<1>4. TokensKept' => Promise!LiveOf(u)' = LiveOf(u)'
  BY <1>3 DEF Promise!LiveOf, LiveOf, Live, Promise!CurrentOf
<1> QED
  BY <1>1, <1>2, <1>4

\* An authorized call may do what it does.
LEMMA PromisedAuthorized ==
    ASSUME SharedAuthAssumption, Exact, NEW t \in Tx, Commit(t), Op(t) \in {"refresh", "join"}
    PROVE  LET h == call[t].token
           IN  /\ Promise!Authorized(h, call[t].client) /\ h \in Hash /\ h = loc[t].token
               /\ db[Token(h)] \in TokenRow /\ db[Token(h)].owner = loc[t].uid
               /\ Token(h) \in DOMAIN seen[t] /\ seen[t][Token(h)] = db[Token(h)]
               /\ loc[t].identity # None =>
                     /\ loc[t].identity \in Pid /\ Owns(loc[t].uid, loc[t].identity)
                     /\ Active(loc[t].identity)
<1> DEFINE h == call[t].token
           token == db[Token(h)]
           u == loc[t].uid
           p == loc[t].identity
<1>1. /\ h = loc[t].token /\ h \in Hash /\ pc[t] = "commit" /\ Knows(t) /\ Authorizes(t)
      /\ Inductive /\ TokensKept /\ StoreTypeOK
  BY ExactParts, CommitDoes DEF Carries, WellFormed, Op, Authorizes, Strong
<1>2. /\ Current(h) /\ token.owner = u
      /\ MatchesClient(token.client, call[t].client)
      /\ Exists(User(u)) /\ Allowed(db[User(u)])
      /\ token.identity \in {None, p}
      /\ p # None => Owns(u, p) /\ Active(p)
  BY <1>1, AuthorizedNow DEF AuthorizedAtCommit
<1>3. token \in TokenRow /\ token # NoRow
  BY <1>1, <1>2, KeysInRow, KeyValues, Stores DEF Current, Exists
<1>4. u \in Uid /\ token.identity \in Pid \cup {None}
  BY <1>2, <1>3 DEF TokenRow
<1>5. Authorized(t)
  BY <1>1, IsAuthorized DEF Unauthorized, Outside
<1>6. Token(h) \in DOMAIN seen[t] /\ seen[t][Token(h)] = token /\ (p # None => p \in Pid)
  BY <1>1, <1>5, CommitDoes DEF Authorized, TokenRead, PlayerRead
<1>7. /\ Promise!Allowed(u) /\ h \in Promise!CurrentOf(u)
  BY <1>1, <1>2, <1>4, PromisedTokens DEF Promise!Allowed, Allowed, Exists
<1>8. token.identity # None =>
          Promise!Owns(u, token.identity) /\ [q \in Pid |-> db[Identity(q)]][token.identity] = "active"
  BY <1>2, <1>4 DEF Promise!Owns, Owns, Exists, Active
<1>9. [g \in Hash |-> db[Token(g)]][h] = token
  BY <1>1
<1>10. Promise!Authorized(h, call[t].client)
  BY <1>2, <1>3, <1>7, <1>8, <1>9 DEF Promise!Authorized, MatchesClient
<1> QED
  BY <1>1, <1>2, <1>3, <1>6, <1>10

\* A row of TokenRow, by its fields.
LEMMA TokenFields ==
    ASSUME NEW v \in TokenRow
    PROVE  v = [owner |-> v.owner, generation |-> v.generation, client |-> v.client,
                identity |-> v.identity, created |-> v.created, expires |-> v.expires]
BY DEF TokenRow

\* A token that a COMMIT stores.
LEMMA StoresToken ==
    ASSUME SharedAuthAssumption, Exact, NEW t \in Tx, Commit(t), NEW h \in Hash,
           Token(h) \in DOMAIN buf[t], buf[t][Token(h)] # NoRow
    PROVE  LET v == buf[t][Token(h)]
           IN  /\ db[Token(h)] = NoRow /\ db'[Token(h)] = v /\ v \in TokenRow
               /\ v.created \in 0 .. now /\ v.expires = v.created + TokenTTL
<1> DEFINE v == buf[t][Token(h)]
<1>1. /\ HasWritten(t) /\ Dated(t) /\ now \in Nat /\ StoreTypeOK /\ seen[t][Token(h)] = db[Token(h)]
      /\ db'[Token(h)] = v
  BY ExactParts, CommitDoes, KeysInRow DEF KnowsMore
<1>2. db[Token(h)] = NoRow /\ v.expires = v.created + TokenTTL /\ v.created <= now
  BY <1>1 DEF HasWritten, Issued, Dated
<1>3. v \in TokenRow
  BY <1>1, Stores, KeyValues
<1>4. v.created \in Nat
  BY <1>3 DEF TokenRow
<1> QED
  BY <1>1, <1>2, <1>3, <1>4

LEMMA RefreshEffect ==
    ASSUME SharedAuthAssumption, Exact, NEW t \in Tx, Commit(t), Op(t) = "refresh"
    PROVE  Promise!Effect(call[t])
<1> DEFINE old == call[t].token
           tokens == [g \in Hash |-> db[Token(g)]]
           was == db[Token(old)]
           p == loc[t].identity
<1>1. /\ Promise!Authorized(old, call[t].client) /\ old \in Hash /\ old = loc[t].token
      /\ was \in TokenRow /\ was.owner = loc[t].uid /\ seen[t][Token(old)] = was
      /\ p # None => p \in Pid /\ Owns(loc[t].uid, p) /\ Active(p)
  BY PromisedAuthorized
<1>2. /\ p = (IF was.identity = None THEN call[t].selected ELSE was.identity)
      /\ call[t].selected \in {None, p} /\ pc[t] = "commit" /\ RefreshWrites(t) /\ now' = now
  BY <1>1, CommitDoes DEF Does, RefreshBinds, Bound, KnowsMore
<1>3. PICK new \in Hash \ {old} :
          /\ DOMAIN buf[t] = {Token(old), Token(new)} /\ buf[t][Token(old)] = NoRow
          /\ buf[t][Token(new)] # NoRow
          /\ buf[t][Token(new)].owner = loc[t].uid
          /\ buf[t][Token(new)].client = was.client
          /\ buf[t][Token(new)].generation = was.generation
          /\ buf[t][Token(new)].identity = Bound(t)
  BY <1>1, <1>2 DEF RefreshWrites
<1> DEFINE v == buf[t][Token(new)]
           is == [owner |-> was.owner, generation |-> was.generation, client |-> was.client,
                  identity |-> p, created |-> v.created, expires |-> v.created + TokenTTL]
<1>4. /\ db[Token(new)] = NoRow /\ v \in TokenRow
      /\ v.created \in 0 .. now /\ v.expires = v.created + TokenTTL
  BY <1>3, StoresToken
<1>5. v = is
  <2>1. Bound(t) = p
    BY <1>1, <1>2 DEF Bound
  <2> QED
    BY <1>1, <1>3, <1>4, <2>1, TokenFields
<1>6. \A g \in Hash : db'[Token(g)] = IF g = new THEN v ELSE IF g = old THEN NoRow ELSE db[Token(g)]
  BY <1>1, <1>3, CommitDoes, KeysInRow, KeysOne
<1> HIDE DEF v
<1>7. tokens' = [Promise!Without(tokens, {old}) EXCEPT ![new] = is]
  BY <1>3, <1>5, <1>6 DEF Promise!Without
<1>8. tokens[new] = NoRow /\ tokens[old] = was
  BY <1>1, <1>4
<1>9. p # None => Promise!Owns(was.owner, p) /\ [q \in Pid |-> db[Identity(q)]][p] = "active"
  BY <1>1 DEF Promise!Owns, Owns, Exists, Active
<1>10. SameSite /\ SameSubjects /\ SameIdentities /\ SameSessions
  BY CommitSame
<1>11. UNCHANGED <<Promise!site, [u \in Uid |-> db[Subject(u)]], [q \in Pid |-> db[Identity(q)]],
                   [s \in Server |-> db[Session(s)]], now>>
  BY <1>2, <1>10, SameTables
<1>12. Promise!Refresh(call[t])
  <2> DEFINE q == IF tokens[old].identity = None THEN call[t].selected ELSE tokens[old].identity
  <2>1. p = q /\ was = tokens[old]
    BY <1>2, <1>8
  <2>2. \E h \in Hash, at \in 0 .. now :
            /\ tokens[h] = NoRow
            /\ tokens' = [Promise!Without(tokens, {old}) EXCEPT ![h] =
                            [owner |-> was.owner, generation |-> was.generation,
                             client |-> was.client, identity |-> p,
                             created |-> at, expires |-> at + TokenTTL]]
    <3> HIDE DEF tokens, was, p
    <3> QED
      BY <1>3, <1>4, <1>7, <1>8
  <2> HIDE DEF was, p, q
  <2>3. Promise!Authorized(old, call[t].client) /\ call[t].selected \in {None, q}
    BY <1>1, <1>2, <2>1
  <2>4. q # None => /\ Promise!Owns(tokens[old].owner, q)
                    /\ [r \in Pid |-> db[Identity(r)]][q] = "active"
    BY <1>9, <2>1
  <2>5. \E h \in Hash, at \in 0 .. now :
            /\ tokens[h] = NoRow
            /\ tokens' = [Promise!Without(tokens, {old}) EXCEPT ![h] =
                            [owner |-> tokens[old].owner, generation |-> tokens[old].generation,
                             client |-> tokens[old].client, identity |-> q,
                             created |-> at, expires |-> at + TokenTTL]]
    BY <2>1, <2>2
  <2> QED
    BY <1>11, <2>3, <2>4, <2>5, Zenon DEF Promise!Refresh, q
<1>13. db[Gate] = "active"
  BY <1>3, CommitDoes
<1> QED
  BY <1>12, <1>13 DEF Promise!Effect, Op

LEMMA JoinEffect ==
    ASSUME SharedAuthAssumption, Exact, NEW t \in Tx, Commit(t), Op(t) = "join", DOMAIN buf[t] # {}
    PROVE  Promise!Effect(call[t])
<1> DEFINE h == call[t].token
           s == call[t].server
           sessions == [r \in Server |-> db[Session(r)]]
<1>1. /\ Promise!Authorized(h, call[t].client) /\ h \in Hash /\ h = loc[t].token
      /\ seen[t][Token(h)] = db[Token(h)]
  BY PromisedAuthorized
<1>2. /\ s \in Server /\ now' = now /\ db[Gate] = "active" /\ HasWritten(t) /\ pc[t] = "commit"
      /\ JoinWrites(t) /\ DOMAIN buf[t] \subseteq {Session(s)}
  BY CommitDoes DEF WellFormed, Op, KnowsMore, Does, JoinWrites
<1>3. DOMAIN buf[t] = {Session(s)} /\ Session(s) \in DOMAIN seen[t]
      /\ seen[t][Session(s)] = db[Session(s)]
  BY <1>2, CommitDoes
<1>4. [g \in Hash |-> db[Token(g)]][h].identity = call[t].selected
  BY <1>1, <1>2 DEF JoinWrites
<1>5. PICK at \in 0 .. now :
          buf[t][Session(s)] = [token |-> h, ip |-> call[t].ip, expires |-> at + SessionTTL]
  BY <1>1, <1>2, <1>3 DEF JoinWrites
<1>6. sessions[s] = NoRow \/ sessions[s].expires <= now
  BY <1>2, <1>3 DEF HasWritten
<1>7. \A r \in Server : db'[Session(r)] = IF r = s THEN buf[t][Session(s)] ELSE db[Session(r)]
  BY <1>2, <1>3, CommitDoes, KeysInRow, KeysOne
<1>8. sessions' = [sessions EXCEPT ![s] =
                     [token |-> h, ip |-> call[t].ip, expires |-> at + SessionTTL]]
  BY <1>2, <1>5, <1>7
<1>9. SameSite /\ SameSubjects /\ SameIdentities /\ SameTokens
  BY CommitSame
<1>10. Promise!Join(call[t])
  BY <1>1, <1>2, <1>4, <1>6, <1>8, <1>9, SameTables DEF Promise!Join
<1> QED
  BY <1>2, <1>10 DEF Promise!Effect, Op

\* Cardinality, as AuthPromise has it.
LEMMA PromisedCardinality == \A S : Promise!Cardinality(S) = Cardinality(S)
BY Zenon DEF Promise!Cardinality, Cardinality

LEMMA CleanupEffect ==
    ASSUME SharedAuthAssumption, Exact, NEW t \in Tx, Commit(t), Op(t) = "cleanup",
           DOMAIN buf[t] # {}
    PROVE  Promise!Effect(call[t])
<1> DEFINE tokens == [h \in Hash |-> db[Token(h)]]
           sessions == [s \in Server |-> db[Session(s)]]
<1>1. now' = now /\ db[Gate] = "active" /\ CleanupWrites(t)
  BY CommitDoes DEF Does
<1>2. PICK X \in SUBSET Hash, Y \in SUBSET Server :
          /\ DOMAIN buf[t] = {Token(h) : h \in X} \cup {Session(s) : s \in Y}
          /\ Cardinality(X) <= CleanupBatch /\ Cardinality(Y) <= CleanupBatch
          /\ \A r \in DOMAIN buf[t] :
                buf[t][r] = NoRow /\ seen[t][r] # NoRow /\ seen[t][r].expires <= now
  BY <1>1, Zenon DEF CleanupWrites
<1>3. /\ \A h \in Hash : Token(h) \in DOMAIN buf[t] <=> h \in X
      /\ \A s \in Server : Session(s) \in DOMAIN buf[t] <=> s \in Y
  BY <1>2 DEF Token, Session
<1>4. /\ \A h \in Hash : db'[Token(h)] = IF h \in X THEN NoRow ELSE db[Token(h)]
      /\ \A s \in Server : db'[Session(s)] = IF s \in Y THEN NoRow ELSE db[Session(s)]
  BY <1>2, <1>3, CommitDoes, KeysInRow
<1>5. \A r \in DOMAIN buf[t] : db[r] # NoRow /\ db[r].expires <= now
  BY <1>2, CommitDoes
<1>6. /\ X \in SUBSET {h \in Hash : tokens[h] # NoRow /\ tokens[h].expires <= now}
      /\ Y \in SUBSET {s \in Server : sessions[s] # NoRow /\ sessions[s].expires <= now}
  BY <1>3, <1>5
<1>7. tokens' = Promise!Without(tokens, X) /\ sessions' = Promise!Without(sessions, Y)
  BY <1>4 DEF Promise!Without
<1>8. SameSite /\ SameSubjects /\ SameIdentities
  BY CommitSame
<1>9. Promise!Cleanup
  <2>1. UNCHANGED <<Promise!site, [u \in Uid |-> db[Subject(u)]], [q \in Pid |-> db[Identity(q)]], now>>
    BY <1>1, <1>8, SameTables
  <2>2. \E A \in SUBSET {h \in Hash : tokens[h] # NoRow /\ tokens[h].expires <= now},
           B \in SUBSET {s \in Server : sessions[s] # NoRow /\ sessions[s].expires <= now} :
            /\ Cardinality(A) <= CleanupBatch /\ Cardinality(B) <= CleanupBatch
            /\ tokens' = Promise!Without(tokens, A) /\ sessions' = Promise!Without(sessions, B)
            /\ UNCHANGED <<Promise!site, [u \in Uid |-> db[Subject(u)]],
                           [q \in Pid |-> db[Identity(q)]], now>>
    <3> HIDE DEF tokens, sessions
    <3> QED
      BY <1>2, <1>6, <1>7, <2>1, Zenon
  <2> QED
    BY <2>2, PromisedCardinality, Zenon DEF Promise!Cleanup
<1> QED
  BY <1>1, <1>9 DEF Promise!Effect, Op

\* The tokens that a login holds are its account's, and none is revoked.
LEMMA MineCurrent ==
    ASSUME SharedAuthAssumption, Exact, NEW t \in Tx, Commit(t), Op(t) = "authenticate"
    PROVE  /\ \A h \in Mine(t) : /\ h \in Promise!CurrentOf(loc[t].uid)
                                 /\ seen[t][Token(h)] = db[Token(h)]
                                 /\ db[Token(h)].created \in Nat
           /\ LiveOf(loc[t].uid) \subseteq Mine(t) /\ Cardinality(Mine(t)) <= TokenLimit
           /\ IsFiniteSet(Mine(t))
<1> DEFINE u == loc[t].uid
           s == Subject(u)
<1>1. /\ u \in Uid /\ pc[t] = "commit" /\ TokensKept /\ StoreTypeOK /\ LoginFits(t)
      /\ IsFiniteSet(Mine(t))
  BY ExactParts, CommitDoes, MineStored DEF Knows, Arguments, Fits, Strong
<1>2. /\ LiveOf(u) \subseteq Mine(t) /\ Cardinality(Mine(t)) <= TokenLimit
      /\ s \in excl[t] /\ (s \in DOMAIN buf[t] => seen[t][s] = NoRow)
      /\ \A h \in Mine(t) : seen[t][Token(h)].owner = u /\ seen[t][Token(h)].generation = Generation(t)
  BY <1>1 DEF LoginFits
<1>3. s \in DOMAIN buf[t] => db[s] = NoRow
  BY <1>2, CommitDoes
<1>4. ASSUME NEW h \in Mine(t)
      PROVE  /\ h \in Promise!CurrentOf(u) /\ seen[t][Token(h)] = db[Token(h)]
             /\ db[Token(h)].created \in Nat
  <2>1. h \in Hash /\ db[Token(h)] # NoRow /\ seen[t][Token(h)] = db[Token(h)]
    BY CommitDoes DEF Mine
  <2>2. db[Token(h)].owner = u /\ db[Token(h)].generation = Generation(t)
    BY <1>2, <2>1
  <2>3. Exists(s)
    BY <1>1, <2>1, <2>2 DEF TokensKept, Stored, Exists
  <2>4. Generation(t) = db[s]
    BY <1>3, <2>3 DEF Exists, Generation, View
  <2>5. h \in Promise!CurrentOf(u)
    BY <1>1, <2>1, <2>2, <2>3, <2>4, PromisedTokens DEF Current, Exists
  <2>6. db[Token(h)] \in TokenRow
    BY <1>1, <2>1, Stores, KeyValues, KeysInRow
  <2> QED
    BY <2>1, <2>5, <2>6 DEF TokenRow
<1> QED
  BY <1>1, <1>2, <1>4

\* The account and the players that a login registers.
LEMMA LoginRegisters ==
    ASSUME SharedAuthAssumption, Exact, NEW t \in Tx, Commit(t), Op(t) = "authenticate"
    PROVE  LET u == loc[t].uid
               new == {q \in Pid : Identity(q) \in DOMAIN buf[t]}
               generations == [v \in Uid |-> db[Subject(v)]]
               identities == [q \in Pid |-> db[Identity(q)]]
           IN  /\ u \in Uid /\ Promise!Allowed(u)
               /\ [v \in Uid |-> db[User(v)]][u].password = call[t].password
               /\ generations' = IF generations[u] = NoRow THEN Promise!NextGeneration(u)
                                                           ELSE generations
               /\ generations'[u] = Generation(t)
               /\ \A q \in new : Promise!Owns(u, q) /\ identities[q] = NoRow /\ q > Watermark
               /\ identities' = [q \in Pid |-> IF q \in new THEN "active" ELSE identities[q]]
<1> DEFINE u == loc[t].uid
           new == {q \in Pid : Identity(q) \in DOMAIN buf[t]}
           generations == [v \in Uid |-> db[Subject(v)]]
           identities == [q \in Pid |-> db[Identity(q)]]
<1>1. /\ u \in Uid /\ pc[t] = "commit" /\ LoginWrites(t) /\ WritesOf(t)
      /\ Exists(User(u)) /\ Allowed(db[User(u)]) /\ db[User(u)].password = call[t].password
  BY ExactParts, LoginNow, CommitDoes DEF LoginHolds, Does, Knows, Arguments
<1>2. Promise!Allowed(u) /\ [v \in Uid |-> db[User(v)]][u].password = call[t].password
  BY <1>1 DEF Promise!Allowed, Allowed, Exists
<1>3. /\ DOMAIN buf[t] \subseteq {Subject(u)} \cup IdentityRows \cup TokenRows
      /\ Subject(u) \in DOMAIN buf[t] => db[Subject(u)] = NoRow /\ buf[t][Subject(u)] = 1
      /\ Subject(u) \in DOMAIN buf[t] \/ db[Subject(u)] # NoRow
  BY <1>1, CommitDoes DEF LoginWrites, SubjectEnsured
<1>4. \A v \in Uid : db'[Subject(v)] = IF v = u /\ db[Subject(u)] = NoRow THEN 1 ELSE db[Subject(v)]
  <2>1. ASSUME NEW v \in Uid, v # u
        PROVE  Subject(v) \notin DOMAIN buf[t]
    BY <1>3, <2>1, KeysOne, Kinds, OfKind
  <2> QED
    BY <1>1, <1>3, <2>1, CommitDoes, KeysInRow
<1>5. generations' = IF generations[u] = NoRow THEN Promise!NextGeneration(u) ELSE generations
  <2>1. CASE db[Subject(u)] = NoRow
    <3>1. generations[u] = NoRow /\ generations' = [generations EXCEPT ![u] = 1]
      BY <1>1, <1>4, <2>1
    <3> QED
      BY <3>1 DEF Promise!NextGeneration
  <2>2. CASE db[Subject(u)] # NoRow
    BY <1>1, <1>4, <2>2
  <2> QED
    BY <2>1, <2>2
<1>6. generations'[u] = Generation(t)
  BY <1>1, CommitDoes, KeysInRow DEF Generation, View
<1>7. \A q \in new : Promise!Owns(u, q) /\ identities[q] = NoRow /\ q > Watermark
  BY <1>1, CommitDoes DEF LoginWrites, Promise!Owns
<1>8. identities' = [q \in Pid |-> IF q \in new THEN "active" ELSE identities[q]]
  BY <1>1, CommitDoes, KeysInRow DEF WritesOf
<1> QED
  BY <1>1, <1>2, <1>5, <1>6, <1>7, <1>8

\* The player that a login binds.
LEMMA LoginBinds ==
    ASSUME SharedAuthAssumption, Exact, NEW t \in Tx, Commit(t), Op(t) = "authenticate"
    PROVE  LET u == loc[t].uid
               p == loc[t].identity
           IN  /\ p \in Pid \cup {None}
               /\ p # None => Promise!Owns(u, p) /\ [q \in Pid |-> db[Identity(q)]]'[p] = "active"
               /\ call[t].login \in Name => p # None /\ [q \in Pid |-> db[Player(q)]][p].name = call[t].login
<1> DEFINE u == loc[t].uid
           p == loc[t].identity
<1>1. /\ pc[t] = "commit" /\ LoginRead(t)
      /\ p # None => Owns(u, p) /\ View(t, Identity(p)) = "active"
      /\ call[t].login \in Name => p # None /\ db[Player(p)].name = call[t].login
  BY ExactParts, LoginNow, CommitDoes DEF LoginHolds, KnowsMore
<1>2. p # None => p \in Pid
  BY <1>1 DEF LoginRead, ProfileRead
<1>3. p # None => db'[Identity(p)] = "active"
  BY <1>1, <1>2, CommitDoes, KeysInRow DEF View
<1> QED
  BY <1>1, <1>2, <1>3 DEF Promise!Owns, Owns, Exists

LEMMA LoginGeneration ==
    ASSUME SharedAuthAssumption, Exact, NEW t \in Tx, Commit(t), Op(t) = "authenticate"
    PROVE  Generation(t) \in Nat
<1> DEFINE s == Subject(loc[t].uid)
<1>1. s \in Row /\ LoginWrites(t) /\ StoreTypeOK /\ pc[t] = "commit"
  BY ExactParts, CommitDoes, KeysInRow DEF Does, Knows, Arguments
<1>2. s \in DOMAIN buf[t] => buf[t][s] = 1
  BY <1>1 DEF LoginWrites
<1>3. s \in DOMAIN buf[t] \/ db[s] # NoRow
  BY <1>1, CommitDoes DEF LoginWrites, SubjectEnsured
<1>4. db[s] # NoRow => db[s] \in Nat
  BY <1>1, Stores, KeyValues
<1> QED
  BY <1>2, <1>3, <1>4 DEF Generation, View

LEMMA LoginEffect ==
    ASSUME SharedAuthAssumption, Exact, [Next]_vars, NEW t \in Tx, Commit(t),
           Op(t) = "authenticate"
    PROVE  Promise!Effect(call[t])
<1> PICK u \in Uid : u = loc[t].uid
  BY CommitDoes DEF Knows, Arguments
<1> DEFINE p == loc[t].identity
           created == {q \in Pid : Identity(q) \in DOMAIN buf[t]}
           tokens == [h \in Hash |-> db[Token(h)]]
           generations == [v \in Uid |-> db[Subject(v)]]
           identities == [q \in Pid |-> db[Identity(q)]]
<1>1. pc[t] = "commit" /\ LoginWrites(t) /\ now' = now /\ now \in Nat /\ StoreTypeOK
  BY ExactParts, CommitDoes DEF Does
<1>2. PICK new \in Hash \ Mine(t), X \in Evicted(t), at \in 0 .. now :
          /\ \A h \in Hash : Token(h) \in DOMAIN buf[t] <=> h \in X \cup {new}
          /\ \A h \in X : buf[t][Token(h)] = NoRow
          /\ buf[t][Token(new)] =
                [owner |-> u, generation |-> Generation(t), client |-> call[t].client,
                 identity |-> p, created |-> at, expires |-> at + TokenTTL]
  BY <1>1, Zenon DEF LoginWrites
<1>3. /\ \A h \in Mine(t) : /\ h \in Promise!CurrentOf(u) /\ seen[t][Token(h)] = db[Token(h)]
                            /\ db[Token(h)].created \in Nat
      /\ LiveOf(u) \subseteq Mine(t) /\ Cardinality(Mine(t)) <= TokenLimit /\ IsFiniteSet(Mine(t))
  BY MineCurrent
<1>4. /\ X \subseteq Mine(t) /\ IsFiniteSet(X) /\ Cardinality(X) \in {0, 1}
      /\ X # {} => Cardinality(Mine(t)) = TokenLimit
  BY <1>3, EvictionMakesRoom
<1>5. X \in SUBSET Promise!CurrentOf(u)
  BY <1>3, <1>4
<1>6. X # {} => Promise!Cardinality(X) = 1 /\ Promise!Cardinality(Promise!CurrentOf(u)) >= TokenLimit
  <2>1. Promise!CurrentOf(u) \subseteq Stored
    BY DEF Promise!CurrentOf, Stored, Exists
  <2>2. IsFiniteSet(Promise!CurrentOf(u)) /\ Mine(t) \subseteq Promise!CurrentOf(u)
    BY <1>3, <2>1, ExactParts, LimitedParts, FS_Subset
  <2>3. /\ Cardinality(Mine(t)) <= Cardinality(Promise!CurrentOf(u))
        /\ Cardinality(Mine(t)) \in Nat /\ Cardinality(Promise!CurrentOf(u)) \in Nat
    BY <2>2, FS_Subset, FS_CardinalityType
  <2>4. X # {} => Cardinality(X) # 0
    BY <1>4, FS_EmptySet
  <2>5. X # {} => Cardinality(X) = 1 /\ Cardinality(Promise!CurrentOf(u)) >= TokenLimit
    BY <1>4, <2>3, <2>4
  <2> QED
    BY <2>5, PromisedCardinality
<1>7. \A k \in X, j \in Promise!LiveOf(u) \ X : tokens[k].created <= tokens[j].created
  <2>1. Promise!LiveOf(u) = LiveOf(u)
    BY <1>1, ExactParts, PromisedTokens DEF Strong
  <2>2. SUFFICES ASSUME NEW k \in X, NEW j \in Mine(t) \ X
                 PROVE  tokens[k].created <= tokens[j].created
    BY <1>3, <2>1
  <2> DEFINE age == [h \in Mine(t) |-> seen[t][Token(h)].created]
  <2>3. \A x \in X, y \in Mine(t) \ X : age[x] <= age[y]
    BY DEF Evicted, Oldest
  <2>4. age[k] <= age[j]
    BY <2>3
  <2>5. k \in Mine(t) /\ j \in Mine(t) /\ k \in Hash /\ j \in Hash
    BY <1>4 DEF Mine
  <2> QED
    BY <1>3, <2>4, <2>5
<1>8. Promise!Cardinality(Promise!LiveOf(u)') <= TokenLimit
  <2>1. Limited'
    BY ExactParts, LimitedStep
  <2>2. TokensKept' /\ TokenLimitHolds'
    BY <2>1 DEF Limited, Strong
  <2>3. Promise!LiveOf(u)' = LiveOf(u)' /\ Cardinality(LiveOf(u)') <= TokenLimit
    BY <1>1, <2>2, PromisedTokens DEF TokenLimitHolds
  <2> QED
    BY <2>3, PromisedCardinality
<1> DEFINE is == [owner |-> u, generation |-> generations'[u], client |-> call[t].client,
                  identity |-> p, created |-> at, expires |-> at + TokenTTL]
<1>9. /\ tokens[new] = NoRow
      /\ tokens' = [Promise!Without(tokens, X) EXCEPT ![new] = is]
  <2>1. Generation(t) = generations'[u]
    BY LoginRegisters
  <2>2. buf[t][Token(new)] = is
    BY <1>2, <2>1
  <2>3. is # NoRow
    <3>1. Generation(t) \in Nat
      BY LoginGeneration
    <3>2. p \in Pid \cup {None}
      BY LoginBinds
    <3>3. call[t].client \in Client
      BY CommitDoes DEF WellFormed, Op
    <3>4. at \in Nat /\ at + TokenTTL \in Nat
      BY <1>1, SharedAuthAssumption DEF SharedAuthAssumption
    <3>5. is \in TokenRow
      BY <2>1, <3>1, <3>2, <3>3, <3>4 DEF TokenRow
    <3> HIDE DEF is
    <3> QED
      BY <3>5, SharedAuthAssumption DEF SharedAuthAssumption
  <2> HIDE DEF is
  <2>4. db[Token(new)] = NoRow
    BY <1>2, <2>2, <2>3, StoresToken
  <2>5. \A h \in Hash : db'[Token(h)] = IF h = new THEN is ELSE IF h \in X THEN NoRow ELSE db[Token(h)]
    BY <1>2, <1>4, <2>2, CommitDoes, KeysInRow
  <2> QED
    BY <2>4, <2>5 DEF Promise!Without
<1>10. /\ Promise!Allowed(u) /\ [v \in Uid |-> db[User(v)]][u].password = call[t].password
       /\ generations' = IF generations[u] = NoRow THEN Promise!NextGeneration(u) ELSE generations
       /\ \A q \in created : Promise!Owns(u, q) /\ identities[q] = NoRow /\ q > Watermark
       /\ identities' = [q \in Pid |-> IF q \in created THEN "active" ELSE identities[q]]
  BY LoginRegisters
<1>11. /\ p \in Pid \cup {None} /\ (p # None => Promise!Owns(u, p) /\ identities'[p] = "active")
       /\ call[t].login \in Name => p # None /\ [q \in Pid |-> db[Player(q)]][p].name = call[t].login
  BY LoginBinds
<1>12. UNCHANGED <<Promise!site, [s \in Server |-> db[Session(s)]], now>>
  BY <1>1, CommitSame, SameTables
<1>13. created \in SUBSET Pid /\ new \in Hash
  OBVIOUS
<1> DEFINE c == call[t]
           users == [v \in Uid |-> db[User(v)]]
           players == [q \in Pid |-> db[Player(q)]]
           sessions == [s \in Server |-> db[Session(s)]]
           Logs(v, h, old, q, made, a) ==
               /\ Promise!Allowed(v) /\ users[v].password = c.password
               /\ generations' = IF generations[v] = NoRow THEN Promise!NextGeneration(v)
                                                           ELSE generations
               /\ \A r \in made : Promise!Owns(v, r) /\ identities[r] = NoRow /\ r > Watermark
               /\ identities' = [r \in Pid |-> IF r \in made THEN "active" ELSE identities[r]]
               /\ q # None => Promise!Owns(v, q) /\ identities'[q] = "active"
               /\ c.login \in Name => q # None /\ players[q].name = c.login
               /\ tokens[h] = NoRow
               /\ tokens' = [Promise!Without(tokens, old) EXCEPT ![h] =
                                [owner |-> v, generation |-> generations'[v], client |-> c.client,
                                 identity |-> q, created |-> a, expires |-> a + TokenTTL]]
               /\ old # {} => /\ Promise!Cardinality(old) = 1
                              /\ Promise!Cardinality(Promise!CurrentOf(v)) >= TokenLimit
               /\ \A k \in old, j \in Promise!LiveOf(v) \ old :
                                 tokens[k].created <= tokens[j].created
               /\ Promise!Cardinality(Promise!LiveOf(v)') <= TokenLimit
               /\ UNCHANGED <<Promise!site, sessions, now>>
<1>14. Promise!Login(c)
  <2>1. Logs(u, new, X, p, created, at)
    BY <1>6, <1>7, <1>8, <1>9, <1>10, <1>11, <1>12, Zenon
  <2>2. \E v \in Uid, h \in Hash : \E old \in SUBSET Promise!CurrentOf(v) :
          \E q \in Pid \cup {None}, made \in SUBSET Pid, a \in 0 .. now :
             Logs(v, h, old, q, made, a)
    <3> HIDE DEF Logs, p, created
    <3> QED
      BY <1>5, <1>11, <1>13, <2>1, Zenon
  <2> QED
    BY <2>2, Zenon DEF Promise!Login
<1>15. db[Gate] = "active"
  BY <1>2, CommitDoes
<1> QED
  BY <1>14, <1>15 DEF Promise!Effect, Op

LEMMA CommitEffect ==
    ASSUME SharedAuthAssumption, Exact, [Next]_vars, NEW t \in Tx, Commit(t)
    PROVE  Promise!Effect(call[t]) \/ UNCHANGED Promise!tables
<1>1. CASE DOMAIN buf[t] = {}
  BY <1>1, CommitNothing
<1>2. CASE DOMAIN buf[t] # {}
  <2>1. CASE Op(t) \in {"authenticate", "refresh", "invalidate", "signout", "join", "cleanup"}
    BY <1>2, <2>1, LoginEffect, RefreshEffect, InvalidateEffect, SignoutEffect, JoinEffect,
       CleanupEffect
  <2>2. CASE Op(t) \in {"validate", "hasJoined"}
    BY <1>2, <2>2, CommitDoes DEF Does
  <2> QED
    BY <2>1, <2>2, CommitDoes
<1> QED
  BY <1>1, <1>2

\* Every other step of a transaction leaves the tables alone.
LEMMA StepEffect ==
    ASSUME SharedAuthAssumption, Exact, [Next]_vars
    PROVE  [Promise!Next]_(Promise!tables)
<1>1. Inductive
  BY ExactParts
<1>2. CASE db' = db /\ now' = now
  <2>1. SameSite /\ SameSubjects /\ SameIdentities /\ SameTokens /\ SameSessions
    BY <1>2 DEF SameSite, SameSubjects, SameIdentities, SameTokens, SameSessions
  <2> QED
    BY <1>2, <2>1, SameAll
<1>3. ASSUME NEW t \in Tx, Commit(t)
      PROVE  [Promise!Next]_(Promise!tables)
  <2>1. call[t] \in Calls /\ (Promise!Effect(call[t]) \/ UNCHANGED Promise!tables)
    BY <1>3, CommitDoes, CommitEffect
  <2>2. Promise!Effect(call[t]) => Promise!Next
    BY <2>1, Zenon DEF Promise!Next
  <2> QED
    BY <2>1, <2>2
<1>4. CASE Elsewhere
  BY <1>1, <1>4, ElsewhereEffect
<1>5. CASE Tick
  <2>1. db' = db /\ now' = now + 1
    BY <1>5 DEF Tick, store
  <2>2. SameSite /\ SameSubjects /\ SameIdentities /\ SameTokens /\ SameSessions
    BY <2>1 DEF SameSite, SameSubjects, SameIdentities, SameTokens, SameSessions
  <2>3. Promise!Tick
    BY <2>1, <2>2, SameTables DEF Promise!Tick
  <2> QED
    BY <2>3 DEF Promise!Next
<1>6. ASSUME NEW t \in Tx,
             (\E c \in Calls : Start(t, c)) \/ Step(t) \/ SqlError(t) \/ AbortVictim(t)
      PROVE  Commit(t) \/ (db' = db /\ now' = now)
  BY <1>6, StepWrites DEF Start, SqlError, AbortVictim, local, store
<1>7. UNCHANGED vars => db' = db /\ now' = now
  BY DEF vars, store
<1>8. \/ \E t \in Tx : (\E c \in Calls : Start(t, c)) \/ Step(t) \/ SqlError(t) \/ AbortVictim(t)
      \/ Elsewhere \/ Tick \/ UNCHANGED vars
  BY DEF Next, Elsewhere
<1> QED
  BY <1>2, <1>3, <1>4, <1>5, <1>6, <1>7, <1>8

LEMMA InitTables ==
    ASSUME SharedAuthAssumption, Init
    PROVE  Promise!Init
<1>1. /\ db[Gate] = "active" /\ now = 0
      /\ \A u \in Uid : db[User(u)] = InitialUsers[u] /\ db[Subject(u)] = NoRow
      /\ \A p \in Pid : db[Player(p)] = InitialPlayers[p] /\ db[Identity(p)] = InitialIdentities[p]
      /\ \A h \in Hash : db[Token(h)] = NoRow
      /\ \A s \in Server : db[Session(s)] = NoRow
  BY KeysInRow DEF Init, StoreInit, Gate, User, Subject, Player, Identity, Token, Session
<1>2. /\ [u \in Uid |-> db[User(u)]] = InitialUsers
      /\ [p \in Pid |-> db[Player(p)]] = InitialPlayers
      /\ [p \in Pid |-> db[Identity(p)]] = InitialIdentities
  BY <1>1 DEF SharedAuthAssumption
<1> QED
  BY <1>1, <1>2 DEF Promise!Init

\* Whatever the others, the site, the operator and failures do meanwhile, a call of many
\* statements changes the tables in one step, as AuthPromise says of its operation, on
\* conditions that hold of the rows then (service.go:96-135, auth.go:33-248,
\* authenticate.go:28-160).
THEOREM CallsTakeEffect == Spec => TakesEffectAtOnce
<1>1. Init => Promise!Init
  BY SharedAuthAssumption, InitTables
<1>2. Exact /\ [Next]_vars => [Promise!Next]_(Promise!tables)
  BY SharedAuthAssumption, StepEffect
<1> QED
  BY <1>1, <1>2, ExactInvariant, PTL DEF Spec, TakesEffectAtOnce, Promise!Spec
================================================================================
