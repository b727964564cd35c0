------------------------------ MODULE RowStore ------------------------------
(***************************************************************************)
(* The part of MySQL 8 (InnoDB, READ COMMITTED) that the shared            *)
(* authentication service relies on.  It is external code: the model is    *)
(* what service.go, auth.go and authenticate.go use of it.                 *)
(*                                                                         *)
(*   - a plain SELECT reads the last committed version of a row and takes  *)
(*     no lock;                                                            *)
(*   - FOR SHARE and FOR UPDATE wait for conflicting locks, read the       *)
(*     committed row and keep the lock to the end of the transaction; a    *)
(*     row that does not exist is not locked;                              *)
(*   - INSERT, UPDATE and DELETE lock the key they write; the write is     *)
(*     private until COMMIT and is discarded by ROLLBACK.                  *)
(*                                                                         *)
(* The module has no actions of its own: SharedAuth and IdentityDirectory  *)
(* build theirs from these operators.                                      *)
(***************************************************************************)

CONSTANTS
    Tx,      \* the connections that run transactions
    NoRow    \* the value of a key with no row

VARIABLES
    db,      \* committed rows: a function from keys to values or NoRow
    seen,    \* seen[t]: the keys t has locked, with the value read at that time
    excl,    \* excl[t]: the keys t has locked exclusively
    buf      \* buf[t]: the uncommitted writes of t

store == <<db, seen, excl, buf>>

NoWrites == [r \in {} |-> NoRow]

\* f on its own domain, g on the rest of g's domain.
Over(f, g) == [r \in DOMAIN f \cup DOMAIN g |-> IF r \in DOMAIN f THEN f[r] ELSE g[r]]

Put(r, v) == [x \in {r} |-> v]
Drop(S) == [r \in S |-> NoRow]

\* What a statement of t reads: its own writes over the committed rows.
View(t, r) == IF r \in DOMAIN buf[t] THEN buf[t][r] ELSE db[r]

CanShare(t, S) == \A o \in Tx \ {t} : S \cap excl[o] = {}
CanLock(t, S) == \A o \in Tx \ {t} : S \cap DOMAIN seen[o] = {}

-----------------------------------------------------------------------------
StoreInit(rows) ==
    /\ db = rows
    /\ seen = [t \in Tx |-> NoWrites]
    /\ excl = [t \in Tx |-> {}]
    /\ buf = [t \in Tx |-> NoWrites]

\* One statement of t that share-locks sh, locks ex exclusively and writes w.
\* Keys in sh and ex without a row are waited for but not kept locked.
Statement(t, sh, ex, w) ==
    LET written == DOMAIN w
        locked  == {r \in ex : db[r] # NoRow} \cup written
        held    == {r \in sh : db[r] # NoRow} \cup locked
    IN  /\ CanShare(t, sh)
        /\ CanLock(t, ex \cup written)
        /\ seen' = [seen EXCEPT ![t] = Over([r \in held |-> db[r]], seen[t])]
        /\ excl' = [excl EXCEPT ![t] = excl[t] \cup locked]
        /\ buf' = [buf EXCEPT ![t] = Over(w, buf[t])]
        /\ UNCHANGED db

Release(t) ==
    /\ seen' = [seen EXCEPT ![t] = NoWrites]
    /\ excl' = [excl EXCEPT ![t] = {}]
    /\ buf' = [buf EXCEPT ![t] = NoWrites]

CommitTx(t) == db' = Over(buf[t], db) /\ Release(t)
RollbackTx(t) == UNCHANGED db /\ Release(t)

\* A statement, or a short transaction, of another program that writes w in one
\* step: it needs the exclusive locks of everything it writes.
AutoCommit(w) ==
    /\ \A t \in Tx : DOMAIN w \cap DOMAIN seen[t] = {}
    /\ db' = Over(w, db)
    /\ UNCHANGED <<seen, excl, buf>>

-----------------------------------------------------------------------------
StoreShape ==
    /\ DOMAIN seen = Tx /\ DOMAIN excl = Tx /\ DOMAIN buf = Tx
    /\ \A t \in Tx : DOMAIN seen[t] \subseteq DOMAIN db

\* What a transaction read under a lock is still the committed value, locks
\* exclude each other, and only exclusively locked keys are written.
SeenIsCurrent == \A t \in Tx : \A r \in DOMAIN seen[t] : seen[t][r] = db[r]

LocksExclude == \A t, o \in Tx : t # o => excl[t] \cap DOMAIN seen[o] = {}

WritesLocked ==
    \A t \in Tx : DOMAIN buf[t] \subseteq excl[t] /\ excl[t] \subseteq DOMAIN seen[t]

StoreInv == SeenIsCurrent /\ LocksExclude /\ WritesLocked
=============================================================================
