--------------------------- MODULE RowStoreProofs ---------------------------
(***************************************************************************)
(* What every statement, commit and rollback of RowStore preserves: locks  *)
(* exclude each other, and what was read under a lock stays current.       *)
(***************************************************************************)
EXTENDS RowStore, TLAPS

\* What one statement of t leaves in t's locks and writes.
LEMMA StatementEffect ==
    ASSUME NEW t \in Tx, NEW sh, NEW ex, NEW w,
           sh \subseteq DOMAIN db, ex \subseteq DOMAIN db, DOMAIN w \subseteq DOMAIN db,
           StoreShape, StoreInv, Statement(t, sh, ex, w)
    PROVE  /\ db' = db
           /\ StoreShape'
           /\ \A o \in Tx \ {t} : /\ seen'[o] = seen[o] /\ excl'[o] = excl[o]
                                  /\ buf'[o] = buf[o]
           /\ buf'[t] = Over(w, buf[t])
           /\ DOMAIN seen[t] \subseteq DOMAIN seen'[t]
           /\ DOMAIN seen'[t] \subseteq DOMAIN seen[t] \cup sh \cup ex \cup DOMAIN w
           /\ excl[t] \subseteq excl'[t]
           /\ excl'[t] \subseteq excl[t] \cup ex \cup DOMAIN w
           /\ DOMAIN w \subseteq excl'[t] /\ excl'[t] \subseteq DOMAIN seen'[t]
           /\ \A r \in sh \cup ex : db[r] # NoRow => r \in DOMAIN seen'[t]
           /\ \A r \in DOMAIN seen'[t] : seen'[t][r] = db[r]
<1> DEFINE locked == {r \in ex : db[r] # NoRow} \cup DOMAIN w
           held   == {r \in sh : db[r] # NoRow} \cup locked
           read   == [r \in held |-> db[r]]
<1>1. /\ db' = db
      /\ seen' = [seen EXCEPT ![t] = Over(read, seen[t])]
      /\ excl' = [excl EXCEPT ![t] = excl[t] \cup locked]
      /\ buf' = [buf EXCEPT ![t] = Over(w, buf[t])]
  BY DEF Statement
<1>2. /\ seen'[t] = Over(read, seen[t]) /\ excl'[t] = excl[t] \cup locked
      /\ buf'[t] = Over(w, buf[t])
      /\ \A o \in Tx \ {t} : seen'[o] = seen[o] /\ excl'[o] = excl[o] /\ buf'[o] = buf[o]
      /\ DOMAIN seen' = Tx /\ DOMAIN excl' = Tx /\ DOMAIN buf' = Tx
  BY <1>1 DEF StoreShape
<1>3. /\ DOMAIN seen'[t] = held \cup DOMAIN seen[t]
      /\ \A r \in DOMAIN seen'[t] : seen'[t][r] = IF r \in held THEN db[r] ELSE seen[t][r]
  BY <1>2 DEF Over
<1>4. \A r \in DOMAIN seen'[t] : seen'[t][r] = db[r]
  BY <1>3 DEF StoreInv, SeenIsCurrent
<1>5. /\ held \subseteq sh \cup ex \cup DOMAIN w /\ locked \subseteq held
      /\ excl[t] \subseteq DOMAIN seen[t]
  BY DEF StoreInv, WritesLocked
<1>6. StoreShape'
  BY <1>1, <1>2, <1>3, <1>5 DEF StoreShape
<1> QED
  BY <1>1, <1>2, <1>3, <1>4, <1>5, <1>6

LEMMA StatementKeepsStore ==
    ASSUME NEW t \in Tx, NEW sh, NEW ex, NEW w,
           sh \subseteq DOMAIN db, ex \subseteq DOMAIN db, DOMAIN w \subseteq DOMAIN db,
           StoreShape, StoreInv, Statement(t, sh, ex, w)
    PROVE  StoreShape' /\ StoreInv'
<1>1. /\ db' = db /\ StoreShape'
      /\ \A o \in Tx \ {t} : seen'[o] = seen[o] /\ excl'[o] = excl[o] /\ buf'[o] = buf[o]
      /\ buf'[t] = Over(w, buf[t])
      /\ DOMAIN seen'[t] \subseteq DOMAIN seen[t] \cup sh \cup ex \cup DOMAIN w
      /\ excl[t] \subseteq excl'[t] /\ excl'[t] \subseteq excl[t] \cup ex \cup DOMAIN w
      /\ DOMAIN w \subseteq excl'[t] /\ excl'[t] \subseteq DOMAIN seen'[t]
      /\ \A r \in DOMAIN seen'[t] : seen'[t][r] = db[r]
  BY StatementEffect
<1>2. /\ \A o \in Tx \ {t} : sh \cap excl[o] = {} /\ (ex \cup DOMAIN w) \cap DOMAIN seen[o] = {}
      /\ \A o \in Tx : excl[o] \subseteq DOMAIN seen[o]
  BY DEF Statement, CanShare, CanLock, StoreInv, WritesLocked
<1>3. SeenIsCurrent'
  BY <1>1 DEF StoreInv, SeenIsCurrent
<1>4. LocksExclude'
  <2> SUFFICES ASSUME NEW a \in Tx, NEW b \in Tx, a # b
               PROVE  excl'[a] \cap DOMAIN seen'[b] = {}
    BY DEF LocksExclude
  <2>1. CASE a = t
    BY <2>1, <1>1, <1>2 DEF StoreInv, LocksExclude
  <2>2. CASE b = t
    BY <2>2, <1>1, <1>2 DEF StoreInv, LocksExclude
  <2>3. CASE a # t /\ b # t
    BY <2>3, <1>1 DEF StoreInv, LocksExclude
  <2> QED
    BY <2>1, <2>2, <2>3
<1>5. WritesLocked'
  <2>1. DOMAIN buf'[t] = DOMAIN w \cup DOMAIN buf[t]
    BY <1>1 DEF Over
  <2> QED
    BY <2>1, <1>1 DEF StoreInv, WritesLocked
<1> QED
  BY <1>1, <1>3, <1>4, <1>5 DEF StoreInv

\* A commit applies t's writes, which nobody else has read or locked.
LEMMA CommitKeepsStore ==
    ASSUME NEW t \in Tx, StoreShape, StoreInv, CommitTx(t)
    PROVE  /\ StoreShape' /\ StoreInv'
           /\ DOMAIN db' = DOMAIN db
           /\ \A r \in DOMAIN db : db'[r] = IF r \in DOMAIN buf[t] THEN buf[t][r] ELSE db[r]
           /\ seen'[t] = NoWrites /\ buf'[t] = NoWrites
           /\ \A o \in Tx \ {t} : seen'[o] = seen[o] /\ buf'[o] = buf[o]
<1>1. /\ DOMAIN buf[t] \subseteq DOMAIN db
      /\ \A o \in Tx \ {t} : DOMAIN buf[t] \cap DOMAIN seen[o] = {}
  BY DEF StoreShape, StoreInv, WritesLocked, LocksExclude
<1>2. /\ DOMAIN db' = DOMAIN db
      /\ \A r \in DOMAIN db : db'[r] = IF r \in DOMAIN buf[t] THEN buf[t][r] ELSE db[r]
  BY <1>1 DEF CommitTx, Over
<1>3. /\ seen'[t] = NoWrites /\ buf'[t] = NoWrites /\ excl'[t] = {}
      /\ \A o \in Tx \ {t} : seen'[o] = seen[o] /\ buf'[o] = buf[o] /\ excl'[o] = excl[o]
      /\ DOMAIN seen' = Tx /\ DOMAIN buf' = Tx /\ DOMAIN excl' = Tx
  BY DEF CommitTx, Release, StoreShape
<1>4. DOMAIN NoWrites = {}
  BY DEF NoWrites
<1>5. StoreShape'
  BY <1>2, <1>3, <1>4 DEF StoreShape
<1>6. SeenIsCurrent'
  BY <1>1, <1>2, <1>3, <1>4 DEF StoreInv, SeenIsCurrent, StoreShape
<1>7. LocksExclude' /\ WritesLocked'
  BY <1>3, <1>4 DEF StoreInv, LocksExclude, WritesLocked
<1> QED
  BY <1>2, <1>3, <1>5, <1>6, <1>7 DEF StoreInv

LEMMA RollbackKeepsStore ==
    ASSUME NEW t \in Tx, StoreShape, StoreInv, RollbackTx(t)
    PROVE  /\ StoreShape' /\ StoreInv' /\ db' = db
           /\ seen'[t] = NoWrites /\ buf'[t] = NoWrites
           /\ \A o \in Tx \ {t} : seen'[o] = seen[o] /\ buf'[o] = buf[o]
<1>1. /\ db' = db
      /\ seen'[t] = NoWrites /\ buf'[t] = NoWrites /\ excl'[t] = {}
      /\ \A o \in Tx \ {t} : seen'[o] = seen[o] /\ buf'[o] = buf[o] /\ excl'[o] = excl[o]
      /\ DOMAIN seen' = Tx /\ DOMAIN buf' = Tx /\ DOMAIN excl' = Tx
  BY DEF RollbackTx, Release, StoreShape
<1>2. DOMAIN NoWrites = {}
  BY DEF NoWrites
<1>3. StoreShape'
  BY <1>1, <1>2 DEF StoreShape
<1>4. SeenIsCurrent'
  BY <1>1, <1>2 DEF StoreInv, SeenIsCurrent
<1>5. LocksExclude' /\ WritesLocked'
  BY <1>1, <1>2 DEF StoreInv, LocksExclude, WritesLocked
<1> QED
  BY <1>1, <1>3, <1>4, <1>5 DEF StoreInv

\* Another program writes only rows that no transaction has read under a lock.
LEMMA AutoCommitKeepsStore ==
    ASSUME NEW w, DOMAIN w \subseteq DOMAIN db, StoreShape, StoreInv, AutoCommit(w)
    PROVE  /\ StoreShape' /\ StoreInv'
           /\ DOMAIN db' = DOMAIN db
           /\ \A r \in DOMAIN db : db'[r] = IF r \in DOMAIN w THEN w[r] ELSE db[r]
           /\ seen' = seen /\ buf' = buf
           /\ \A o \in Tx : DOMAIN w \cap DOMAIN seen[o] = {}
<1>1. /\ \A o \in Tx : DOMAIN w \cap DOMAIN seen[o] = {}
      /\ seen' = seen /\ excl' = excl /\ buf' = buf
  BY DEF AutoCommit
<1>2. /\ DOMAIN db' = DOMAIN db
      /\ \A r \in DOMAIN db : db'[r] = IF r \in DOMAIN w THEN w[r] ELSE db[r]
  BY DEF AutoCommit, Over
<1>3. StoreShape'
  BY <1>1, <1>2 DEF StoreShape
<1>4. SeenIsCurrent'
  BY <1>1, <1>2 DEF StoreInv, SeenIsCurrent, StoreShape
<1>5. LocksExclude' /\ WritesLocked'
  BY <1>1 DEF StoreInv, LocksExclude, WritesLocked
<1> QED
  BY <1>1, <1>2, <1>3, <1>4, <1>5 DEF StoreInv
=============================================================================
