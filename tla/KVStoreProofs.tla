--------------------------- MODULE KVStoreProofs ---------------------------
(***************************************************************************)
(* Proofs about KVStore for any number of transactions, goroutines and      *)
(* keys: mutual exclusion on keys, the exactness of the waiters counters    *)
(* and repeatable reads.                                                   *)
(***************************************************************************)
EXTENDS KVStore, FiniteSetTheorems, TLAPS

\* A goroutine inside acquireKeyLock has a key, and past the map lookup an
\* object; one outside has none.
CallsInv ==
    \A w \in Workers :
        /\ pc[w] = "acquire" => key[w] \in Keys
        /\ pc[w] \in {"wait", "relock"} => key[w] \in Keys /\ lock[w] \in Locks
        /\ pc[w] \notin {"wait", "relock"} => lock[w] = NoLock

\* Different keys have different objects.
ObjectsInv ==
    \A k, l \in Keys : keyLocks[k] = keyLocks[l] /\ keyLocks[k] # NoLock => k = l

\* The mutex of a keyLock has one holder: a goroutine that is about to record
\* it in acquired, or a transaction that has.
HoldersInv ==
    /\ \A w \in Workers : pc[w] = "relock" => owner[lock[w]] = TxOf[w]
    /\ \A w, x \in Workers :
          pc[w] = "relock" /\ pc[x] = "relock" /\ key[w] = key[x] => w = x
    /\ \A w \in Workers, t \in Txs : pc[w] = "relock" => key[w] \notin acquired[t]

\* The inductive invariant of the lock manager.
LocksInv ==
    /\ TypeOK /\ CallsInv /\ ObjectsInv /\ HoldersInv
    /\ MutualExclusion /\ WaitersExact /\ HeldLocks

USE FiniteAssumption, TxOfAssumption, DirectAssumption, DistinctAssumption

\* The users of a lock are finitely many, so that counting them makes sense.
LEMMA UsersFinite == \A k \in Keys : IsFiniteSet(UsersOf(k))
<1>1. IsFiniteSet(Workers \cup Txs)
  BY FS_Union
<1>2. ASSUME NEW k \in Keys PROVE UsersOf(k) \subseteq Workers \cup Txs
  BY DEF UsersOf
<1> QED BY <1>1, <1>2, FS_Subset

\* The state right after NewKVStore and Begin satisfies the invariant.
LEMMA LocksInvInit == Init => LocksInv
<1> SUFFICES ASSUME Init PROVE LocksInv OBVIOUS
<1>1. TypeOK BY DEF Init, TypeOK, Contents, Entry
<1>2. \A k \in Keys : UsersOf(k) = {} BY DEF Init, UsersOf
<1> QED BY <1>1, <1>2 DEF Init, LocksInv, CallsInv, ObjectsInv, HoldersInv,
      MutualExclusion, WaitersExact, HeldLocks

\* An operation on a locked key writes an entry or reads one.
LEMMA PerformType ==
    ASSUME TypeOK, NEW t \in Txs, NEW k \in Keys, NEW a \in Entry, Perform(t, k, a)
    PROVE  pending' \in [Txs -> [Keys -> Entry]] /\ seen' \in [Txs -> [Keys -> Entry]]
<1> USE DEF TypeOK, Entry, Contents
<1>1. CASE a # NoEntry
  <2>1. pending' = [pending EXCEPT ![t] = [pending[t] EXCEPT ![k] = a]] /\ seen' = seen
    BY <1>1 DEF Perform
  <2>2. [pending[t] EXCEPT ![k] = a] \in [Keys -> Entry]
    OBVIOUS
  <2> QED BY <2>1, <2>2
<1>2. CASE a = NoEntry
  <2> DEFINE x == IF pending[t][k] = NoEntry THEN store[k] ELSE seen[t][k]
  <2>1. seen' = [seen EXCEPT ![t] = [seen[t] EXCEPT ![k] = x]] /\ pending' = pending
    BY <1>2 DEF Perform
  <2>2. x \in Entry
    OBVIOUS
  <2>3. [seen[t] EXCEPT ![k] = x] \in [Keys -> Entry]
    BY <2>2
  <2> QED BY <2>1, <2>3
<1> QED BY <1>1, <1>2

\* No step leaves the types.
LEMMA TypeOKStep == TypeOK /\ CallsInv /\ WaitersExact /\ [Next]_vars => TypeOK'
<1> SUFFICES ASSUME TypeOK, CallsInv, WaitersExact, [Next]_vars PROVE TypeOK' OBVIOUS
<1> USE DEF TypeOK, Entry, Contents
<1>0. CASE UNCHANGED vars
  BY <1>0 DEF vars, locksVars, txVars, callVars
<1>1. ASSUME NEW w \in Workers, NEW k \in Keys, NEW a \in Entry, CallHeld(w, k, a) PROVE TypeOK'
  BY <1>1, PerformType DEF CallHeld, locksVars, callVars
<1>2. ASSUME NEW w \in Workers, NEW k \in Keys, NEW a \in Entry, CallUnheld(w, k, a) PROVE TypeOK'
  BY <1>2 DEF CallUnheld, locksVars, txVars
<1>3. ASSUME NEW w \in Workers, CallEnded(w) PROVE TypeOK'
  BY <1>3 DEF CallEnded, locksVars, txVars
<1>4. ASSUME NEW w \in Workers, FindKeyLock(w) PROVE TypeOK'
  BY <1>4 DEF FindKeyLock, txVars, CallsInv
<1>5. ASSUME NEW w \in Workers, NEW o \in Locks, NewKeyLock(w, o) PROVE TypeOK'
  BY <1>5 DEF NewKeyLock, txVars, CallsInv
<1>6. ASSUME NEW w \in Workers, LockKey(w) PROVE TypeOK'
  BY <1>6 DEF LockKey, txVars, CallsInv
<1>7. ASSUME NEW w \in Workers, FinishCall(w) PROVE TypeOK'
  <2>1. pending' \in [Txs -> [Keys -> Entry]] /\ seen' \in [Txs -> [Keys -> Entry]]
    BY <1>7, PerformType DEF FinishCall, CallsInv
  <2>2. /\ TxOf[w] \in Txs /\ key[w] \in Keys
        /\ acquired' = [acquired EXCEPT ![TxOf[w]] = @ \cup {key[w]}]
        /\ pc' = [pc EXCEPT ![w] = "idle"]
        /\ key' = [key EXCEPT ![w] = NoEntry]
        /\ arg' = [arg EXCEPT ![w] = NoEntry]
        /\ lock' = [lock EXCEPT ![w] = NoLock]
        /\ UNCHANGED <<store, keyLocks, waiters, owner, status>>
    BY <1>7 DEF FinishCall, locksVars, CallsInv
  <2> QED BY <2>1, <2>2
<1>r. ASSUME NEW k \in Keys, UsersOf(k) # {}, releaseKeyLock(k)
      PROVE  /\ keyLocks' \in [Keys -> Locks \cup {NoLock}]
             /\ waiters' \in [Locks -> Nat]
             /\ owner' \in [Locks -> Txs \cup {NoTx}]
  <2>1. waiters[keyLocks[k]] \in Nat \ {0}
    BY <1>r, UsersFinite, FS_EmptySet DEF WaitersExact, releaseKeyLock
  <2>2. keyLocks[k] \in Locks
    BY <1>r DEF releaseKeyLock
  <2>3. /\ waiters' = [waiters EXCEPT ![keyLocks[k]] = @ - 1]
        /\ owner' = [owner EXCEPT ![keyLocks[k]] = NoTx]
        /\ keyLocks' = [keyLocks EXCEPT ![k] = IF waiters[keyLocks[k]] = 1 THEN NoLock ELSE @]
    BY <1>r DEF releaseKeyLock, LocksAfterRelease
  <2>4. waiters[keyLocks[k]] - 1 \in Nat
    BY <2>1
  <2>5. waiters' \in [Locks -> Nat]
    BY <2>2, <2>3, <2>4
  <2> QED BY <2>2, <2>3, <2>5
<1>8. ASSUME NEW w \in Workers, FinishCallEnded(w) PROVE TypeOK'
  <2>1. key[w] \in Keys /\ w \in UsersOf(key[w])
    BY <1>8 DEF FinishCallEnded, CallsInv, UsersOf
  <2>2. /\ keyLocks' \in [Keys -> Locks \cup {NoLock}]
        /\ waiters' \in [Locks -> Nat]
        /\ owner' \in [Locks -> Txs \cup {NoTx}]
    BY <1>8, <1>r, <2>1 DEF FinishCallEnded
  <2> QED BY <1>8, <2>2 DEF FinishCallEnded, txVars
<1>9. ASSUME NEW w \in Workers, Commit(w) PROVE TypeOK'
  BY <1>9 DEF Commit, Merged, locksVars, callVars
<1>10. ASSUME NEW w \in Workers, Rollback(w) PROVE TypeOK'
  BY <1>10 DEF Rollback, locksVars, callVars
<1>11. ASSUME NEW t \in Txs, ReleaseOne(t) PROVE TypeOK'
  <2>1. PICK k \in acquired[t] : releaseKeyLock(k) /\ acquired' = [acquired EXCEPT ![t] = @ \ {k}]
    BY <1>11 DEF ReleaseOne
  <2>2. k \in Keys /\ t \in UsersOf(k)
    BY DEF UsersOf
  <2>3. /\ keyLocks' \in [Keys -> Locks \cup {NoLock}]
        /\ waiters' \in [Locks -> Nat]
        /\ owner' \in [Locks -> Txs \cup {NoTx}]
    BY <1>r, <2>1, <2>2
  <2> QED BY <1>11, <2>1, <2>3 DEF ReleaseOne, callVars
<1>12. ASSUME NEW t \in Txs, EndRelease(t) PROVE TypeOK'
  BY <1>12 DEF EndRelease, locksVars, callVars
<1>13. ASSUME NEW k \in DirectKeys, NEW c \in Contents, Direct(k, c) PROVE TypeOK'
  BY <1>13 DEF Direct, locksVars, txVars, callVars
<1> QED
  BY <1>0, <1>1, <1>2, <1>3, <1>4, <1>5, <1>6, <1>7, <1>8, <1>9, <1>10, <1>11,
     <1>12, <1>13 DEF Next, Call, Acquire, Finish, End, Release

-----------------------------------------------------------------------------
(* Preservation of the lock manager's invariant *)

\* Steps that touch no lock: operations on held keys, the start of an
\* operation, Commit and Rollback before the locks are released, direct
\* operations.
LEMMA QuietStep ==
    ASSUME LocksInv, TypeOK', UNCHANGED <<keyLocks, waiters, owner, acquired, lock>>,
           \A w \in Workers :
              \/ pc'[w] = pc[w] /\ key'[w] = key[w]
              \/ /\ pc[w] \notin {"wait", "relock"}
                 /\ pc'[w] \notin {"wait", "relock"}
                 /\ pc'[w] = "acquire" => key'[w] \in Keys
    PROVE  LocksInv'
<1>1. \A k \in Keys : UsersOf(k)' = UsersOf(k)
  BY DEF UsersOf
<1>2. WaitersExact'
  BY <1>1 DEF LocksInv, WaitersExact
<1> QED BY <1>2 DEF LocksInv, CallsInv, ObjectsInv, HoldersInv, MutualExclusion, HeldLocks

\* One more goroutine finds the lock object of its key.
LEMMA FindKeyLockStep ==
    ASSUME LocksInv, TypeOK', NEW w \in Workers, FindKeyLock(w)
    PROVE  LocksInv'
<1>0. PICK k \in Keys : k = key[w]
  BY DEF FindKeyLock, LocksInv, CallsInv
<1> DEFINE o == keyLocks[k]
<1>1. /\ pc[w] = "acquire" /\ k = key[w] /\ o \in Locks
      /\ waiters' = [waiters EXCEPT ![o] = @ + 1]
      /\ lock' = [lock EXCEPT ![w] = o]
      /\ pc' = [pc EXCEPT ![w] = "wait"]
      /\ UNCHANGED <<keyLocks, owner, acquired, key>>
  BY <1>0 DEF FindKeyLock, LocksInv, TypeOK, CallsInv, txVars
<1>2. /\ UsersOf(k)' = UsersOf(k) \cup {w}
      /\ w \notin UsersOf(k)
      /\ \A l \in Keys : l # k => UsersOf(l)' = UsersOf(l)
  BY <1>1 DEF UsersOf, LocksInv, TypeOK
<1>3. WaitersExact'
  <2>1. Cardinality(UsersOf(k)') = Cardinality(UsersOf(k)) + 1
    BY <1>1, <1>2, UsersFinite, FS_AddElement
  <2>2. waiters'[o] = Cardinality(UsersOf(k)') /\ UsersOf(k)' # {} /\ keyLocks'[k] = o
    BY <1>1, <1>2, <2>1 DEF LocksInv, WaitersExact, TypeOK
  <2>3. \A l \in Keys : l # k => keyLocks[l] = NoLock \/ waiters'[keyLocks[l]] = waiters[keyLocks[l]]
    BY <1>1 DEF LocksInv, ObjectsInv, TypeOK
  <2> QED BY <1>1, <1>2, <2>2, <2>3 DEF LocksInv, WaitersExact
<1> QED BY <1>1, <1>3 DEF LocksInv, CallsInv, ObjectsInv, HoldersInv, MutualExclusion, HeldLocks, TypeOK

\* A goroutine makes the lock object of a key nobody uses.
LEMMA NewKeyLockStep ==
    ASSUME LocksInv, TypeOK', NEW w \in Workers, NEW o \in Locks, NewKeyLock(w, o)
    PROVE  LocksInv'
<1>0. PICK k \in Keys : k = key[w]
  BY DEF NewKeyLock, LocksInv, CallsInv
<1>1. /\ pc[w] = "acquire" /\ k = key[w] /\ keyLocks[k] = NoLock
      /\ \A l \in Keys : keyLocks[l] # o
      /\ \A x \in Workers : lock[x] # o
      /\ keyLocks' = [keyLocks EXCEPT ![k] = o]
      /\ waiters' = [waiters EXCEPT ![o] = 1]
      /\ owner' = [owner EXCEPT ![o] = NoTx]
      /\ lock' = [lock EXCEPT ![w] = o]
      /\ pc' = [pc EXCEPT ![w] = "wait"]
      /\ UNCHANGED <<acquired, key>>
  BY <1>0 DEF NewKeyLock, Unused, LocksInv, CallsInv, txVars
<1>2. /\ UsersOf(k) = {}
      /\ UsersOf(k)' = {w}
      /\ \A l \in Keys : l # k => UsersOf(l)' = UsersOf(l)
  <2>1. UsersOf(k) = {} BY <1>1 DEF LocksInv, WaitersExact
  <2> QED BY <1>1, <2>1 DEF UsersOf, LocksInv, TypeOK
<1>3. WaitersExact'
  <2>1. Cardinality(UsersOf(k)') = 1
    BY <1>2, FS_Singleton
  <2>2. keyLocks'[k] = o /\ waiters'[o] = Cardinality(UsersOf(k)') /\ UsersOf(k)' # {}
    BY <1>1, <1>2, <2>1 DEF LocksInv, TypeOK
  <2>3. \A l \in Keys : l # k => /\ keyLocks'[l] = keyLocks[l]
                                 /\ keyLocks[l] = NoLock \/ waiters'[keyLocks[l]] = waiters[keyLocks[l]]
    BY <1>1 DEF LocksInv, TypeOK
  <2>4. ASSUME NEW l \in Keys, l # k
        PROVE  IF keyLocks'[l] = NoLock THEN UsersOf(l)' = {}
               ELSE waiters'[keyLocks'[l]] = Cardinality(UsersOf(l)') /\ UsersOf(l)' # {}
    BY <1>2, <2>3, <2>4 DEF LocksInv, WaitersExact
  <2>5. keyLocks'[k] # NoLock
    BY <2>2
  <2> QED BY <2>2, <2>4, <2>5 DEF WaitersExact
<1>4. CallsInv' /\ ObjectsInv'
  BY <1>1 DEF LocksInv, CallsInv, ObjectsInv, TypeOK
<1>5. HoldersInv'
  BY <1>1 DEF LocksInv, HoldersInv, TypeOK, CallsInv
<1>6. HeldLocks'
  <2>1. ASSUME NEW x \in Workers, pc'[x] \in {"wait", "relock"} PROVE keyLocks'[key'[x]] = lock'[x]
    <3>1. CASE x = w BY <1>1, <3>1 DEF LocksInv, TypeOK
    <3>2. CASE x # w
      <4>1. key[x] # k
        BY <1>1, <1>2, <2>1, <3>2 DEF UsersOf, LocksInv, TypeOK
      <4> QED BY <1>1, <2>1, <3>2, <4>1 DEF LocksInv, TypeOK, HeldLocks, CallsInv
    <3> QED BY <3>1, <3>2
  <2>2. ASSUME NEW t \in Txs, NEW l \in acquired'[t]
        PROVE  keyLocks'[l] # NoLock /\ owner'[keyLocks'[l]] = t
    <3>1. l \in Keys /\ l \in acquired[t] /\ l # k
      BY <1>1, <1>2, <2>2 DEF UsersOf, LocksInv, TypeOK
    <3> QED BY <1>1, <3>1 DEF LocksInv, TypeOK, HeldLocks
  <2> QED BY <2>1, <2>2 DEF HeldLocks
<1>7. MutualExclusion'
  BY <1>1 DEF LocksInv, MutualExclusion
<1> QED BY <1>3, <1>4, <1>5, <1>6, <1>7 DEF LocksInv

\* A waiting goroutine gets the mutex of the lock object.
LEMMA LockKeyStep ==
    ASSUME LocksInv, TypeOK', NEW w \in Workers, LockKey(w)
    PROVE  LocksInv'
<1> DEFINE k == key[w]  o == lock[w]
<1>1. /\ pc[w] = "wait" /\ k \in Keys /\ o \in Locks /\ owner[o] = NoTx /\ TxOf[w] \in Txs
      /\ keyLocks[k] = o
      /\ owner' = [owner EXCEPT ![o] = TxOf[w]]
      /\ pc' = [pc EXCEPT ![w] = "relock"]
      /\ UNCHANGED <<keyLocks, waiters, acquired, key, lock>>
  BY DEF LockKey, LocksInv, CallsInv, HeldLocks, txVars
<1>2. \A l \in Keys : UsersOf(l)' = UsersOf(l)
  BY <1>1 DEF UsersOf, LocksInv, TypeOK
<1>3. WaitersExact'
  BY <1>1, <1>2 DEF LocksInv, WaitersExact
<1>4. \A t \in Txs : k \notin acquired[t]
  BY <1>1 DEF LocksInv, HeldLocks
<1>5. \A x \in Workers : pc[x] = "relock" => key[x] # k /\ lock[x] # o
  BY <1>1 DEF LocksInv, HeldLocks, HoldersInv, CallsInv
<1>6. HoldersInv'
  BY <1>1, <1>4, <1>5 DEF LocksInv, HoldersInv, TypeOK
<1>7. HeldLocks'
  <2>1. ASSUME NEW t \in Txs, NEW l \in acquired[t] PROVE keyLocks[l] # o
    <3>1. l \in Keys /\ l # k /\ o # NoLock
      BY <1>1, <1>4, <2>1 DEF LocksInv, TypeOK
    <3> QED BY <1>1, <3>1 DEF LocksInv, ObjectsInv
  <2> QED BY <1>1, <2>1 DEF LocksInv, HeldLocks, TypeOK
<1> QED BY <1>1, <1>3, <1>6, <1>7 DEF LocksInv, CallsInv, ObjectsInv, MutualExclusion, TypeOK

\* The goroutine records the lock in tx.acquired: the transaction takes the
\* goroutine's place among the users.
LEMMA FinishCallStep ==
    ASSUME LocksInv, TypeOK', NEW w \in Workers, FinishCall(w)
    PROVE  LocksInv'
<1>0. PICK k \in Keys : k = key[w]
  BY DEF FinishCall, LocksInv, CallsInv
<1> DEFINE t == TxOf[w]
<1>1. /\ pc[w] = "relock" /\ k = key[w] /\ t \in Txs
      /\ keyLocks[k] = lock[w] /\ lock[w] \in Locks /\ owner[lock[w]] = t
      /\ acquired' = [acquired EXCEPT ![t] = @ \cup {k}]
      /\ pc' = [pc EXCEPT ![w] = "idle"]
      /\ key' = [key EXCEPT ![w] = NoEntry]
      /\ lock' = [lock EXCEPT ![w] = NoLock]
      /\ UNCHANGED <<keyLocks, waiters, owner>>
  BY <1>0 DEF FinishCall, LocksInv, CallsInv, HeldLocks, HoldersInv, locksVars
<1>2. \A u \in Txs : k \notin acquired[u]
  BY <1>1 DEF LocksInv, HoldersInv
<1>3. /\ w \in UsersOf(k) /\ t \notin UsersOf(k)
      /\ UsersOf(k)' = (UsersOf(k) \ {w}) \cup {t}
      /\ \A l \in Keys : l # k => UsersOf(l)' = UsersOf(l)
  <2>1. w \in UsersOf(k) /\ t \notin UsersOf(k)
    BY <1>1, <1>2 DEF UsersOf
  <2>2. \A x \in Workers : x # w => pc'[x] = pc[x] /\ key'[x] = key[x]
    BY <1>1 DEF LocksInv, TypeOK
  <2>3. \A u \in Txs, l \in Keys : l \in acquired'[u] <=> l \in acquired[u] \/ (u = t /\ l = k)
    BY <1>1 DEF LocksInv, TypeOK
  <2>4. pc'[w] = "idle"
    BY <1>1 DEF LocksInv, TypeOK
  <2>5. t \in UsersOf(k)'
    BY <1>1, <2>3 DEF UsersOf
  <2>6. UsersOf(k)' \subseteq (UsersOf(k) \ {w}) \cup {t}
    BY <1>1, <2>2, <2>3, <2>4 DEF UsersOf
  <2>7. UsersOf(k) \ {w} \subseteq UsersOf(k)'
    BY <1>1, <2>2, <2>3, <2>4 DEF UsersOf
  <2>8. ASSUME NEW l \in Keys, l # k PROVE UsersOf(l)' = UsersOf(l)
    BY <1>1, <2>2, <2>3, <2>4, <2>8 DEF UsersOf
  <2> QED BY <2>1, <2>5, <2>6, <2>7, <2>8
<1>4. WaitersExact'
  <2>1. Cardinality(UsersOf(k)') = Cardinality(UsersOf(k)) /\ UsersOf(k)' # {}
    <3>1. IsFiniteSet(UsersOf(k)) BY <1>1, UsersFinite
    <3>2. IsFiniteSet(UsersOf(k) \ {w}) /\ Cardinality(UsersOf(k) \ {w}) = Cardinality(UsersOf(k)) - 1
      BY <1>3, <3>1, FS_RemoveElement
    <3>3. Cardinality((UsersOf(k) \ {w}) \cup {t}) = Cardinality(UsersOf(k) \ {w}) + 1
      BY <1>3, <3>2, FS_AddElement
    <3>4. Cardinality(UsersOf(k)) \in Nat BY <3>1, FS_CardinalityType
    <3> QED BY <1>3, <3>2, <3>3, <3>4
  <2>2. keyLocks[k] # NoLock
    BY <1>1
  <2>3. keyLocks' = keyLocks /\ waiters' = waiters
    BY <1>1
  <2>4. ASSUME NEW l \in Keys
        PROVE  IF keyLocks[l] = NoLock THEN UsersOf(l)' = {}
               ELSE waiters[keyLocks[l]] = Cardinality(UsersOf(l)') /\ UsersOf(l)' # {}
    <3>1. CASE l = k BY <2>1, <2>2, <3>1 DEF LocksInv, WaitersExact
    <3>2. CASE l # k BY <1>3, <3>2 DEF LocksInv, WaitersExact
    <3> QED BY <3>1, <3>2
  <2> QED BY <2>3, <2>4 DEF WaitersExact
<1>5. HoldersInv'
  BY <1>1 DEF LocksInv, HoldersInv, TypeOK, CallsInv
<1>6. MutualExclusion'
  BY <1>1, <1>2 DEF LocksInv, MutualExclusion, TypeOK
<1>7. HeldLocks'
  BY <1>1 DEF LocksInv, HeldLocks, TypeOK
<1> QED BY <1>1, <1>4, <1>5, <1>6, <1>7 DEF LocksInv, CallsInv, ObjectsInv, TypeOK

\* A release takes one user away, and the object from the map with the last.
LEMMA ReleaseCount ==
    ASSUME LocksInv, NEW k \in Keys, NEW u \in UsersOf(k), releaseKeyLock(k),
           UsersOf(k)' = UsersOf(k) \ {u},
           \A l \in Keys : l # k => UsersOf(l)' = UsersOf(l)
    PROVE  /\ WaitersExact'
           /\ keyLocks'[k] = (IF UsersOf(k)' = {} THEN NoLock ELSE keyLocks[k])
           /\ \A l \in Keys : l # k => keyLocks'[l] = keyLocks[l]
<1> DEFINE o == keyLocks[k]
<1>1. /\ o \in Locks
      /\ waiters' = [waiters EXCEPT ![o] = @ - 1]
      /\ keyLocks' = [keyLocks EXCEPT ![k] = IF waiters[o] = 1 THEN NoLock ELSE o]
      /\ waiters[o] = Cardinality(UsersOf(k))
  BY DEF releaseKeyLock, LocksAfterRelease, LocksInv, TypeOK, WaitersExact
<1>2. /\ IsFiniteSet(UsersOf(k)') /\ Cardinality(UsersOf(k)') = Cardinality(UsersOf(k)) - 1
      /\ Cardinality(UsersOf(k)) \in Nat
  BY UsersFinite, FS_RemoveElement, FS_CardinalityType
<1>3. UsersOf(k)' = {} <=> waiters[o] = 1
  BY <1>1, <1>2, FS_EmptySet
<1>4. keyLocks'[k] = (IF UsersOf(k)' = {} THEN NoLock ELSE keyLocks[k])
  BY <1>1, <1>3 DEF LocksInv, TypeOK
<1>5. \A l \in Keys : l # k => /\ keyLocks'[l] = keyLocks[l]
                               /\ keyLocks[l] = NoLock \/ waiters'[keyLocks[l]] = waiters[keyLocks[l]]
  BY <1>1 DEF LocksInv, ObjectsInv, TypeOK
<1>6. waiters'[o] = Cardinality(UsersOf(k)')
  BY <1>1, <1>2 DEF LocksInv, TypeOK
<1>7. WaitersExact'
  BY <1>4, <1>5, <1>6 DEF LocksInv, WaitersExact
<1> QED BY <1>4, <1>5, <1>7

\* The lock of an ended transaction is given back by the goroutine that waited.
LEMMA FinishCallEndedStep ==
    ASSUME LocksInv, TypeOK', NEW w \in Workers, FinishCallEnded(w)
    PROVE  LocksInv'
<1>0. PICK k \in Keys : k = key[w]
  BY DEF FinishCallEnded, LocksInv, CallsInv
<1>1. /\ pc[w] = "relock" /\ k = key[w]
      /\ keyLocks[k] = lock[w] /\ lock[w] \in Locks
      /\ releaseKeyLock(k)
      /\ owner' = [owner EXCEPT ![lock[w]] = NoTx]
      /\ pc'[w] \in {"idle", "panicked"} /\ pc' = [pc EXCEPT ![w] = pc'[w]]
      /\ key' = [key EXCEPT ![w] = NoEntry]
      /\ lock' = [lock EXCEPT ![w] = NoLock]
      /\ UNCHANGED acquired
  BY <1>0 DEF FinishCallEnded, releaseKeyLock, LocksInv, CallsInv, HeldLocks, TypeOK, txVars
<1>2. /\ w \in UsersOf(k)
      /\ UsersOf(k)' = UsersOf(k) \ {w}
      /\ \A l \in Keys : l # k => UsersOf(l)' = UsersOf(l)
  <2>1. w \in UsersOf(k) /\ w \notin Txs
    BY <1>1 DEF UsersOf
  <2>2. \A x \in Workers : x # w => pc'[x] = pc[x] /\ key'[x] = key[x]
    BY <1>1 DEF LocksInv, TypeOK
  <2>3. UsersOf(k)' = UsersOf(k) \ {w}
    BY <1>1, <2>1, <2>2 DEF UsersOf
  <2>4. ASSUME NEW l \in Keys, l # k PROVE UsersOf(l)' = UsersOf(l)
    BY <1>1, <2>2, <2>4 DEF UsersOf
  <2> QED BY <2>1, <2>3, <2>4
<1>3. /\ WaitersExact'
      /\ keyLocks'[k] = (IF UsersOf(k)' = {} THEN NoLock ELSE keyLocks[k])
      /\ \A l \in Keys : l # k => keyLocks'[l] = keyLocks[l]
  <2>1. releaseKeyLock(k) /\ k \in Keys
    BY <1>1
  <2> QED BY <1>2, <2>1, ReleaseCount
<1>4. \A u \in Txs : k \notin acquired[u]
  BY <1>1 DEF LocksInv, HoldersInv
<1>5. \A x \in Workers : x # w /\ pc[x] = "relock" => key[x] # k /\ lock[x] # lock[w]
  BY <1>1 DEF LocksInv, HeldLocks, HoldersInv, CallsInv, ObjectsInv
<1>6. CallsInv' /\ HoldersInv'
  BY <1>1, <1>5 DEF LocksInv, CallsInv, HoldersInv, TypeOK
<1>7. ObjectsInv'
  BY <1>3 DEF LocksInv, ObjectsInv
<1>8. HeldLocks'
  <2>1. ASSUME NEW x \in Workers, pc'[x] \in {"wait", "relock"} PROVE keyLocks'[key'[x]] = lock'[x]
    <3>1. x # w /\ pc[x] = pc'[x] /\ key[x] = key'[x] /\ lock[x] = lock'[x] /\ key[x] \in Keys
      BY <1>1, <2>1 DEF LocksInv, TypeOK, CallsInv
    <3>2. key[x] = k => UsersOf(k)' # {}
      BY <1>2, <2>1, <3>1 DEF UsersOf
    <3> QED BY <1>3, <2>1, <3>1, <3>2 DEF LocksInv, HeldLocks
  <2>2. ASSUME NEW t \in Txs, NEW l \in acquired'[t]
        PROVE  keyLocks'[l] # NoLock /\ owner'[keyLocks'[l]] = t
    <3>1. l \in Keys /\ l \in acquired[t] /\ l # k
      BY <1>1, <1>4, <2>2 DEF LocksInv, TypeOK
    <3>2. keyLocks[l] # lock[w]
      BY <1>1, <3>1 DEF LocksInv, ObjectsInv, TypeOK
    <3> QED BY <1>1, <1>3, <3>1, <3>2 DEF LocksInv, TypeOK, HeldLocks
  <2> QED BY <2>1, <2>2 DEF HeldLocks
<1>9. MutualExclusion'
  BY <1>1 DEF LocksInv, MutualExclusion
<1> QED BY <1>3, <1>6, <1>7, <1>8, <1>9 DEF LocksInv

\* One round of releaseAllLocks.
LEMMA ReleaseOneStep ==
    ASSUME LocksInv, TypeOK', NEW t \in Txs, ReleaseOne(t)
    PROVE  LocksInv'
<1>0. PICK k \in acquired[t] : releaseKeyLock(k) /\ acquired' = [acquired EXCEPT ![t] = @ \ {k}]
  BY DEF ReleaseOne
<1>1. /\ k \in Keys /\ keyLocks[k] \in Locks /\ owner[keyLocks[k]] = t
      /\ owner' = [owner EXCEPT ![keyLocks[k]] = NoTx]
      /\ UNCHANGED <<pc, key, lock>>
  <2>1. k \in Keys BY <1>0 DEF LocksInv, TypeOK
  <2>2. keyLocks[k] \in Locks /\ owner[keyLocks[k]] = t
    BY <1>0, <2>1 DEF LocksInv, HeldLocks, TypeOK
  <2>3. owner' = [owner EXCEPT ![keyLocks[k]] = NoTx]
    BY <1>0 DEF releaseKeyLock
  <2>4. UNCHANGED <<pc, key, lock>>
    BY DEF ReleaseOne, callVars
  <2> QED BY <2>1, <2>2, <2>3, <2>4
<1>2. /\ t \in UsersOf(k)
      /\ UsersOf(k)' = UsersOf(k) \ {t}
      /\ \A l \in Keys : l # k => UsersOf(l)' = UsersOf(l)
  BY <1>0, <1>1 DEF UsersOf, LocksInv, TypeOK
<1>3. /\ WaitersExact'
      /\ keyLocks'[k] = (IF UsersOf(k)' = {} THEN NoLock ELSE keyLocks[k])
      /\ \A l \in Keys : l # k => keyLocks'[l] = keyLocks[l]
  BY <1>0, <1>1, <1>2, ReleaseCount
<1>4. \A u \in Txs : u # t => k \notin acquired[u]
  BY <1>0 DEF LocksInv, MutualExclusion
<1>5. \A x \in Workers : pc[x] = "relock" => key[x] # k /\ lock[x] # keyLocks[k]
  BY <1>0, <1>1 DEF LocksInv, HeldLocks, HoldersInv, CallsInv, ObjectsInv
<1>6. CallsInv' /\ HoldersInv' /\ MutualExclusion'
  BY <1>0, <1>1, <1>5 DEF LocksInv, CallsInv, HoldersInv, MutualExclusion, TypeOK
<1>7. ObjectsInv'
  BY <1>3 DEF LocksInv, ObjectsInv
<1>8. HeldLocks'
  <2>1. ASSUME NEW x \in Workers, pc'[x] \in {"wait", "relock"} PROVE keyLocks'[key'[x]] = lock'[x]
    <3>1. pc[x] = pc'[x] /\ key[x] = key'[x] /\ lock[x] = lock'[x] /\ key[x] \in Keys
      BY <1>1, <2>1 DEF LocksInv, CallsInv
    <3>2. key[x] = k => x \in UsersOf(k) /\ x # t
      BY <2>1, <3>1 DEF UsersOf
    <3>3. key[x] = k => UsersOf(k)' # {}
      BY <1>2, <3>2
    <3> QED BY <1>3, <2>1, <3>1, <3>3 DEF LocksInv, HeldLocks
  <2>2. ASSUME NEW u \in Txs, NEW l \in acquired'[u]
        PROVE  keyLocks'[l] # NoLock /\ owner'[keyLocks'[l]] = u
    <3>1. l \in Keys /\ l \in acquired[u] /\ l # k
      BY <1>0, <1>4, <2>2 DEF LocksInv, TypeOK
    <3>2. keyLocks[l] # keyLocks[k]
      BY <1>1, <3>1 DEF LocksInv, ObjectsInv, TypeOK
    <3> QED BY <1>1, <1>3, <3>1, <3>2 DEF LocksInv, TypeOK, HeldLocks
  <2> QED BY <2>1, <2>2 DEF HeldLocks
<1> QED BY <1>3, <1>6, <1>7, <1>8 DEF LocksInv

\* Every step of the store preserves the invariant of the lock manager.
LEMMA LocksInvStep == LocksInv /\ [Next]_vars => LocksInv'
<1> SUFFICES ASSUME LocksInv, [Next]_vars PROVE LocksInv' OBVIOUS
<1>t. TypeOK' BY TypeOKStep DEF LocksInv
<1>0. CASE UNCHANGED vars
  BY <1>t, <1>0, QuietStep DEF vars, locksVars, txVars, callVars
<1>1. ASSUME NEW w \in Workers, NEW k \in Keys, NEW a \in Entry, CallHeld(w, k, a) PROVE LocksInv'
  BY <1>t, <1>1, QuietStep DEF CallHeld, locksVars, callVars
<1>2. ASSUME NEW w \in Workers, NEW k \in Keys, NEW a \in Entry, CallUnheld(w, k, a) PROVE LocksInv'
  <2>1. /\ UNCHANGED <<keyLocks, waiters, owner, acquired, lock>>
        /\ pc[w] = "idle" /\ pc' = [pc EXCEPT ![w] = "acquire"] /\ key' = [key EXCEPT ![w] = k]
    BY <1>2 DEF CallUnheld, locksVars, txVars
  <2> QED BY <1>t, <2>1, QuietStep DEF LocksInv, TypeOK
<1>3. ASSUME NEW w \in Workers, CallEnded(w) PROVE LocksInv'
  <2>1. /\ UNCHANGED <<keyLocks, waiters, owner, acquired, lock, key>>
        /\ pc[w] = "idle" /\ pc' = [pc EXCEPT ![w] = "panicked"]
    BY <1>3 DEF CallEnded, locksVars, txVars
  <2> QED BY <1>t, <2>1, QuietStep DEF LocksInv, TypeOK
<1>4. ASSUME NEW w \in Workers, Commit(w) PROVE LocksInv'
  BY <1>t, <1>4, QuietStep DEF Commit, locksVars, callVars
<1>5. ASSUME NEW w \in Workers, Rollback(w) PROVE LocksInv'
  BY <1>t, <1>5, QuietStep DEF Rollback, locksVars, callVars
<1>6. ASSUME NEW t \in Txs, EndRelease(t) PROVE LocksInv'
  BY <1>t, <1>6, QuietStep DEF EndRelease, locksVars, callVars
<1>7. ASSUME NEW k \in DirectKeys, NEW c \in Contents, Direct(k, c) PROVE LocksInv'
  BY <1>t, <1>7, QuietStep DEF Direct, locksVars, txVars, callVars
<1> QED
  BY <1>t, <1>0, <1>1, <1>2, <1>3, <1>4, <1>5, <1>6, <1>7, FindKeyLockStep,
     NewKeyLockStep, LockKeyStep, FinishCallStep, FinishCallEndedStep, ReleaseOneStep
  DEF Next, Call, Acquire, Finish, End, Release

-----------------------------------------------------------------------------
(* Repeatable reads *)

\* An active transaction has locked whatever it has written or read.
EntriesInv ==
    \A t \in Txs, k \in Keys :
        /\ pending[t][k] # NoEntry => status[t] = "active" /\ k \in acquired[t]
        /\ seen[t][k] # NoEntry /\ status[t] = "active" => k \in acquired[t]

\* The inductive invariant of the store.
StoreInv == LocksInv /\ EntriesInv /\ RepeatableRead

\* An operation on a key the transaction holds, whether or not it was locked in
\* the same step, keeps reads repeatable.
LEMMA PerformStep ==
    ASSUME StoreInv, NEW t \in Txs, NEW k \in Keys, NEW a \in Entry, Perform(t, k, a),
           status[t] = "active", k \in acquired'[t], UNCHANGED <<store, status>>,
           \A u \in Txs : acquired[u] \subseteq acquired'[u]
    PROVE  EntriesInv' /\ RepeatableRead'
<1> USE DEF StoreInv, LocksInv
<1>1. CASE a # NoEntry
  <2>1. pending' = [pending EXCEPT ![t] = [pending[t] EXCEPT ![k] = a]] /\ seen' = seen
    BY <1>1 DEF Perform
  <2>2. \A u \in Txs, l \in Keys : (u = t /\ l = k) \/ pending'[u][l] = pending[u][l]
    BY <2>1 DEF TypeOK
  <2> QED BY <2>1, <2>2 DEF EntriesInv, RepeatableRead
<1>2. CASE a = NoEntry
  <2> DEFINE x == IF pending[t][k] = NoEntry THEN store[k] ELSE seen[t][k]
  <2>1. seen' = [seen EXCEPT ![t] = [seen[t] EXCEPT ![k] = x]] /\ pending' = pending
    BY <1>2 DEF Perform
  <2>2. /\ \A u \in Txs, l \in Keys : (u = t /\ l = k) \/ seen'[u][l] = seen[u][l]
        /\ seen'[t][k] = store[k] \/ seen'[t][k] = seen[t][k]
    BY <2>1 DEF TypeOK
  <2> QED BY <2>1, <2>2 DEF EntriesInv, RepeatableRead
<1> QED BY <1>1, <1>2

\* Steps that write neither the store nor an entry, and let go of locks only
\* when the transaction is no longer active.
LEMMA EntriesQuietStep ==
    ASSUME StoreInv, UNCHANGED <<store, pending, seen>>,
           \A t \in Txs : \/ status'[t] = status[t] /\ acquired[t] \subseteq acquired'[t]
                          \/ status[t] # "active" /\ status'[t] # "active"
    PROVE  EntriesInv' /\ RepeatableRead'
BY DEF StoreInv, EntriesInv, RepeatableRead

\* Commit writes only keys that no other transaction has read.
LEMMA CommitStep ==
    ASSUME StoreInv, NEW w \in Workers, Commit(w)
    PROVE  EntriesInv' /\ RepeatableRead'
<1> DEFINE t == TxOf[w]
<1> USE DEF StoreInv, LocksInv
<1>1. /\ t \in Txs /\ UNCHANGED <<acquired, seen>>
      /\ store' = [k \in Keys |-> IF pending[t][k] = NoEntry THEN store[k] ELSE pending[t][k]]
      /\ pending' = [pending EXCEPT ![t] = [k \in Keys |-> NoEntry]]
      /\ status' = [status EXCEPT ![t] = "releasing"]
  BY DEF Commit, Merged
<1>2. /\ status'[t] = "releasing"
      /\ \A k \in Keys : pending'[t][k] = NoEntry
      /\ \A u \in Txs : u # t => status'[u] = status[u] /\ pending'[u] = pending[u]
  BY <1>1 DEF TypeOK
<1>3. ASSUME NEW u \in Txs, u # t, NEW k \in Keys, seen[u][k] # NoEntry, status[u] = "active"
      PROVE  store'[k] = store[k]
  <2>1. k \in acquired[u] BY <1>3 DEF EntriesInv
  <2>2. k \notin acquired[t] BY <1>1, <1>3, <2>1 DEF MutualExclusion
  <2>3. pending[t][k] = NoEntry BY <1>1, <2>2 DEF EntriesInv
  <2> QED BY <1>1, <2>3
<1>4. EntriesInv' BY <1>1, <1>2 DEF EntriesInv
<1>5. RepeatableRead' BY <1>1, <1>2, <1>3 DEF RepeatableRead
<1> QED BY <1>4, <1>5

\* Every step keeps reads repeatable.
LEMMA StoreInvStep == StoreInv /\ [Next]_vars => StoreInv'
<1> SUFFICES ASSUME StoreInv, [Next]_vars PROVE EntriesInv' /\ RepeatableRead'
  BY LocksInvStep DEF StoreInv
<1>0. CASE UNCHANGED vars
  BY <1>0, EntriesQuietStep DEF vars, txVars
<1>1. ASSUME NEW w \in Workers, NEW k \in Keys, NEW a \in Entry, CallHeld(w, k, a)
      PROVE  EntriesInv' /\ RepeatableRead'
  BY <1>1, PerformStep DEF CallHeld
<1>2. ASSUME NEW w \in Workers, NEW k \in Keys, NEW a \in Entry, CallUnheld(w, k, a)
      PROVE  EntriesInv' /\ RepeatableRead'
  BY <1>2, EntriesQuietStep DEF CallUnheld, txVars
<1>3. ASSUME NEW w \in Workers, CallEnded(w) PROVE EntriesInv' /\ RepeatableRead'
  BY <1>3, EntriesQuietStep DEF CallEnded, txVars
<1>4. ASSUME NEW w \in Workers, Acquire(w) \/ LockKey(w) \/ FinishCallEnded(w)
      PROVE  EntriesInv' /\ RepeatableRead'
  BY <1>4, EntriesQuietStep DEF Acquire, FindKeyLock, NewKeyLock, LockKey, FinishCallEnded, txVars
<1>5. ASSUME NEW w \in Workers, FinishCall(w) PROVE EntriesInv' /\ RepeatableRead'
  <2>1. /\ TxOf[w] \in Txs /\ key[w] \in Keys /\ arg[w] \in Entry /\ status[TxOf[w]] = "active"
        /\ acquired' = [acquired EXCEPT ![TxOf[w]] = @ \cup {key[w]}]
        /\ Perform(TxOf[w], key[w], arg[w])
        /\ UNCHANGED <<store, status>>
    BY <1>5 DEF FinishCall, StoreInv, LocksInv, CallsInv, TypeOK
  <2>2. key[w] \in acquired'[TxOf[w]] /\ \A u \in Txs : acquired[u] \subseteq acquired'[u]
    BY <2>1 DEF StoreInv, LocksInv, TypeOK
  <2> QED BY <2>1, <2>2, PerformStep
<1>6. ASSUME NEW w \in Workers, Rollback(w) PROVE EntriesInv' /\ RepeatableRead'
  <2> DEFINE t == TxOf[w]
  <2>1. /\ t \in Txs /\ UNCHANGED <<acquired, seen, store>>
        /\ pending' = [pending EXCEPT ![t] = [k \in Keys |-> NoEntry]]
        /\ status' = [status EXCEPT ![t] = "releasing"]
    BY <1>6 DEF Rollback
  <2>2. /\ status'[t] = "releasing"
        /\ \A k \in Keys : pending'[t][k] = NoEntry
        /\ \A u \in Txs : u # t => status'[u] = status[u] /\ pending'[u] = pending[u]
    BY <2>1 DEF StoreInv, LocksInv, TypeOK
  <2> QED BY <2>1, <2>2 DEF StoreInv, EntriesInv, RepeatableRead
<1>7. ASSUME NEW t \in Txs, ReleaseOne(t) PROVE EntriesInv' /\ RepeatableRead'
  <2>1. /\ status[t] = "releasing" /\ UNCHANGED <<store, pending, seen, status>>
        /\ \A u \in Txs : u # t => acquired'[u] = acquired[u]
    BY <1>7 DEF ReleaseOne, StoreInv, LocksInv, TypeOK
  <2> QED BY <2>1, EntriesQuietStep
<1>8. ASSUME NEW t \in Txs, EndRelease(t) PROVE EntriesInv' /\ RepeatableRead'
  <2>1. /\ status[t] = "releasing" /\ UNCHANGED <<store, pending, seen, acquired>>
        /\ status'[t] = "done" /\ \A u \in Txs : u # t => status'[u] = status[u]
    BY <1>8 DEF EndRelease, StoreInv, LocksInv, TypeOK
  <2> QED BY <2>1, EntriesQuietStep
<1>9. ASSUME NEW k \in DirectKeys, NEW c \in Contents, Direct(k, c)
      PROVE  EntriesInv' /\ RepeatableRead'
  <2>1. /\ UNCHANGED <<pending, seen, acquired, status>>
        /\ \A l \in Keys \ DirectKeys : store'[l] = store[l]
    BY <1>9 DEF Direct, txVars, StoreInv, LocksInv, TypeOK
  <2> QED BY <2>1 DEF StoreInv, EntriesInv, RepeatableRead
<1> QED
  BY <1>0, <1>1, <1>2, <1>3, <1>4, <1>5, <1>6, <1>7, <1>8, <1>9, CommitStep
  DEF Next, Call, Finish, End, Release

-----------------------------------------------------------------------------
(* Theorems *)

\* The invariant of the store holds in every reachable state.
THEOREM StoreCorrect == Spec => []StoreInv
<1>1. Init => StoreInv
  BY LocksInvInit DEF Init, StoreInv, EntriesInv, RepeatableRead
<1> QED BY <1>1, StoreInvStep, PTL DEF Spec

\* Every variable of kv.go keeps its type; in particular no waiters counter
\* becomes negative.
THEOREM TypeCorrect == Spec => []TypeOK
<1>1. StoreInv => TypeOK BY DEF StoreInv, LocksInv
<1> QED BY <1>1, StoreCorrect, PTL

\* acquireKeyLock and releaseKeyLock give a key to one transaction at a time.
THEOREM KeysExclusive == Spec => []MutualExclusion
<1>1. StoreInv => MutualExclusion BY DEF StoreInv, LocksInv
<1> QED BY <1>1, StoreCorrect, PTL

\* keyLock.waiters counts exactly the holders and waiters of the key, and the
\* object is in the map exactly while there are some.
THEOREM WaitersCounted == Spec => []WaitersExact
<1>1. StoreInv => WaitersExact BY DEF StoreInv, LocksInv
<1> QED BY <1>1, StoreCorrect, PTL

\* Nobody waits for or holds a keyLock that releaseKeyLock deleted, so its
\* lookup of the object it has to unlock always succeeds.
THEOREM LocksStayMapped == Spec => []HeldLocks
<1>1. StoreInv => HeldLocks BY DEF StoreInv, LocksInv
<1> QED BY <1>1, StoreCorrect, PTL

\* What Get read from the store does not change under an active transaction,
\* for the keys that no direct operation writes.
THEOREM ReadsRepeatable == Spec => []RepeatableRead
<1>1. StoreInv => RepeatableRead BY DEF StoreInv
<1> QED BY <1>1, StoreCorrect, PTL

=============================================================================
