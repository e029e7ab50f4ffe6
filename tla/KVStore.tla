------------------------------ MODULE KVStore ------------------------------
(***************************************************************************)
(* The in-memory store of database/inmemory/kv.go: transactions that lock    *)
(* every key they touch until they end, and direct operations that bypass    *)
(* the locks.                                                              *)
(*                                                                         *)
(* A transaction may be used by several goroutines (workers); tx.mu is held  *)
(* during an operation, except that ensureLocked releases it while it        *)
(* acquires a key lock.  A keyLock object stays in the map keyLocks while    *)
(* its waiters counter is positive; afterwards the map may get a new object  *)
(* for the same key, so objects have an identity (Locks).                   *)
(***************************************************************************)
EXTENDS Integers, FiniteSets

CONSTANTS
    Txs,        \* transactions, all begun
    Workers,    \* goroutines
    TxOf,       \* the transaction a goroutine works on
    Keys,
    Values,
    Locks,      \* keyLock objects that can be allocated
    DirectKeys, \* the keys the direct operations are used on
    Absent,     \* no value: the key is not in the map
    NoEntry,    \* the transaction has no pending entry for the key
    NoLock,     \* no keyLock object
    NoTx        \* the mutex of a keyLock is free

ASSUME FiniteAssumption == IsFiniteSet(Workers) /\ IsFiniteSet(Txs)
ASSUME TxOfAssumption == TxOf \in [Workers -> Txs]
ASSUME DirectAssumption == DirectKeys \subseteq Keys
ASSUME DistinctAssumption ==
    /\ Absent \notin Values /\ NoEntry \notin Values \cup {Absent}
    /\ NoLock \notin Locks /\ NoTx \notin Txs /\ NoEntry \notin Keys
    /\ Workers \cap Txs = {}

VARIABLES
    store,      \* kv.store
    keyLocks,   \* kv.keyLocks: the object of a key
    waiters,    \* keyLock.waiters of each object
    owner,      \* keyLock.mu of each object: the transaction it was taken for
    pending,    \* tx.pending
    acquired,   \* tx.acquired
    status,     \* tx.done, and "releasing" while releaseAllLocks runs
    pc,         \* where a goroutine is
    key,        \* the key it is acquiring, NoEntry if none
    arg,        \* the entry it writes; NoEntry for a Get
    lock,       \* the keyLock object it has a pointer to
    seen        \* history: what a transaction has read from kv.store

locksVars == <<keyLocks, waiters, owner>>
txVars    == <<pending, acquired, status>>
callVars  == <<pc, key, arg, lock>>
vars      == <<store, locksVars, txVars, callVars, seen>>

Contents == Values \cup {Absent}
Entry    == Contents \cup {NoEntry}

\* NewKVStore and a Begin for every transaction.
Init ==
    /\ store = [k \in Keys |-> Absent]
    /\ keyLocks = [k \in Keys |-> NoLock]
    /\ waiters = [o \in Locks |-> 0]
    /\ owner = [o \in Locks |-> NoTx]
    /\ pending = [t \in Txs |-> [k \in Keys |-> NoEntry]]
    /\ acquired = [t \in Txs |-> {}]
    /\ status = [t \in Txs |-> "active"]
    /\ pc = [w \in Workers |-> "idle"]
    /\ key = [w \in Workers |-> NoEntry]
    /\ arg = [w \in Workers |-> NoEntry]
    /\ lock = [w \in Workers |-> NoLock]
    /\ seen = [t \in Txs |-> [k \in Keys |-> NoEntry]]

-----------------------------------------------------------------------------
(* The body of Set, Get and Remove once the key is locked *)

Perform(t, k, a) ==
    \/ /\ a # NoEntry
       /\ pending' = [pending EXCEPT ![t][k] = a]
       /\ UNCHANGED seen
    \/ /\ a = NoEntry
       /\ seen' = [seen EXCEPT ![t][k] =
                      IF pending[t][k] = NoEntry THEN store[k] ELSE @]
       /\ UNCHANGED pending

\* Set, Get or Remove of a key the transaction has locked already.
CallHeld(w, k, a) ==
    LET t == TxOf[w] IN
    /\ pc[w] = "idle"
    /\ status[t] = "active"
    /\ k \in acquired[t]
    /\ Perform(t, k, a)
    /\ UNCHANGED <<store, locksVars, acquired, status, callVars>>

\* Set, Get or Remove of another key: ensureLocked releases tx.mu.
CallUnheld(w, k, a) ==
    LET t == TxOf[w] IN
    /\ pc[w] = "idle"
    /\ status[t] = "active"
    /\ k \notin acquired[t]
    /\ pc' = [pc EXCEPT ![w] = "acquire"]
    /\ key' = [key EXCEPT ![w] = k]
    /\ arg' = [arg EXCEPT ![w] = a]
    /\ UNCHANGED <<store, locksVars, txVars, lock, seen>>

\* panic("transaction already committed or rolled back")
CallEnded(w) ==
    /\ pc[w] = "idle"
    /\ status[TxOf[w]] = "done"
    /\ pc' = [pc EXCEPT ![w] = "panicked"]
    /\ UNCHANGED <<store, locksVars, txVars, key, arg, lock, seen>>

-----------------------------------------------------------------------------
(* acquireKeyLock *)

\* An object no key and no goroutine refers to.
Unused(o) == (\A k \in Keys : keyLocks[k] # o) /\ (\A w \in Workers : lock[w] # o)

\* The section under keyLocksMu when the map has an object for the key.
FindKeyLock(w) ==
    LET o == keyLocks[key[w]] IN
    /\ pc[w] = "acquire"
    /\ o # NoLock
    /\ waiters' = [waiters EXCEPT ![o] = @ + 1]
    /\ lock' = [lock EXCEPT ![w] = o]
    /\ pc' = [pc EXCEPT ![w] = "wait"]
    /\ UNCHANGED <<store, keyLocks, owner, txVars, key, arg, seen>>

\* The section under keyLocksMu when a new object is made.
NewKeyLock(w, o) ==
    /\ pc[w] = "acquire"
    /\ keyLocks[key[w]] = NoLock
    /\ Unused(o)
    /\ keyLocks' = [keyLocks EXCEPT ![key[w]] = o]
    /\ waiters' = [waiters EXCEPT ![o] = 1]
    /\ owner' = [owner EXCEPT ![o] = NoTx]
    /\ lock' = [lock EXCEPT ![w] = o]
    /\ pc' = [pc EXCEPT ![w] = "wait"]
    /\ UNCHANGED <<store, txVars, key, arg, seen>>

\* Mutant of LockKey: the mutex of the keyLock is not taken.
LockKeyUnchecked(w) ==
    /\ pc[w] = "wait"
    /\ owner' = [owner EXCEPT ![lock[w]] = TxOf[w]]
    /\ pc' = [pc EXCEPT ![w] = "relock"]
    /\ UNCHANGED <<store, keyLocks, waiters, txVars, key, arg, lock, seen>>

\* kl.mu.Lock()
LockKey(w) ==
    /\ pc[w] = "wait"
    /\ owner[lock[w]] = NoTx
    /\ owner' = [owner EXCEPT ![lock[w]] = TxOf[w]]
    /\ pc' = [pc EXCEPT ![w] = "relock"]
    /\ UNCHANGED <<store, keyLocks, waiters, txVars, key, arg, lock, seen>>

\* Mutant of LocksAfterRelease: the object is deleted although others wait.
LocksAfterEagerRelease(k) == [keyLocks EXCEPT ![k] = NoLock]

\* Mutant of LocksAfterRelease: waiters is compared before the decrement.
LocksAfterLateRelease(k) ==
    [keyLocks EXCEPT ![k] = IF waiters[keyLocks[k]] = 0 THEN NoLock ELSE @]

\* The map keyLocks after a release of the lock of k.
LocksAfterRelease(k) ==
    [keyLocks EXCEPT ![k] = IF waiters[keyLocks[k]] = 1 THEN NoLock ELSE @]

\* Mutant of releaseKeyLock: no kl.mu.Unlock().
releaseKeyLockHeld(k) ==
    LET o == keyLocks[k] IN
    /\ o # NoLock
    /\ waiters' = [waiters EXCEPT ![o] = @ - 1]
    /\ keyLocks' = LocksAfterRelease(k)
    /\ UNCHANGED owner

\* releaseKeyLock: the object is looked up in the map again, and is there
\* (HeldLocks).
releaseKeyLock(k) ==
    LET o == keyLocks[k] IN
    /\ o # NoLock
    /\ waiters' = [waiters EXCEPT ![o] = @ - 1]
    /\ owner' = [owner EXCEPT ![o] = NoTx]
    /\ keyLocks' = LocksAfterRelease(k)

\* The rest of ensureLocked after tx.mu was taken again, and of the operation.
FinishCall(w) ==
    LET t == TxOf[w] IN
    /\ pc[w] = "relock"
    /\ status[t] = "active"
    /\ acquired' = [acquired EXCEPT ![t] = @ \cup {key[w]}]
    /\ Perform(t, key[w], arg[w])
    /\ pc' = [pc EXCEPT ![w] = "idle"]
    /\ key' = [key EXCEPT ![w] = NoEntry]
    /\ arg' = [arg EXCEPT ![w] = NoEntry]
    /\ lock' = [lock EXCEPT ![w] = NoLock]
    /\ UNCHANGED <<store, locksVars, status>>

\* The transaction ended while the goroutine waited: the lock is given back.  A
\* Get goes on with the store; a Set or Remove writes to the nil map pending.
FinishCallEnded(w) ==
    /\ pc[w] = "relock"
    /\ status[TxOf[w]] = "done"
    /\ releaseKeyLock(key[w])
    /\ pc' = [pc EXCEPT ![w] = IF arg[w] = NoEntry THEN "idle" ELSE "panicked"]
    /\ key' = [key EXCEPT ![w] = NoEntry]
    /\ arg' = [arg EXCEPT ![w] = NoEntry]
    /\ lock' = [lock EXCEPT ![w] = NoLock]
    /\ UNCHANGED <<store, txVars, seen>>

-----------------------------------------------------------------------------
(* Commit and Rollback *)

\* Mutant of Merged: every entry is copied, set or not.
MergedBlindly(t) == pending[t]

\* The store after the loop of Commit.
Merged(t) == [k \in Keys |-> IF pending[t][k] = NoEntry THEN store[k] ELSE pending[t][k]]

Commit(w) ==
    LET t == TxOf[w] IN
    /\ pc[w] = "idle"
    /\ status[t] = "active"
    /\ store' = Merged(t)
    /\ pending' = [pending EXCEPT ![t] = [k \in Keys |-> NoEntry]]
    /\ status' = [status EXCEPT ![t] = "releasing"]
    /\ UNCHANGED <<locksVars, acquired, callVars, seen>>

Rollback(w) ==
    LET t == TxOf[w] IN
    /\ pc[w] = "idle"
    /\ status[t] = "active"
    /\ pending' = [pending EXCEPT ![t] = [k \in Keys |-> NoEntry]]
    /\ status' = [status EXCEPT ![t] = "releasing"]
    /\ UNCHANGED <<store, locksVars, acquired, callVars, seen>>

\* One round of the loop of releaseAllLocks, in the map's order.
ReleaseOne(t) ==
    /\ status[t] = "releasing"
    /\ \E k \in acquired[t] :
          /\ releaseKeyLock(k)
          /\ acquired' = [acquired EXCEPT ![t] = @ \ {k}]
    /\ UNCHANGED <<store, pending, status, callVars, seen>>

\* tx.acquired = nil; the deferred tx.mu.Unlock()
EndRelease(t) ==
    /\ status[t] = "releasing"
    /\ acquired[t] = {}
    /\ status' = [status EXCEPT ![t] = "done"]
    /\ UNCHANGED <<store, locksVars, pending, acquired, callVars, seen>>

-----------------------------------------------------------------------------

\* kv.Set and kv.Remove outside of transactions.
Direct(k, c) ==
    /\ store' = [store EXCEPT ![k] = c]
    /\ UNCHANGED <<locksVars, txVars, callVars, seen>>

Call(w) ==
    \E k \in Keys, a \in Entry : CallHeld(w, k, a) \/ CallUnheld(w, k, a)

Acquire(w) == FindKeyLock(w) \/ \E o \in Locks : NewKeyLock(w, o)

Finish(w) == FinishCall(w) \/ FinishCallEnded(w)

End(w) == Commit(w) \/ Rollback(w)

Release(t) == ReleaseOne(t) \/ EndRelease(t)

Next ==
    \/ \E w \in Workers :
          Call(w) \/ CallEnded(w) \/ Acquire(w) \/ LockKey(w) \/ Finish(w) \/ End(w)
    \/ \E t \in Txs : Release(t)
    \/ \E k \in DirectKeys, c \in Contents : Direct(k, c)

Spec == Init /\ [][Next]_vars

\* Goroutines that can run do run, Go's mutexes are handed to waiters in turn
\* (starvation mode), and callers end their transactions, as the deferred
\* Rollback of inbox.go does.
FairSpec ==
    /\ Spec
    /\ \A w \in Workers :
          /\ WF_vars(Acquire(w)) /\ SF_vars(LockKey(w)) /\ WF_vars(Finish(w))
          /\ WF_vars(End(w))
    /\ \A t \in Txs : WF_vars(Release(t))

-----------------------------------------------------------------------------
(* Properties *)

\* Every variable keeps to the type of the code's field.
TypeOK ==
    /\ store \in [Keys -> Contents]
    /\ keyLocks \in [Keys -> Locks \cup {NoLock}]
    /\ waiters \in [Locks -> Nat]
    /\ owner \in [Locks -> Txs \cup {NoTx}]
    /\ pending \in [Txs -> [Keys -> Entry]]
    /\ acquired \in [Txs -> SUBSET Keys]
    /\ status \in [Txs -> {"active", "releasing", "done"}]
    /\ pc \in [Workers -> {"idle", "acquire", "wait", "relock", "panicked"}]
    /\ key \in [Workers -> Keys \cup {NoEntry}]
    /\ arg \in [Workers -> Entry]
    /\ lock \in [Workers -> Locks \cup {NoLock}]
    /\ seen \in [Txs -> [Keys -> Entry]]

\* Two transactions never hold the same key: not even when its keyLock object
\* was removed from the map and made anew.
MutualExclusion ==
    \A t, u \in Txs : t # u => acquired[t] \cap acquired[u] = {}

\* Those who use the lock of key k: goroutines with a pointer to its object and
\* transactions that hold it.
UsersOf(k) ==
    {w \in Workers : pc[w] \in {"wait", "relock"} /\ key[w] = k}
        \cup {t \in Txs : k \in acquired[t]}

\* waiters counts "how many transactions hold or wait for this lock" exactly,
\* and the map has an object for exactly the keys somebody uses, so none is
\* removed too early and none is left behind.
WaitersExact ==
    \A k \in Keys :
        IF keyLocks[k] = NoLock THEN UsersOf(k) = {}
        ELSE waiters[keyLocks[k]] = Cardinality(UsersOf(k)) /\ UsersOf(k) # {}

\* Nobody waits at or holds a keyLock object that is no longer in the map.
HeldLocks ==
    /\ \A w \in Workers :
          pc[w] \in {"wait", "relock"} => keyLocks[key[w]] = lock[w]
    /\ \A t \in Txs : \A k \in acquired[t] :
          keyLocks[k] # NoLock /\ owner[keyLocks[k]] = t

\* What a transaction has read from the store stays as it was until the
\* transaction ends ("the lock on the key is ours, nobody will change it").
LockedKeysStable ==
    \A t \in Txs, k \in Keys :
        status[t] = "active" /\ seen[t][k] # NoEntry => store[k] = seen[t][k]

\* The same for the keys that direct operations leave alone: no lost update
\* between transactions.
RepeatableRead ==
    \A t \in Txs, k \in Keys \ DirectKeys :
        status[t] = "active" /\ seen[t][k] # NoEntry => store[k] = seen[t][k]

\* With one key, every operation that waits for the lock gets it in the end.
WaitersServed == \A w \in Workers : pc[w] = "wait" ~> pc[w] # "wait"

=============================================================================
