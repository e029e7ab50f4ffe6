---------------------------- MODULE MCGoroutines ----------------------------
(***************************************************************************)
(* Two places where goroutines wait for one another, instantiated for TLC:   *)
(* the end of an epoch (EpochLifecycle) and the key locks of the store       *)
(* (KVStore, one key, two goroutines in a transaction and one in another).    *)
(* The variable system says which of them a behaviour is about.              *)
(***************************************************************************)
EXTENDS EpochLifecycle, TLC

CONSTANTS t1, t2, w1, w2, w3, k1, v1, o1, Absent, NoEntry, NoLock, NoTx

VARIABLES
    system,
    store, keyLocks, waiters, owner, pending, acquired, status, pc, key, arg, lock, seen

storeVars == <<store, keyLocks, waiters, owner, pending, acquired, status, pc, key, arg, lock,
               seen>>
mcVars == <<system, vars, storeVars>>

KV == INSTANCE KVStore WITH
    Txs <- {t1, t2}, Workers <- {w1, w2, w3}, TxOf <- (w1 :> t1 @@ w2 :> t1 @@ w3 :> t2),
    Keys <- {k1}, Values <- {v1}, Locks <- {o1}, DirectKeys <- {k1}

MCInit == system \in {"epoch", "store"} /\ Init /\ KV!Init

InEpoch(A) == system = "epoch" /\ A /\ UNCHANGED <<system, storeVars>>
InStore(A) == system = "store" /\ A /\ UNCHANGED <<system, vars>>

MCNext == InEpoch(Next) \/ InStore(KV!Next)

\* The fairness of EpochLifecycle and of KVStore.
MCSpec ==
    /\ MCInit /\ [][MCNext]_mcVars
    /\ WF_mcVars(InEpoch(Background)) /\ WF_mcVars(InEpoch(EventLoop))
    /\ WF_mcVars(InEpoch(WaitFinish))
    /\ \A w \in {w1, w2, w3} :
          /\ WF_mcVars(InStore(KV!Acquire(w))) /\ SF_mcVars(InStore(KV!LockKey(w)))
          /\ WF_mcVars(InStore(KV!Finish(w))) /\ WF_mcVars(InStore(KV!End(w)))
    /\ \A t \in {t1, t2} : WF_mcVars(InStore(KV!Release(t)))

\* With one key, every operation that waits for the lock gets it in the end
\* (ensureLocked, releaseKeyLock).
WaitersServed == KV!WaitersServed

=============================================================================
