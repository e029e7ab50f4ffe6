SPECIFICATION Spec
CONSTANTS
    t1 = t1
    t2 = t2
    w1 = w1
    w2 = w2
    w3 = w3
    Txs = {t1, t2}
    Workers = {w1, w2, w3}
    TxOf <- MCTxOf
    Keys = {k1}
    Values = {v1}
    Locks = {o1}
    DirectKeys = {k1}
    Absent = Absent
    NoEntry = NoEntry
    NoLock = NoLock
    NoTx = NoTx
INVARIANTS
    LockedKeysStable
CHECK_DEADLOCK FALSE
