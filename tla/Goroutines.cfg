SPECIFICATION MCSpec
CONSTANTS
    Events = {"decided", "other"}
    QueueCap = 2
    MaxEvents = 4
    t1 = t1  t2 = t2  w1 = w1  w2 = w2  w3 = w3
    k1 = k1  v1 = v1  o1 = o1
    Absent = Absent  NoEntry = NoEntry  NoLock = NoLock  NoTx = NoTx
INVARIANTS
    TypeOK
    AtMostOneOutcome
    AbortReportsAllEvents
    NoSendOnClosed
PROPERTIES
    AbortCompletes
    WaitersServed
CHECK_DEADLOCK FALSE
