SPECIFICATION Spec
CONSTANTS
    Systems = {"synchronous", "asynchronous", "lower epoch"}
    Procs = {1, 2, 3}
    Observers = {1, 2}
    SyncCrashes = 2
    MaxCrashes = 1
    StableDelay = 2
    None = None
INVARIANTS
    StrongAccuracy
PROPERTIES
    EventualLeader
CHECK_DEADLOCK FALSE
