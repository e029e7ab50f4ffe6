SPECIFICATION Spec
CONSTANTS
    Events = {"decided", "other"}
    QueueCap = 2
    MaxEvents = 4
PROPERTIES
    AbortReturns
CHECK_DEADLOCK FALSE
