\* No process is faulty; the sender broadcasts a value that can be decoded or not.
SPECIFICATION Spec
CONSTANTS
    a = a  b = b  c = c  v = v  w = w
    Correct = {a, b, c}
    Byzantine = {}
    Faults = 0
    Sender = a
    Originator = a
    Values = {v, w}
    Undecodable = {w}
    Readers = 1
    None = None
    Protocols = {"echo", "signed", "double echo", "lazy", "eager", "channel"}
INVARIANTS
    
    NoMessageLost
    ReadyMatchesInstance
    NumberedInOrder

    
    
CHECK_DEADLOCK FALSE
