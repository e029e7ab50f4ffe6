\* Three correct processes and a faulty one, which is the sender.
SPECIFICATION Spec
CONSTANTS
    a = a  b = b  c = c  z = z  v = v  w = w
    Correct = {a, b, c}
    Byzantine = {z}
    Faults = 1
    Sender = z
    Originator = a
    Values = {v, w}
    Undecodable = {}
    Readers = 1
    None = None
    Protocols = {"echo", "signed", "double echo"}
SYMMETRY Symmetry
INVARIANTS
    QuorumsIntersect
    ReadysAgree
 
CHECK_DEADLOCK FALSE
