SPECIFICATION Spec
CONSTANTS
    a = a
    b = b
    w1 = w1
    w2 = w2
    Clients = {a, b}
    Ids = {1, 2}
    Calls <- MCCalls
    Faces <- MCFaces
    Workers = {w1, w2}
    NoCall = NoCall
INVARIANTS
    VerdictIsOfOwnImage
CHECK_DEADLOCK FALSE
