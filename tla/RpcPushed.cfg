SPECIFICATION Spec
CONSTANTS
    a = a
    b = b
    w1 = w1
    w2 = w2
    Clients = {a, b}
    Ids = {1, 2}
    Calls <- MCTwoCalls
    Faces <- MCFaces
    Workers = {w1}
    NoCall = NoCall
PROPERTIES
    PushedIsProcessed
CHECK_DEADLOCK FALSE
