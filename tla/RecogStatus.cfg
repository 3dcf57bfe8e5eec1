SPECIFICATION Spec
CONSTANTS
    r1 = r1
    r2 = r2
    s1 = s1
    s2 = s2
    Requests = {r1, r2}
    Sessions = {s1}
    NoRequest = NoRequest
    NoSession = NoSession
    Feature <- MCFeature
    Required <- FaceOnly
PROPERTIES
    EveryImageGetsAStatus
