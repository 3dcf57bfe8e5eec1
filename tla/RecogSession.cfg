SPECIFICATION Spec
CONSTANTS
    r1 = r1
    r2 = r2
    r3 = r3
    Requests = {r1, r2, r3}
    NoRequest = NoRequest
    Feature <- MCFeature
    Required <- MCRequired
    StartTimeout = 1
    AskTimeout = 1
    StepTimeout = 2
INVARIANTS
    TypeOK
    AnswerIsTheVerdict
    OneImageAtATime
    FeaturesMatchAnswers
PROPERTIES
    NeverAbortedInExamination
    KeepsPromise
    ExaminedIsAnswered
    SessionEnds
