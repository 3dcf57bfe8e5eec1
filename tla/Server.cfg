SPECIFICATION Spec
CONSTANTS
    Calls = {k1, k2}
    Tokens = {"t1", "t2"}
    CustomerIds = {"c1", "c2"}
    Initially = {"c1"}
    Kinds <- MCKinds
    NoToken = NoToken
    NoId = NoId
    Fixtures = {f1, f2, f3}
    Nobody = Nobody
    main = main
    sub = sub
    broken = broken
    Inputs = {main, sub, broken}
    Resources = {main, sub}
    Names = {"a", "b"}
    NoName = "no name"
    Rows = {"p", "q"}
    MaxDepth = 2
    Runs <- MCRuns
INVARIANTS
    TypeOK
    WrittenByItself
    AnswerTellsTheEffect
    LoggedOutIsRejected
    OneRootUser
    RunIsAsWritten
PROPERTIES
    EveryCallIsAnswered
\* Calls that are answered, fixtures and reports are done with.
CHECK_DEADLOCK FALSE
