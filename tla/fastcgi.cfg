SPECIFICATION FairSpec
CONSTANTS
    r1 = r1  r2 = r2
    Request = {r1, r2}
    Stray = stray
    MaxInbox = 1
    Shorter <- SomeShorter
    Parameters <- SomeParameters
    Answers <- SomeAnswers
INVARIANTS
    FastCGITypeOK
    FreedOnce
    CallRead
PROPERTIES
    RequestFinished
CHECK_DEADLOCK FALSE
