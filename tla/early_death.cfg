SPECIFICATION FairSpec
CONSTANTS
    p1 = p1  p2 = p2  p3 = p3
    a1 = a1  a2 = a2  a3 = a3
    f1 = f1
    NULL = NULL  Detached = Detached
    Pid = {p1, p2}
    Initial = {p1}
    External = {}
    ModuleName = {"m"}
    Module <- OneModule
    Name = {"m:f"}
    MaxVersion = 1
    Provides <- OneFunction
    Call = {}
    Target <- AskForIt
    Fab = {}
    Origin <- AllLocal
    Offers <- NoOffers
    debug = FALSE
    ListLike = {}
    MaxPipe = 1
PROPERTIES
    EarlyDeathNoticed
CHECK_DEADLOCK FALSE
