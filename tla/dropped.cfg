SPECIFICATION Spec
CONSTANTS
    p1 = p1  p2 = p2  p3 = p3
    a1 = a1  a2 = a2  a3 = a3
    f1 = f1
    NULL = NULL  Detached = Detached
    Pid = {}
    Initial = {}
    External = {}
    ModuleName = {"m"}
    Module <- OneModule
    Name = {"m:f"}
    MaxVersion = 1
    Provides <- OneFunction
    Call = {a1}
    Target <- AskForIt
    Fab = {f1}
    Origin <- AllLocal
    Offers <- SameOffers
    debug = FALSE
    ListLike = {}
    MaxPipe = 1
INVARIANTS
    GlobalsKnown
CHECK_DEADLOCK FALSE
