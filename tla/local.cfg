SPECIFICATION Spec
CONSTANTS
    p1 = p1  p2 = p2  p3 = p3
    a1 = a1  a2 = a2  a3 = a3
    f1 = f1
    NULL = NULL  Detached = Detached
    Pid = {p1, p2, p3}
    Initial = {p1, p2}
    External = {}
    ModuleName = {"m"}
    Module <- OneModule
    Name = {"m:f"}
    MaxVersion = 1
    Provides <- OneFunction
    Call = {a1, a2}
    Target <- AskForIt
    Fab = {}
    Origin <- AllLocal
    Offers <- NoOffers
    debug = FALSE
    ListLike = {}
    MaxPipe = 1
SYMMETRY LocalSymmetry
INVARIANTS
    TypeOK
    NoDanglingRoute
    BusyHasCall
    TableSound
    ReplyAccounting
    NoExtraInstance
    OneCallPerModule
CHECK_DEADLOCK FALSE
