SPECIFICATION Spec
CONSTANTS
    p1 = p1  p2 = p2  p3 = p3
    a1 = a1  a2 = a2  a3 = a3
    f1 = f1
    NULL = NULL  Detached = Detached
    Pid = {p1, p2}
    Initial = {}
    External = {p1, p2}
    ModuleName = {"m", "z"}
    Module <- TwoModules
    Name = {"m:f", "r:g", "z:h"}
    MaxVersion = 1
    Provides <- VersionZero
    Call = {a1, a2, a3}
    Target <- MixedTarget
    Fab = {f1}
    Origin <- MixedOrigin
    Offers <- MixedOffers
    debug = TRUE
    ListLike = {"m", f1}
    MaxPipe = 0
INVARIANTS
    AtMostOneReply
    ForeignCallsStay
PROPERTIES
    ImplementsCallService
CHECK_DEADLOCK FALSE
