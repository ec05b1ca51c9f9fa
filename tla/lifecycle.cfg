SPECIFICATION Spec
CONSTANTS
    p1 = p1  p2 = p2  p3 = p3
    f1 = f1
    NULL = NULL  Detached = Detached
    Pid = {p1, p2}
    Initial = {p1}
    External = {}
    ModuleName = {"m"}
    Module <- OneModule
    Name = {}
    MaxVersion = 1
    Provides <- NoIfaces
    Call = {}
    Target <- NoCalls
    Fab = {f1}
    Origin <- NoCalls
    Offers <- NoOffers
    debug = FALSE
    ListLike = {}
    MaxPipe = 2
    MaxFiles = 3
    LogLife <- SomeLives
    StopWait = 1
    KillWait = 1
    RestartTime = 1
    ScriptWait = 1
    MaxSignals = 2
VIEW WithoutToFabric
INVARIANTS
    PidFileHeld
    KillallIsLast
    AllKilledAtExit
    AnnouncedWhenReady
    RollOrder
