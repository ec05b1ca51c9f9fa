SPECIFICATION Spec
CONSTANTS
    Iface <- MCIface
    Local = {"p", "q"}
    Global = {"f"}
INVARIANTS ListTypeOK VersionOrder
PROPERTY ImplementsTable
CHECK_DEADLOCK FALSE
