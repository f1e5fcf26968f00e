SPECIFICATION FairSpec
CONSTANTS
    Caller = {c1, c2}
    Key = {k1, k2}
    NoKey = NoKey
    NULL = NULL
    KeySlots = 2
    HeapBlocks = 1
    SendFaults = {"request", "reply"}
CHECK_DEADLOCK FALSE
INVARIANTS
    TypeOK
    OwnKey
    NoKeyLeft
PROPERTY
    ImplementsRemoteCall
    CallReturns
