SPECIFICATION Spec
CONSTANTS
    Caller = {c1, c2}
    MainLoop = MainLoop
    Name = {n1, n2}
    Value = {v1, v2}
    NoValue = NoValue
    NULL = NULL
    Handled = {n1}
    SendFaults = {"request", "reply", "entry", "ack"}
    StartGate = FALSE
SYMMETRY Symmetry
CHECK_DEADLOCK FALSE
INVARIANTS
    TypeOK
    CallExclusion
    ReplyToken
    LoadTarget
    BootToken
    LinkBound
    ReturnsOwnAnswer
PROPERTIES
    BootComplete
    ImplementsRemoteCall
