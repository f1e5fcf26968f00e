SPECIFICATION SystemSpec
CONSTANTS
    Caller = {c1}
    MainLoop = MainLoop
    Name = {n1}
    Value = {v1}
    NoValue = NoValue
    NULL = NULL
    Handled = {n1}
    SendFaults = {"request", "reply", "entry", "ack"}
    StartGate = FALSE
    ServerRoom = 2
    ClientRoom = 2
CHECK_DEADLOCK FALSE
INVARIANT
    ReturnsOwnAnswer
