SPECIFICATION FairSystem
CONSTANTS
    Caller = {c1}
    MainLoop = MainLoop
    Name = {n1}
    Value = {v1}
    NoValue = NoValue
    NULL = NULL
    Handled = {n1}
    SendFaults = {"request", "reply", "entry", "ack"}
    StartGate = TRUE
    ServerRoom = 2
    ClientRoom = 1
CHECK_DEADLOCK FALSE
PROPERTIES
    BeatsForgeNoAck
    StuckForGood
    WalkEndsOrSticks
    BeatsWakeCallers
