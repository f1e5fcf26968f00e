SPECIFICATION FairSpec
CONSTANTS
    Caller = {c1}
    MainLoop = MainLoop
    Name = {n1}
    Value = {v1}
    NoValue = NoValue
    NULL = NULL
    Handled = {n1}
    SendFaults = {}
    StartGate = FALSE
CHECK_DEADLOCK FALSE
PROPERTY
    CallReturns
