SPECIFICATION FairSpec
CONSTANTS
    Caller = {c1, c2}
    MainLoop = MainLoop
    Name = {n1, n2}
    Value = {v1}
    NoValue = NoValue
    NULL = NULL
    Handled = {n1}
    SendFaults = {"request", "entry"}
    StartGate = TRUE
INVARIANT
    BootToken
PROPERTIES
    CallReturns
    BootEnds
