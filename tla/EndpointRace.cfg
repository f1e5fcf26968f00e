SPECIFICATION Spec
CONSTANTS
    settings = settings
    receive = receive
    save = save
    boot_load = boot_load
    Thread = {main, settings, receive}
    MainThread = main
    Opcode = {save, boot_load}
    Registered = {save, boot_load}
    DataSize = 2
    Overhead = 1
    Sends <- MCSends
    LinkRoom = 1
    ReadRoom = 3
    NULL = NULL
CHECK_DEADLOCK FALSE
INVARIANTS
    TypeOK
    FromConcurrentCalls
    OverrunBySizeOnly
    MainSendsBound
