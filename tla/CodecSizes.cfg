SPECIFICATION Spec
CONSTANTS
    Name = {"group", "last", "over", "wrap"}
    NameLength <- MCNameLength
    ValueSize = {1, 255, 256, 300}
    MaxSize = {0, 11, 12, 255}
    PlainSize = {16, 488, 496, 504, 512}
    Byte = 256
    DataSize = 512
    Overhead = 4
    ReadRoom = 512
    LoadResponse = 16
CHECK_DEADLOCK FALSE
INVARIANTS
    LoadsExactly
    EncryptsExactly
    Answered
PROPERTIES
    SavesExactly
    WalksExactly
