SPECIFICATION Spec
CONSTANTS
    Crypto = Crypto
    MacGroup1 = MacGroup1
    SecureElement = SecureElement
    Group = {Crypto, MacGroup1, SecureElement}
    Wide = {SecureElement}
    Descriptor <- MCDescriptor
    MaxVersion = 2
    GetFails = TRUE
INVARIANTS
    TypeOK
    OnlyFailuresLag
PROPERTY NeverRegresses
