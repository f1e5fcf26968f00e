SPECIFICATION FairSpec
CONSTANTS
    Shell = {serial, smp}
    N = 3
    Byte = 6
    StartFails = TRUE
CHECK_DEADLOCK FALSE
INVARIANTS
    TypeOK
    DrivesWhatItNames
    FaultsOnlyFromEnds
PROPERTY
    AdvertisesAgain
