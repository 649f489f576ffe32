CONSTANTS
    MaxVersion = 2
    Mandatory = {}
    Size = 2
    MaxTries = 2
    MaxFaults = 3
SPECIFICATION FairUpdateSpec
PROPERTIES
    OfferedIsVerified
    RecordIsRepaired
    OnlyVerifiedInstalled
    PutOffStaysAway
    UpdateGetsPrepared
