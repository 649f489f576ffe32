CONSTANTS
    MaxVersion = 3
    Mandatory = {3}
    Size = 2
    MaxTries = 2
    MaxFaults = 2
SPECIFICATION UpdateSpec
PROPERTIES
    OfferedIsVerified
    OnlyVerifiedInstalled
    PutOffStaysAway
