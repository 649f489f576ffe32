SPECIFICATION FairSpec
CONSTANTS
    Coming <- TwoAndOne
    PageSize = 1
    MaxOthers = 1
    MaxFaults = 2
INVARIANTS
    QuietDashboardIsCurrent
PROPERTIES
    EveryOrderGetsDone
