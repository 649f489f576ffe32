CONSTANTS
    s1 = s1  k1 = k1  k2 = k2
    Cafe = Cafe  Butik = Butik
    None = None
    Variants = {1}
    Keys = {k1, k2}
    Lines <- AllLines
    MaxStock = 2
    Deltas <- Corrections
    Stays = {s1}
    Units = {Butik}
    Submissions <- TwoCarts
    Handlers = {h1, h2, h3}
    SweepLimit = 1
    MaxAttempts = 1
    MaxFaults = 1
    MaxCrashes = 1
SPECIFICATION FairSpec
INVARIANTS
    LedgerAgrees
    ClaimsExclusive
    OpenOrderHoldsReservation
    RestReconciles
    FailedDeliveryIsReverted
PROPERTIES
    NoOrderWaitsForever
    CancelledGivesBack
