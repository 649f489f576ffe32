CONSTANTS
    s1 = s1  k1 = k1  k2 = k2
    Cafe = Cafe  Butik = Butik
    None = None
    Variants = {1}
    Keys = {k1, k2}
    Lines <- AllLines
    MaxStock = 1
    Deltas <- NoCorrections
    Stays = {s1}
    Units = {Butik}
    Submissions <- OneCart
    Handlers = {h1}
    SweepLimit = 1
    MaxAttempts = 2
    MaxFaults = 1
    MaxCrashes = 0
SPECIFICATION Spec
INVARIANT OpenOrderHoldsReservation
