CONSTANTS
    s1 = s1  k1 = k1  k2 = k2
    Cafe = Cafe  Butik = Butik
    None = None
    Variants = {1, 2}
    Keys = {k1, k2}
    Lines <- AllLines
    MaxStock = 2
    Deltas <- NoCorrections
    Stays = {s1}
    Units = {Butik, Cafe}
    Submissions <- MixedCarts
    Handlers = {h1, h2}
    SweepLimit = 2
    MaxAttempts = 2
    MaxFaults = 0
    MaxCrashes = 1
SPECIFICATION Spec
SYMMETRY HandlerSymmetry
INVARIANTS
    FulfilledStaysCompleted
    AcceptedIsStored
