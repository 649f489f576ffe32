CONSTANTS
    Rooms = {r1, r2}
    Tokens = {t1, t2, t3, t4}
    None = None
    Calls = {c1, c2}
SPECIFICATION FairQrSpec
INVARIANTS
    OneCodePerRoom
PROPERTIES
    ImplementsTokens
    EveryCallEnds
