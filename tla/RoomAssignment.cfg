CONSTANTS
    Rooms = {r1, r2}
    Stays = {s1, s2}
    Names = {n1, n2}
    None = None
    Calls = {c1, c2}
SPECIFICATION FairRoomSpec
INVARIANTS
    OneStayPerRoom
PROPERTIES
    ImplementsStays
    EveryCallEnds
    ChangesAreAnnounced
