CONSTANTS
    Rooms = {r1}
    Stays = {s1, s2}
    Names = {n1, n2}
    None = None
    Here = r1
    Tvs = {tv}
    Pages = {page}
    Desks = {desk}
    MaxChanges = 3
    MaxDeskChanges = 2
    MaxCarts = 2
    MaxFaults = 1
    MaxLost = 1
SPECIFICATION FairHotelSpec
INVARIANTS
    NoCartTwice
PROPERTIES
    CartStaysWithGuest
    NobodyWaitsForever
    LatestReadWins
    DesksCatchUp
CHECK_DEADLOCK FALSE
