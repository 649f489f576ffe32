CONSTANTS
    Rooms = {r1}
    Stays = {s1, s2}
    Names = {n1}
    None = None
    Here = r1
    Tvs = {tv}
    Pages = {}
    MaxCarts = 0
    MaxFaults = 0
SPECIFICATION FairScreensSpec
PROPERTY TvShowsStay
CHECK_DEADLOCK FALSE
