CONSTANTS
    None = None
    Tvs = {tv1, tv2}
    Rooms = {r1, r2}
    Devices = {1, 2}
    Calls = {c1, c2}
    MaxSecrets = 2
SPECIFICATION TvSpec
SYMMETRY Symmetry
INVARIANTS
    OneTvPerRoom
    RoomAsConfirmed
PROPERTY RetiredStaysRetired
