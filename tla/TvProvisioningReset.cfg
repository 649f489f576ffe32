CONSTANTS
    None = None
    Tvs = {tv1}
    Rooms = {r1}
    Devices = {1}
    Calls = {c1}
    MaxSecrets = 2
SPECIFICATION FairTvSpec
PROPERTY ResetTvLeavesRoom
