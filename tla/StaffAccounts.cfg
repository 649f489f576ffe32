CONSTANTS
    Users = {u1, u2}
    Owner = u1
    CustomRoles = {r1, r2}
    Permissions = {manage}
    Manage = manage
    Calls = {c1}
    Keep = Keep
SPECIFICATION FairRacesSpec
INVARIANTS
    LastSuperadminStays
    NoRoleVanishes
    PermissionsAreCurrent
PROPERTIES
    DeactivatedGoesOffline
