CONSTANTS
    Users = {u1, u2}
    Owner = u1
    CustomRoles = {r1}
    Permissions = {manage}
    Manage = manage
    Calls = {c1, c2}
    Keep = Keep
SPECIFICATION AccountsSpec
INVARIANTS
    SuperadminRemains
