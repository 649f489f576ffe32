---------------------------- MODULE StaffAccounts ----------------------------
(***************************************************************************)
(* Staff accounts and roles: the calls of ManagementService, query by      *)
(* query.  None of them is a transaction: what a query has read may have   *)
(* changed by the next one, and a call that is cut off stops in between.   *)
(*                                                                         *)
(* A row of staff_users stores its user's permissions beside the roles     *)
(* they come from, and updateUser writes the columns it is not asked to    *)
(* change back as it has read them.  The sockets of the staff pages are    *)
(* closed by a check the gateway runs for each of them once a minute.      *)
(***************************************************************************)
EXTENDS Integers, FiniteSets

CONSTANTS
    Users,      \* staff_users, those to come included
    Owner,      \* the seeded Superadmin
    CustomRoles,\* roles a Superadmin may create
    Permissions,\* permissions a role can grant
    Manage,     \* the one that opens the calls of this module
    Calls,      \* calls that can be in flight at once
    Keep        \* a field that a call leaves out

ASSUME OwnerIsAUser == Owner \in Users
ASSUME ManageIsAPermission == Manage \in Permissions

Superadmin == "SUPERADMIN"

Roles == CustomRoles \cup {Superadmin}

ASSUME KeepIsNoValue ==
    /\ Keep \notin BOOLEAN
    /\ \A roles \in SUBSET Roles : roles # Keep
    /\ \A permissions \in SUBSET Permissions : permissions # Keep

VARIABLES
    defined,    \* rows of staff_roles
    grants,     \* their permissions
    known,      \* rows of staff_users
    user,       \* their columns
    at,         \* the query a call makes next
    job,        \* its arguments and what it has read
    stale,      \* roles whose update was cut off
    online      \* users with a socket of the staff gateway

tables == <<defined, grants, known, user>>
accountVars == <<tables, at, job, stale, online>>

Columns == [roles : SUBSET Roles, permissions : SUBSET Permissions, active : BOOLEAN]

Nobody == [roles |-> {}, permissions |-> {}, active |-> FALSE]

NoJob == [op |-> "none", actor |-> Owner, user |-> Owner, role |-> Superadmin,
          roles |-> Keep, active |-> Keep, permissions |-> Keep,
          row |-> Nobody, left |-> {}, listed |-> [u \in Users |-> {}]]

AccountsTypeOK ==
    /\ defined \in SUBSET Roles
    /\ grants \in [Roles -> SUBSET Permissions]
    /\ known \in SUBSET Users
    /\ user \in [Users -> Columns]
    /\ at \in [Calls -> {"idle", "read", "resolve", "list", "current", "write",
                         "readRole", "currentRole", "writeRole", "listUsers",
                         "resolveNext", "currentNext", "writeNext", "findAssigned", "deleteRole"}]
    /\ \A c \in Calls :
          /\ job[c].left \subseteq Users
          /\ job[c].row \in Columns
          /\ job[c].permissions \in (SUBSET Permissions) \cup {Keep}
    /\ stale \subseteq CustomRoles
    /\ online \subseteq known

-----------------------------------------------------------------------------

Granted(roles) == UNION {grants[r] : r \in roles}

Superadmins == {u \in known : user[u].active /\ Superadmin \in user[u].roles}

Or(field, old) == IF field = Keep THEN old ELSE field

Ended(c) ==
    /\ at' = [at EXCEPT ![c] = "idle"]
    /\ job' = [job EXCEPT ![c] = NoJob]

Goes(c, next, with) ==
    /\ at' = [at EXCEPT ![c] = next]
    /\ job' = [job EXCEPT ![c] = with]

(* StaffSessionGuard and PermissionsGuard, when the call comes in.         *)
MayManage(u) == u \in known /\ user[u].active /\ Manage \in user[u].permissions

Begin(c, actor, first, with) ==
    /\ at[c] = "idle"
    /\ MayManage(actor)
    /\ Goes(c, first, [with EXCEPT !.actor = actor])
    /\ UNCHANGED <<tables, stale, online>>

-----------------------------------------------------------------------------
(* Accounts                                                                *)

BeginCreateUser(c, actor, u, roles) ==
    /\ u \notin known
    /\ \A d \in Calls : job[d].op = "createUser" => job[d].user # u
    /\ Begin(c, actor, "resolve",
             [NoJob EXCEPT !.op = "createUser", !.user = u, !.roles = roles, !.active = TRUE])

(* Also setUserActive, which keeps the roles.                              *)
BeginUpdateUser(c, actor, u, roles, active) ==
    Begin(c, actor, "read",
          [NoJob EXCEPT !.op = "updateUser", !.user = u, !.roles = roles, !.active = active])

(* requireUser.                                                            *)
ReadUser(c) ==
    LET j == job[c] IN
    /\ at[c] = "read"
    /\ IF j.user \notin known
         THEN Ended(c)
         ELSE Goes(c, IF j.roles = Keep THEN "list" ELSE "resolve", [j EXCEPT !.row = user[j.user]])
    /\ UNCHANGED <<tables, stale, online>>

(* Seeded error: a role that is gone grants nothing, and is assigned.      *)
BugUnknown(roles) == FALSE

Unknown(roles) == ~(roles \subseteq defined)

ResolveRoles(c) ==
    LET j == job[c] IN
    /\ at[c] = "resolve"
    /\ IF Unknown(j.roles)
         THEN Ended(c)
         ELSE Goes(c, IF j.op = "createUser" THEN "write" ELSE "list",
                   [j EXCEPT !.permissions = Granted(j.roles)])
    /\ UNCHANGED <<tables, stale, online>>

NextRoles(j) == Or(j.roles, j.row.roles)

NextActive(j) == Or(j.active, j.row.active)

RemainsSuperadmin(j) == NextActive(j) /\ Superadmin \in NextRoles(j)

(* assertNoSelfLockout.                                                    *)
LocksOutSelf(j) == j.user = j.actor /\ ~RemainsSuperadmin(j)

(* Seeded error: the one who is about to go is taken for another one.      *)
BugLastSuperadmin(j) ==
    /\ j.row.active /\ Superadmin \in j.row.roles /\ ~RemainsSuperadmin(j)
    /\ Superadmins = {}

(* assertSuperadminContinuity.                                             *)
LastSuperadmin(j) ==
    /\ j.row.active /\ Superadmin \in j.row.roles /\ ~RemainsSuperadmin(j)
    /\ Cardinality(Superadmins) <= 1

TestContinuity(c) ==
    LET j == job[c] IN
    /\ at[c] = "list"
    /\ IF LocksOutSelf(j) \/ LastSuperadmin(j) THEN Ended(c) ELSE Goes(c, "current", j)
    /\ UNCHANGED <<tables, stale, online>>

(* The repository reads the row again, and writes it.                      *)
ReadCurrent(c) ==
    /\ at[c] = "current"
    /\ Goes(c, "write", [job[c] EXCEPT !.row = user[job[c].user]])
    /\ UNCHANGED <<tables, stale, online>>

Written(j) ==
    user' = [user EXCEPT ![j.user] = [roles |-> NextRoles(j),
                                      permissions |-> Or(j.permissions, j.row.permissions),
                                      active |-> NextActive(j)]]

WriteUser(c) ==
    /\ at[c] = "write"
    /\ Written(job[c])
    /\ known' = known \cup {job[c].user}
    /\ Ended(c)
    /\ UNCHANGED <<defined, grants, stale, online>>

-----------------------------------------------------------------------------
(* Roles                                                                   *)

(* One INSERT, which a role with this code makes fail.                     *)
CreateRole(actor, r, permissions) ==
    /\ MayManage(actor)
    /\ r \notin defined
    /\ defined' = defined \cup {r}
    /\ grants' = [grants EXCEPT ![r] = permissions]
    /\ UNCHANGED <<known, user, at, job, stale, online>>

BeginUpdateRole(c, actor, r, permissions) ==
    Begin(c, actor, "readRole",
          [NoJob EXCEPT !.op = "updateRole", !.role = r, !.permissions = permissions])

BeginDeleteRole(c, actor, r) ==
    Begin(c, actor, "readRole", [NoJob EXCEPT !.op = "deleteRole", !.role = r])

(* Only custom roles get beyond the test for system roles.                 *)
ReadRole(c) ==
    LET j == job[c] IN
    /\ at[c] = "readRole"
    /\ IF j.role \notin defined
         THEN Ended(c)
         ELSE Goes(c, IF j.op = "deleteRole" THEN "findAssigned" ELSE "writeRole", j)
    /\ UNCHANGED <<tables, stale, online>>

WriteRole(c) ==
    LET j == job[c] IN
    /\ at[c] = "writeRole"
    /\ IF j.role \notin defined
         THEN Ended(c) /\ UNCHANGED grants
         ELSE /\ grants' = [grants EXCEPT ![j.role] = j.permissions]
              /\ Goes(c, "listUsers", j)
    /\ UNCHANGED <<defined, known, user, stale, online>>

(* recalculatePermissionsForRole goes through the users it finds ...       *)
ListUsers(c) ==
    LET j == job[c] IN
    /\ at[c] = "listUsers"
    /\ Goes(c, "resolveNext",
            [j EXCEPT !.left = {u \in known : j.role \in user[u].roles},
                      !.listed = [u \in Users |-> user[u].roles]])
    /\ UNCHANGED <<tables, stale, online>>

(* Seeded error: the user gets the permissions of this role alone.         *)
BugRecalculated(j, u) == grants[j.role]

Recalculated(j, u) == Granted(j.listed[u])

(* ... with the roles they had, as these are defined by now, ...           *)
ResolveNext(c, u) ==
    LET j == job[c] IN
    /\ at[c] = "resolveNext"
    /\ u \in j.left
    /\ IF Unknown(j.listed[u])
         THEN Ended(c) /\ stale' = stale \cup {j.role}
         ELSE /\ Goes(c, "currentNext",
                      [j EXCEPT !.user = u, !.permissions = Recalculated(j, u), !.roles = Keep])
              /\ UNCHANGED stale
    /\ UNCHANGED <<tables, online>>

(* ... and writes each of them as updateUser does.                         *)
ReadNext(c) ==
    /\ at[c] = "currentNext"
    /\ Goes(c, "writeNext", [job[c] EXCEPT !.row = user[job[c].user]])
    /\ UNCHANGED <<tables, stale, online>>

WriteNext(c) ==
    LET j == job[c] IN
    /\ at[c] = "writeNext"
    /\ Written(j)
    /\ Goes(c, "resolveNext", [j EXCEPT !.left = @ \ {j.user}])
    /\ UNCHANGED <<defined, grants, known, stale, online>>

EndUpdateRole(c) ==
    /\ at[c] = "resolveNext" /\ job[c].left = {}
    /\ stale' = stale \ {job[c].role}
    /\ Ended(c)
    /\ UNCHANGED <<tables, online>>

FindAssigned(c) ==
    LET j == job[c] IN
    /\ at[c] = "findAssigned"
    /\ IF \E u \in known : j.role \in user[u].roles THEN Ended(c) ELSE Goes(c, "deleteRole", j)
    /\ UNCHANGED <<tables, stale, online>>

DeleteRole(c) ==
    /\ at[c] = "deleteRole"
    /\ defined' = defined \ {job[c].role}
    /\ grants' = [grants EXCEPT ![job[c].role] = {}]
    /\ stale' = stale \ {job[c].role}
    /\ Ended(c)
    /\ UNCHANGED <<known, user, online>>

(* A lost connection or a stopped API process ends a call between two      *)
(* queries.                                                                *)
CutOff(c) ==
    /\ at[c] # "idle"
    /\ Ended(c)
    /\ stale' = IF at[c] \in {"listUsers", "resolveNext", "currentNext", "writeNext"}
                  THEN stale \cup {job[c].role} ELSE stale
    /\ UNCHANGED <<tables, online>>

-----------------------------------------------------------------------------
(* The staff gateway                                                       *)

GoOnline(u) ==
    /\ u \in known \ online /\ user[u].active
    /\ online' = online \cup {u}
    /\ UNCHANGED <<tables, at, job, stale>>

(* Seeded error: the check looks the account up, active or not.            *)
BugRefused(u) == u \notin known

(* getCurrentStaffUser finds active accounts only.                         *)
Refused(u) == u \notin known \/ ~user[u].active

Recheck(u) ==
    /\ u \in online /\ Refused(u)
    /\ online' = online \ {u}
    /\ UNCHANGED <<tables, at, job, stale>>

Leave(u) ==
    /\ u \in online
    /\ online' = online \ {u}
    /\ UNCHANGED <<tables, at, job, stale>>

-----------------------------------------------------------------------------

AccountsInit ==
    /\ defined = {Superadmin}
    /\ grants = [r \in Roles |-> IF r = Superadmin THEN {Manage} ELSE {}]
    /\ known = {Owner}
    /\ user = [u \in Users |-> IF u = Owner
                 THEN [roles |-> {Superadmin}, permissions |-> {Manage}, active |-> TRUE]
                 ELSE Nobody]
    /\ at = [c \in Calls |-> "idle"]
    /\ job = [c \in Calls |-> NoJob]
    /\ stale = {}
    /\ online = {}

Asks(c, actor) ==
    \/ \E u \in Users, roles \in (SUBSET Roles) \ {{}} : BeginCreateUser(c, actor, u, roles)
    \/ \E u \in Users, roles \in ((SUBSET Roles) \ {{}}) \cup {Keep},
          active \in BOOLEAN \cup {Keep} :
          BeginUpdateUser(c, actor, u, roles, active)
    \/ \E r \in CustomRoles :
          \/ \E permissions \in SUBSET Permissions : BeginUpdateRole(c, actor, r, permissions)
          \/ BeginDeleteRole(c, actor, r)

Step(c) ==
    \/ ReadUser(c) \/ ResolveRoles(c) \/ TestContinuity(c) \/ ReadCurrent(c) \/ WriteUser(c)
    \/ ReadRole(c) \/ WriteRole(c) \/ ListUsers(c)
    \/ \E u \in Users : ResolveNext(c, u)
    \/ ReadNext(c) \/ WriteNext(c) \/ EndUpdateRole(c)
    \/ FindAssigned(c) \/ DeleteRole(c)

AccountsNext ==
    \/ \E c \in Calls : \/ \E actor \in Users : Asks(c, actor)
                        \/ Step(c)
                        \/ CutOff(c)
    \/ \E actor \in Users, r \in CustomRoles, permissions \in SUBSET Permissions :
          CreateRole(actor, r, permissions)
    \/ \E u \in Users : GoOnline(u) \/ Recheck(u) \/ Leave(u)

AccountsSpec == AccountsInit /\ [][AccountsNext]_accountVars

-----------------------------------------------------------------------------
(* Properties.  Nothing keeps two Superadmins from working at once, and    *)
(* the code keeps none of the first three when they do: StaffRaces says up *)
(* to where each of them holds.                                            *)

(* No sequence of calls, cut off or not, by Superadmins or by holders of a *)
(* custom role that may manage users, leaves nobody to manage the rest.    *)
SuperadminRemains == Superadmins # {}

(* A role is never deleted under those it is assigned to.                  *)
AssignedRolesExist == \A u \in known : user[u].roles \subseteq defined

(* Between calls the stored permissions are those of the roles, unless the *)
(* update of a role was cut off; doing it again makes up for that.         *)
PermissionsFollowRoles ==
    (\A c \in Calls : at[c] = "idle") =>
        \A u \in known : user[u].roles \cap stale = {} =>
            user[u].permissions = Granted(user[u].roles)

(* Whoever is deactivated and stays so is cut off from the live events.    *)
DeactivatedGoesOffline ==
    \A u \in Users : (<>[](u \in known /\ ~user[u].active)) => <>[](u \notin online)

=============================================================================
