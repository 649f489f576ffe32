----------------------------- MODULE StaffRaces -----------------------------
(***************************************************************************)
(* StaffAccounts with a memory: which calls were overtaken by the write of *)
(* another call while they were in flight, and whether one that was has    *)
(* gone on to write.  Nothing in the code serialises the calls, so this    *)
(* does happen; the two history variables restrict no behaviour.  They let *)
(* the properties say what the tests of the calls are worth when several   *)
(* Superadmins work at once: all of it, up to the first such write.        *)
(***************************************************************************)
EXTENDS StaffAccounts

VARIABLES
    overtaken,  \* calls in flight since whose beginning another one has written
    raced       \* one of them has written on what it had read before

racesVars == <<accountVars, overtaken, raced>>

(* The creation of a role is one query; it overtakes nobody, as no call    *)
(* can have read of the role it adds.                                      *)
Writes(c) == WriteUser(c) \/ WriteRole(c) \/ WriteNext(c) \/ DeleteRole(c)

Overtaken ==
    overtaken' = {d \in Calls : /\ at'[d] # "idle"
                                /\ d \in overtaken \/ \E c \in Calls \ {d} : Writes(c)}

(* The end of an update counts: from then on its role is taken for done.   *)
Raced == raced' = (raced \/ \E c \in overtaken : Writes(c) \/ EndUpdateRole(c))

RacesInit == AccountsInit /\ overtaken = {} /\ raced = FALSE

RacesNext == AccountsNext /\ Overtaken /\ Raced

RacesSpec == RacesInit /\ [][RacesNext]_racesVars

(* The timer of a socket fires again and again.                            *)
FairRacesSpec == RacesSpec /\ \A u \in Users : WF_accountVars(Recheck(u))

-----------------------------------------------------------------------------

RacesTypeOK == AccountsTypeOK /\ overtaken \in SUBSET Calls /\ raced \in BOOLEAN

(* However many calls interleave and wherever they are cut off: only a     *)
(* call that was overtaken by the write of another one can leave nobody to *)
(* manage the rest, ...                                                    *)
LastSuperadminStays == ~raced => SuperadminRemains

(* ... delete a role that somebody has, or assign one that is gone, ...    *)
NoRoleVanishes == ~raced => AssignedRolesExist

(* ... or make stored permissions differ from those of the roles without   *)
(* being cut off in between.                                               *)
PermissionsAreCurrent == ~raced => PermissionsFollowRoles

=============================================================================
