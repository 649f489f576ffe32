----------------------------- MODULE RoomStays -----------------------------
(***************************************************************************)
(* Who stays in which room, as the reception sees it: a guest is checked   *)
(* in, the name is edited, the guest is checked out, each in one step.     *)
(*                                                                         *)
(* A stay is a row of guest_room_assignments; it has a name once the guest *)
(* has arrived, and keeps it when the guest has left.  This is what        *)
(* RoomAssignment promises, and what the modules of the guests' and the    *)
(* staff's screens are built on.                                           *)
(***************************************************************************)
EXTENDS Integers, FiniteSets

CONSTANTS
    Rooms,      \* hotel_rooms
    Stays,      \* guest_room_assignments, those to come included
    Names,      \* names of guests
    None        \* no stay, no name

ASSUME NoneIsNobody == None \notin Stays /\ None \notin Names

VARIABLES
    current,    \* the stay of a room, or None
    names       \* the name of a stay, None before the guest arrives

stayVars == <<current, names>>

StayTypeOK ==
    /\ current \in [Rooms -> Stays \cup {None}]
    /\ names \in [Stays -> Names \cup {None}]
    /\ \A r \in Rooms : current[r] # None => names[current[r]] # None

(* What a screen shows of a room.                                          *)
Views == {view \in [stay : Stays \cup {None}, name : Names \cup {None}] :
             view.stay # None => view.name # None}

Vacant == [stay |-> None, name |-> None]

ViewOf(r) == IF current[r] = None THEN Vacant
             ELSE [stay |-> current[r], name |-> names[current[r]]]

StayInit ==
    /\ current = [r \in Rooms |-> None]
    /\ names = [s \in Stays |-> None]

CheckIn(r, s, n) ==
    /\ current[r] = None
    /\ names[s] = None
    /\ current' = [current EXCEPT ![r] = s]
    /\ names' = [names EXCEPT ![s] = n]

EditGuest(r, n) ==
    /\ current[r] # None
    /\ names' = [names EXCEPT ![current[r]] = n]
    /\ UNCHANGED current

CheckOut(r) ==
    /\ current[r] # None
    /\ current' = [current EXCEPT ![r] = None]
    /\ UNCHANGED names

StayNext ==
    \E r \in Rooms :
        \/ \E s \in Stays, n \in Names : CheckIn(r, s, n)
        \/ \E n \in Names : EditGuest(r, n)
        \/ CheckOut(r)

StaySpec == StayInit /\ [][StayNext]_stayVars
=============================================================================
