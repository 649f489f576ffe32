--------------------------- MODULE RoomAssignment ---------------------------
(***************************************************************************)
(* The reception's calls statement by statement: assignGuest,              *)
(* updateGuestAssignment and checkoutGuestAssignment of                    *)
(* PostgresReceptionistRepository, with the row locks their SELECT ... FOR *)
(* UPDATE takes and the event the service publishes after the COMMIT.      *)
(*                                                                         *)
(* The unique index on the active stay of a room is left out: that a room  *)
(* has one rests on the locks alone.                                       *)
(***************************************************************************)
EXTENDS Integers, FiniteSets

CONSTANTS
    Rooms,      \* hotel_rooms
    Stays,      \* guest_room_assignments, those to come included
    Names,      \* names of guests
    None,       \* no stay, room or name
    Calls       \* calls of the API that can be in flight at once

ASSUME NoneIsNothing == None \notin Rooms \cup Stays \cup Names
ASSUME RoomsAreNoStays == Rooms \cap Stays = {}

VARIABLES
    roomOf,      \* columns of guest_room_assignments
    nameOf,
    status,      \* "free": not inserted yet
    at,          \* the statement a call executes next
    job,         \* its arguments
    locks,       \* the rows its transaction holds
    unannounced, \* rooms changed since an event about them was published
    cut          \* a call has been cut off by a lost connection or a restart

rowVars == <<roomOf, nameOf, status>>
roomVars == <<rowVars, at, job, locks, unannounced, cut>>

NoJob == [op |-> "none", room |-> None, stay |-> None, name |-> None]

Job == [op   : {"assign", "update", "checkout"},
        room : Rooms,
        stay : Stays,
        name : Names \cup {None}]

RoomTypeOK ==
    /\ roomOf \in [Stays -> Rooms \cup {None}]
    /\ nameOf \in [Stays -> Names \cup {None}]
    /\ status \in [Stays -> {"free", "ACTIVE", "CHECKED_OUT"}]
    /\ at \in [Calls -> {"idle", "room", "active", "rows", "write", "publish"}]
    /\ job \in [Calls -> Job \cup {NoJob}]
    /\ locks \in [Calls -> SUBSET (Rooms \cup Stays)]
    /\ unannounced \subseteq Rooms
    /\ cut \in BOOLEAN
    /\ \A c \in Calls : at[c] = "idle" => locks[c] = {}
    /\ \A s \in Stays : /\ status[s] = "free" => nameOf[s] = None
                        /\ status[s] # "free" => roomOf[s] # None /\ nameOf[s] # None

-----------------------------------------------------------------------------
(* Locks                                                                   *)

Free(row) == \A d \in Calls : row \notin locks[d]

ActiveIn(r) == {s \in Stays : status[s] = "ACTIVE" /\ roomOf[s] = r}

(* findAssignmentForUpdate locks the stay and its room in one statement.   *)
BothRows(c) == {job[c].stay, job[c].room}

(* Rows a call waits for: somebody else has them.                          *)
Wants(c) ==
    IF at[c] = "room" THEN {job[c].room}
    ELSE IF at[c] = "active" THEN ActiveIn(job[c].room)
    ELSE IF at[c] = "rows" THEN BothRows(c) \ locks[c]
    ELSE {}

WaitsFor(c, d) == c # d /\ Wants(c) \cap locks[d] # {}

(* ROLLBACK, or COMMIT: the call is over, its rows are free.               *)
Ended(c) ==
    /\ at' = [at EXCEPT ![c] = "idle"]
    /\ job' = [job EXCEPT ![c] = NoJob]
    /\ locks' = [locks EXCEPT ![c] = {}]

-----------------------------------------------------------------------------
(* The statements                                                          *)

Begin(c, first, newJob) ==
    /\ at[c] = "idle"
    /\ at' = [at EXCEPT ![c] = first]
    /\ job' = [job EXCEPT ![c] = newJob]
    /\ UNCHANGED <<rowVars, locks, unannounced, cut>>

(* s is the id that randomUUID will draw for the new row.                  *)
BeginAssign(c, r, s, n) ==
    /\ status[s] = "free"
    /\ \A d \in Calls : job[d].stay # s
    /\ Begin(c, "room", [op |-> "assign", room |-> r, stay |-> s, name |-> n])

(* The staff page sends the id of a stay it has seen.                      *)
BeginUpdate(c, s, n) ==
    /\ status[s] # "free"
    /\ Begin(c, "rows", [op |-> "update", room |-> roomOf[s], stay |-> s, name |-> n])

BeginCheckout(c, s) ==
    /\ status[s] # "free"
    /\ Begin(c, "rows", [op |-> "checkout", room |-> roomOf[s], stay |-> s, name |-> None])

(* Seeded error: the room is read without FOR UPDATE.                      *)
BugLockRoom(c) ==
    /\ at[c] = "room"
    /\ at' = [at EXCEPT ![c] = "active"]
    /\ UNCHANGED <<rowVars, job, locks, unannounced, cut>>

(* assignGuest takes the row of the room first ...                         *)
LockRoom(c) ==
    /\ at[c] = "room"
    /\ Free(job[c].room)
    /\ at' = [at EXCEPT ![c] = "active"]
    /\ locks' = [locks EXCEPT ![c] = {job[c].room}]
    /\ UNCHANGED <<rowVars, job, unannounced, cut>>

FindVacant(c) ==
    /\ at[c] = "active"
    /\ ActiveIn(job[c].room) = {}
    /\ at' = [at EXCEPT ![c] = "write"]
    /\ UNCHANGED <<rowVars, job, locks, unannounced, cut>>

(* Seeded error: the conflict leaves the transaction open.                 *)
BugFindOccupied(c) ==
    /\ at[c] = "active"
    /\ \E s \in ActiveIn(job[c].room) : Free(s)
    /\ at' = [at EXCEPT ![c] = "idle"]
    /\ job' = [job EXCEPT ![c] = NoJob]
    /\ UNCHANGED <<rowVars, locks, unannounced, cut>>

(* ... and then asks for its active stay, which waits for whoever edits    *)
(* or checks it out, and looks at it again after that.                     *)
FindOccupied(c) ==
    /\ at[c] = "active"
    /\ \E s \in ActiveIn(job[c].room) : Free(s)
    /\ Ended(c)
    /\ UNCHANGED <<rowVars, unannounced, cut>>

(* In which order a join takes its rows is the planner's choice.           *)
LockJoined(c, row) ==
    /\ at[c] = "rows"
    /\ row \in BothRows(c) \ locks[c]
    /\ Free(row)
    /\ locks' = [locks EXCEPT ![c] = @ \cup {row}]
    /\ UNCHANGED <<rowVars, at, job, unannounced, cut>>

TestStatus(c) ==
    /\ at[c] = "rows" /\ BothRows(c) \subseteq locks[c]
    /\ IF status[job[c].stay] = "ACTIVE"
         THEN /\ at' = [at EXCEPT ![c] = "write"]
              /\ UNCHANGED <<job, locks>>
         ELSE Ended(c)
    /\ UNCHANGED <<rowVars, unannounced, cut>>

(* Between the write and the COMMIT nobody sees the change: one step.      *)
Committed(c) ==
    /\ at[c] = "write"
    /\ at' = [at EXCEPT ![c] = "publish"]
    /\ locks' = [locks EXCEPT ![c] = {}]
    /\ unannounced' = unannounced \cup {job[c].room}
    /\ UNCHANGED <<job, cut>>

CommitAssign(c) ==
    /\ job[c].op = "assign"
    /\ Committed(c)
    /\ roomOf' = [roomOf EXCEPT ![job[c].stay] = job[c].room]
    /\ nameOf' = [nameOf EXCEPT ![job[c].stay] = job[c].name]
    /\ status' = [status EXCEPT ![job[c].stay] = "ACTIVE"]

(* Both UPDATEs ask once more what TestStatus has seen.                    *)
StillActive(c) == status[job[c].stay] = "ACTIVE"

CommitUpdate(c) ==
    /\ job[c].op = "update"
    /\ Committed(c)
    /\ nameOf' = [nameOf EXCEPT ![job[c].stay] =
                      IF StillActive(c) THEN job[c].name ELSE @]
    /\ UNCHANGED <<roomOf, status>>

(* Seeded error: the service forgets to publish that the room is vacant.   *)
BugCommitCheckout(c) ==
    /\ job[c].op = "checkout"
    /\ at[c] = "write"
    /\ Ended(c)
    /\ unannounced' = unannounced \cup {job[c].room}
    /\ status' = [status EXCEPT ![job[c].stay] =
                      IF StillActive(c) THEN "CHECKED_OUT" ELSE @]
    /\ UNCHANGED <<roomOf, nameOf, cut>>

CommitCheckout(c) ==
    /\ job[c].op = "checkout"
    /\ Committed(c)
    /\ status' = [status EXCEPT ![job[c].stay] =
                      IF StillActive(c) THEN "CHECKED_OUT" ELSE @]
    /\ UNCHANGED <<roomOf, nameOf>>

(* publishAssignmentEvent runs after the COMMIT and outside of it.  It     *)
(* tells the screens of a room to read again, and they read what is        *)
(* committed by then, other calls' changes included.                       *)
Publish(c) ==
    /\ at[c] = "publish"
    /\ unannounced' = unannounced \ {job[c].room}
    /\ Ended(c)
    /\ UNCHANGED <<rowVars, cut>>

(* PostgreSQL ends one of several calls that wait for each other.          *)
AbortDeadlock(c) ==
    /\ \E d \in Calls : WaitsFor(c, d) /\ WaitsFor(d, c)
    /\ Ended(c)
    /\ UNCHANGED <<rowVars, unannounced, cut>>

(* A lost connection or a stopped API process: what is not committed is    *)
(* rolled back, what is committed is not announced.                        *)
CutOff(c) ==
    /\ at[c] # "idle"
    /\ Ended(c)
    /\ cut' = TRUE
    /\ UNCHANGED <<rowVars, unannounced>>

-----------------------------------------------------------------------------

RoomInit ==
    /\ roomOf = [s \in Stays |-> None]
    /\ nameOf = [s \in Stays |-> None]
    /\ status = [s \in Stays |-> "free"]
    /\ at = [c \in Calls |-> "idle"]
    /\ job = [c \in Calls |-> NoJob]
    /\ locks = [c \in Calls |-> {}]
    /\ unannounced = {}
    /\ cut = FALSE

Step(c) ==
    \/ LockRoom(c)
    \/ FindVacant(c)
    \/ FindOccupied(c)
    \/ \E row \in BothRows(c) : LockJoined(c, row)
    \/ TestStatus(c)
    \/ CommitAssign(c)
    \/ CommitUpdate(c)
    \/ CommitCheckout(c)
    \/ Publish(c)
    \/ AbortDeadlock(c)

RoomNext ==
    \E c \in Calls :
        \/ \E s \in Stays, n \in Names :
              \/ \E r \in Rooms : BeginAssign(c, r, s, n)
              \/ BeginUpdate(c, s, n)
        \/ \E s \in Stays : BeginCheckout(c, s)
        \/ Step(c)
        \/ CutOff(c)

RoomSpec == RoomInit /\ [][RoomNext]_roomVars

(* PostgreSQL queues those who wait for a row and ends deadlocks, and      *)
(* everything else a call does next stays possible until it does it.       *)
FairRoomSpec == RoomSpec /\ \A c \in Calls : SF_roomVars(Step(c))

-----------------------------------------------------------------------------
(* Properties                                                              *)

(* Two receptionists who check guests into one room at once, or one while  *)
(* the other checks out, never leave it with two stays.                    *)
OneStayPerRoom == \A r \in Rooms : Cardinality(ActiveIn(r)) <= 1

StayOf(r) == IF ActiveIn(r) = {} THEN None ELSE CHOOSE s \in ActiveIn(r) : TRUE

Abstract == INSTANCE RoomStays
                WITH current <- [r \in Rooms |-> StayOf(r)], names <- nameOf

(* However their statements interleave, deadlock or are cut off, the calls *)
(* change the stays as if each had been one step of RoomStays.             *)
ImplementsStays == Abstract!StaySpec

(* Every call ends, although assignGuest takes a room and then its stay    *)
(* and the others may take them the other way round.                       *)
EveryCallEnds == \A c \in Calls : at[c] # "idle" ~> at[c] = "idle"

(* Unless a call is cut off, every change of a room is followed by an      *)
(* event about it.                                                         *)
ChangesAreAnnounced ==
    \A r \in Rooms : r \in unannounced /\ ~cut ~> r \notin unannounced \/ cut

=============================================================================
