---------------------------- MODULE GuestQrTokens ----------------------------
(***************************************************************************)
(* The QR codes of the rooms statement by statement: issueForRooms and     *)
(* revokeForRoom of PostgresGuestQrTokenRepository, with the row locks of  *)
(* their UPDATEs and the unique index that allows a room one active token. *)
(*                                                                         *)
(* At READ COMMITTED an UPDATE looks for its row when it begins.  If       *)
(* another transaction has changed the row, it waits for it, looks at this *)
(* row again, and at no other.                                             *)
(***************************************************************************)
EXTENDS Integers, Sequences, FiniteSets, Functions

CONSTANTS
    Rooms,      \* hotel_rooms
    Tokens,     \* tokens that randomBytes may draw
    None,       \* no room, no token
    Calls       \* calls of the API that can be in flight at once

ASSUME NoneIsNothing == None \notin Rooms \cup Tokens
ASSUME FinitelyManyRooms == IsFiniteSet(Rooms)

VARIABLES
    roomOf,     \* columns of guest_room_qr_tokens; "free": not committed yet
    state,
    at,         \* the statement a call executes next
    issues,     \* it issues codes, else it revokes one
    work,       \* its rooms
    done,       \* how many of them it has done
    seen,       \* the row its UPDATE has found, or None
    retired,    \* rows it has made inactive and not committed
    inserted    \* rows it has inserted and not committed

rowVars == <<roomOf, state>>
qrVars == <<rowVars, at, issues, work, done, seen, retired, inserted>>

QrTypeOK ==
    /\ roomOf \in [Tokens -> Rooms \cup {None}]
    /\ state \in [Tokens -> {"free", "active", "revoked"}]
    /\ at \in [Calls -> {"idle", "look", "update", "insert", "commit"}]
    /\ issues \in [Calls -> BOOLEAN]
    /\ work \in [Calls -> Seq(Rooms)]
    /\ done \in [Calls -> Nat]
    /\ seen \in [Calls -> Tokens \cup {None}]
    /\ retired \in [Calls -> SUBSET Tokens]
    /\ inserted \in [Calls -> SUBSET Tokens]

-----------------------------------------------------------------------------

ActiveIn(r) == {t \in Tokens : state[t] = "active" /\ roomOf[t] = r}

(* The room the call is about to do.                                       *)
RoomFor(c) == work[c][done[c] + 1]

(* Rows of others whose fate the unique index has to know.                 *)
Undecided(c, d) ==
    {t \in inserted[d] \cup retired[d] : c # d /\ roomOf[t] = RoomFor(c)}

WaitsFor(c, d) ==
    \/ at[c] = "update" /\ c # d /\ seen[c] \in retired[d]
    \/ at[c] = "insert" /\ Undecided(c, d) # {}

Waits(c) == \E d \in Calls : WaitsFor(c, d)

InACircle(c) ==
    \E S \in SUBSET Calls : c \in S /\ \A d \in S : \E e \in S : WaitsFor(d, e)

Ended(c) ==
    /\ at' = [at EXCEPT ![c] = "idle"]
    /\ issues' = [issues EXCEPT ![c] = FALSE]
    /\ work' = [work EXCEPT ![c] = <<>>]
    /\ done' = [done EXCEPT ![c] = 0]
    /\ seen' = [seen EXCEPT ![c] = None]
    /\ retired' = [retired EXCEPT ![c] = {}]
    /\ inserted' = [inserted EXCEPT ![c] = {}]

(* ROLLBACK.                                                               *)
Undone(c) ==
    /\ Ended(c)
    /\ roomOf' = [t \in Tokens |-> IF t \in inserted[c] THEN None ELSE roomOf[t]]
    /\ UNCHANGED state

-----------------------------------------------------------------------------
(* The statements                                                          *)

Begin(c, issue, rooms) ==
    /\ at[c] = "idle"
    /\ at' = [at EXCEPT ![c] = "look"]
    /\ issues' = [issues EXCEPT ![c] = issue]
    /\ work' = [work EXCEPT ![c] = rooms]
    /\ UNCHANGED <<rowVars, done, seen, retired, inserted>>

Unused == {t \in Tokens : state[t] = "free" /\ roomOf[t] = None}

Wanted(rooms) ==
    Len(rooms) +
      FoldFunction(+, 0, [d \in Calls |-> IF issues[d] THEN Len(work[d]) - done[d] ELSE 0])

(* The service refuses a list that names a room twice; the repository goes *)
(* through it in its order.  Bound: there are tokens for all of them.      *)
BeginIssue(c, rooms) ==
    /\ Cardinality(Unused) >= Wanted(rooms)
    /\ Begin(c, TRUE, rooms)

BeginRevoke(c, r) == Begin(c, FALSE, <<r>>)

Look(c) ==
    /\ at[c] = "look"
    /\ \E t \in Tokens \cup {None} :
          /\ IF ActiveIn(RoomFor(c)) = {} THEN t = None ELSE t \in ActiveIn(RoomFor(c))
          /\ seen' = [seen EXCEPT ![c] = t]
    /\ at' = [at EXCEPT ![c] = "update"]
    /\ UNCHANGED <<rowVars, issues, work, done, retired, inserted>>

(* The row that was found, looked at again.                                *)
Retires(c) == {seen[c]} \cap ActiveIn(RoomFor(c))

Update(c) ==
    /\ at[c] = "update"
    /\ ~Waits(c)
    /\ retired' = [retired EXCEPT ![c] = @ \cup Retires(c)]
    /\ at' = [at EXCEPT ![c] = IF issues[c] THEN "insert" ELSE "commit"]
    /\ UNCHANGED <<rowVars, issues, work, done, seen, inserted>>

(* Seeded error: no unique index on the active token of a room.            *)
BugTaken(c) == FALSE

(* The unique index on active tokens: one that this call has not retired.  *)
Taken(c) == ~(ActiveIn(RoomFor(c)) \subseteq retired[c])

(* randomBytes draws a token nobody has; which one makes no difference.    *)
Draw == CHOOSE t \in Unused : TRUE

Insert(c) ==
    /\ at[c] = "insert"
    /\ ~Waits(c) /\ ~Taken(c)
    /\ Unused # {}
    /\ roomOf' = [roomOf EXCEPT ![Draw] = RoomFor(c)]
    /\ inserted' = [inserted EXCEPT ![c] = @ \cup {Draw}]
    /\ done' = [done EXCEPT ![c] = @ + 1]
    /\ at' = [at EXCEPT ![c] = IF done[c] + 1 = Len(work[c]) THEN "commit" ELSE "look"]
    /\ UNCHANGED <<state, issues, work, seen, retired>>

(* Seeded error: the failed batch gives its connection back as it is.      *)
BugInsertFails(c) ==
    /\ at[c] = "insert"
    /\ ~Waits(c) /\ Taken(c)
    /\ at' = [at EXCEPT ![c] = "idle"]
    /\ work' = [work EXCEPT ![c] = <<>>]
    /\ issues' = [issues EXCEPT ![c] = FALSE]
    /\ done' = [done EXCEPT ![c] = 0]
    /\ UNCHANGED <<rowVars, seen, retired, inserted>>

InsertFails(c) ==
    /\ at[c] = "insert"
    /\ ~Waits(c) /\ Taken(c)
    /\ Undone(c)

(* Seeded error: every room is committed by itself.                        *)
BugCommit(c) ==
    /\ at[c] \in {"look", "commit"}
    /\ inserted[c] # {} \/ at[c] = "commit"
    /\ state' = [t \in Tokens |-> IF t \in inserted[c] THEN "active"
                                  ELSE IF t \in retired[c] THEN "revoked"
                                  ELSE state[t]]
    /\ IF at[c] = "commit"
         THEN Ended(c)
         ELSE /\ retired' = [retired EXCEPT ![c] = {}]
              /\ inserted' = [inserted EXCEPT ![c] = {}]
              /\ UNCHANGED <<at, issues, work, done, seen>>
    /\ UNCHANGED roomOf

Commit(c) ==
    /\ at[c] = "commit"
    /\ state' = [t \in Tokens |-> IF t \in inserted[c] THEN "active"
                                  ELSE IF t \in retired[c] THEN "revoked"
                                  ELSE state[t]]
    /\ Ended(c)
    /\ UNCHANGED roomOf

(* PostgreSQL ends one of several calls that wait for each other.          *)
AbortDeadlock(c) == InACircle(c) /\ Undone(c)

(* A lost connection, or a stopped API process.                            *)
CutOff(c) == at[c] # "idle" /\ Undone(c)

-----------------------------------------------------------------------------

QrInit ==
    /\ roomOf = [t \in Tokens |-> None]
    /\ state = [t \in Tokens |-> "free"]
    /\ at = [c \in Calls |-> "idle"]
    /\ issues = [c \in Calls |-> FALSE]
    /\ work = [c \in Calls |-> <<>>]
    /\ done = [c \in Calls |-> 0]
    /\ seen = [c \in Calls |-> None]
    /\ retired = [c \in Calls |-> {}]
    /\ inserted = [c \in Calls |-> {}]

Step(c) ==
    \/ Look(c)
    \/ Update(c)
    \/ Insert(c)
    \/ InsertFails(c)
    \/ Commit(c)
    \/ AbortDeadlock(c)

(* Lists of rooms without duplicates.                                      *)
Lists == {f \in UNION {[1..n -> Rooms] : n \in 1..Cardinality(Rooms)} : IsInjective(f)}

QrNext ==
    \E c \in Calls :
        \/ \E rooms \in Lists : BeginIssue(c, rooms)
        \/ \E r \in Rooms : BeginRevoke(c, r)
        \/ Step(c)
        \/ CutOff(c)

QrSpec == QrInit /\ [][QrNext]_qrVars

(* PostgreSQL queues those who wait and ends deadlocks; a call goes on.    *)
FairQrSpec == QrSpec /\ \A c \in Calls : SF_qrVars(Step(c))

-----------------------------------------------------------------------------
(* Properties                                                              *)

(* However calls about a room interleave, one QR code opens it at most.    *)
OneCodePerRoom == \A r \in Rooms : Cardinality(ActiveIn(r)) <= 1

CodeOf(r) == IF ActiveIn(r) = {} THEN None ELSE CHOOSE t \in ActiveIn(r) : TRUE

Request(c) == [issues |-> issues[c], rooms |-> Range(work[c])]

Abstract == INSTANCE RoomTokens
                WITH code <- [r \in Rooms |-> CodeOf(r)],
                     issued <- {t \in Tokens : state[t] # "free"},
                     request <- [c \in Calls |-> Request(c)]

(* A batch changes the codes of all its rooms in one step or of none, also *)
(* if it runs into another one, deadlocks with it or is cut off; a code    *)
(* that was replaced or revoked never opens a room again.                  *)
ImplementsTokens == Abstract!TokenSpec

(* Batches that name the same rooms in another order deadlock; every call  *)
(* ends all the same.                                                      *)
EveryCallEnds == \A c \in Calls : at[c] # "idle" ~> at[c] = "idle"

=============================================================================
