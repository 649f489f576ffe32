------------------------ MODULE RoomAssignmentProofs ------------------------
(***************************************************************************)
(* What holds of RoomAssignment for every number of rooms, stays, names    *)
(* and calls: types, one stay per room, and that the calls implement       *)
(* RoomStays.                                                              *)
(***************************************************************************)
EXTENDS RoomAssignment, FiniteSetTheorems, TLAPS

-----------------------------------------------------------------------------
(* The inductive invariant                                                 *)

Assigns(c) == job[c].op = "assign"

(* What a call relies on at the statement it has come to.  A call about to *)
(* write does not look at the rows any more: that they are still as it     *)
(* found them is what its locks are for.                                   *)
CallKnows(c) ==
    /\ at[c] = "idle" => job[c] = NoJob
    /\ at[c] = "room" => locks[c] = {}
    /\ at[c] # "idle" => job[c] \in Job
    /\ at[c] \in {"room", "active"} => Assigns(c)
    /\ at[c] = "rows" => ~Assigns(c)
    /\ job[c].op \in {"assign", "update"} => job[c].name \in Names
    /\ at[c] # "publish" /\ Assigns(c) => status[job[c].stay] = "free"
    /\ job[c].op \in {"update", "checkout"} => /\ status[job[c].stay] # "free"
                                               /\ roomOf[job[c].stay] = job[c].room
    /\ at[c] \in {"active", "write"} => job[c].room \in locks[c]
    /\ at[c] = "write" /\ Assigns(c) => ActiveIn(job[c].room) = {}
    /\ at[c] = "write" /\ ~Assigns(c) => /\ job[c].stay \in locks[c]
                                         /\ status[job[c].stay] = "ACTIVE"

(* A row is locked by one call at a time.                                  *)
LocksApart == \A c, d \in Calls : c # d => locks[c] \cap locks[d] = {}

(* No id is drawn twice.                                                   *)
IdsApart ==
    \A c, d \in Calls :
        c # d /\ Assigns(c) /\ Assigns(d) => job[c].stay # job[d].stay

(* OneStayPerRoom without cardinalities.                                   *)
AloneInRoom ==
    \A s, t \in Stays :
        status[s] = "ACTIVE" /\ status[t] = "ACTIVE" /\ roomOf[s] = roomOf[t] => s = t

IInv ==
    /\ RoomTypeOK
    /\ \A c \in Calls : CallKnows(c)
    /\ LocksApart
    /\ IdsApart
    /\ AloneInRoom

LEMMA InitIInv == RoomInit => IInv
<1> SUFFICES ASSUME RoomInit PROVE IInv
    OBVIOUS
<1>1. RoomTypeOK
    BY DEF RoomInit, RoomTypeOK
<1>2. \A c \in Calls : CallKnows(c)
    BY DEF RoomInit, CallKnows, NoJob, Assigns
<1>3. LocksApart /\ IdsApart /\ AloneInRoom
    BY DEF RoomInit, LocksApart, IdsApart, AloneInRoom, NoJob, Assigns
<1>4. QED
    BY <1>1, <1>2, <1>3 DEF IInv

-----------------------------------------------------------------------------
(* Steps that write no row                                                 *)

(* A call that ends without a write leaves all others as they were.        *)
LEMMA LeavingStep ==
    ASSUME IInv, NEW c \in Calls, Ended(c), UNCHANGED rowVars,
           unannounced' \subseteq Rooms, cut' \in BOOLEAN
    PROVE  IInv'
<1> USE DEF IInv, Ended, rowVars
<1>1. RoomTypeOK'
    BY DEF RoomTypeOK
<1>2. ASSUME NEW d \in Calls PROVE CallKnows(d)'
    <2>1. CASE d = c
        BY <2>1 DEF RoomTypeOK, CallKnows, NoJob, Assigns
    <2>2. CASE d # c
        <3>1. CallKnows(d) /\ at'[d] = at[d] /\ job'[d] = job[d] /\ locks'[d] = locks[d]
            BY <2>2 DEF RoomTypeOK
        <3>2. QED
            BY <3>1 DEF CallKnows, Assigns, ActiveIn
    <2>3. QED
        BY <2>1, <2>2
<1>3. LocksApart'
    BY DEF RoomTypeOK, LocksApart
<1>4. IdsApart'
    BY DEF RoomTypeOK, IdsApart, Assigns, NoJob
<1>5. AloneInRoom'
    BY DEF AloneInRoom
<1>6. QED
    BY <1>1, <1>2, <1>3, <1>4, <1>5

(* A call that begins has no row and an id of its own.                     *)
LEMMA BeginningStep ==
    ASSUME IInv, NEW c \in Calls, NEW first, NEW j \in Job,
           Begin(c, first, j),
           \/ /\ first = "room" /\ j.op = "assign"
              /\ j.name \in Names
              /\ status[j.stay] = "free"
              /\ \A d \in Calls : job[d].stay # j.stay
           \/ /\ first = "rows" /\ j.op \in {"update", "checkout"}
              /\ j.op = "update" => j.name \in Names
              /\ status[j.stay] # "free"
              /\ roomOf[j.stay] = j.room
    PROVE  IInv'
<1> USE DEF IInv, Begin, rowVars
<1>1. RoomTypeOK'
    BY DEF RoomTypeOK
<1>2. ASSUME NEW d \in Calls PROVE CallKnows(d)'
    <2>1. CASE d = c
        <3>1. at'[c] = first /\ job'[c] = j /\ locks'[c] = {}
            BY DEF RoomTypeOK
        <3>2. QED
            BY <2>1, <3>1 DEF CallKnows, Assigns
    <2>2. CASE d # c
        <3>1. CallKnows(d) /\ at'[d] = at[d] /\ job'[d] = job[d] /\ locks'[d] = locks[d]
            BY <2>2 DEF RoomTypeOK
        <3>2. QED
            BY <3>1 DEF CallKnows, Assigns, ActiveIn
    <2>3. QED
        BY <2>1, <2>2
<1>3. LocksApart' /\ AloneInRoom'
    BY DEF LocksApart, AloneInRoom
<1>4. IdsApart'
    BY DEF RoomTypeOK, IdsApart, Assigns
<1>5. QED
    BY <1>1, <1>2, <1>3, <1>4

(* A call that goes on may take rows nobody has.                           *)
LEMMA GoingOnStep ==
    ASSUME IInv, NEW c \in Calls, at[c] # "idle",
           NEW next \in {"active", "rows", "write"},
           NEW more \in SUBSET (Rooms \cup Stays),
           \A row \in more : Free(row),
           at' = [at EXCEPT ![c] = next],
           locks' = [locks EXCEPT ![c] = locks[c] \cup more],
           UNCHANGED <<rowVars, job, unannounced, cut>>,
           next = "active" => Assigns(c),
           next = "rows" => ~Assigns(c),
           at[c] # "publish",
           next \in {"active", "write"} => job[c].room \in locks[c] \cup more,
           next = "write" /\ Assigns(c) => ActiveIn(job[c].room) = {},
           next = "write" /\ ~Assigns(c) => /\ job[c].stay \in locks[c] \cup more
                                            /\ status[job[c].stay] = "ACTIVE"
    PROVE  IInv'
<1> USE DEF IInv, rowVars
<1>0. at'[c] = next /\ locks'[c] = locks[c] \cup more
    BY DEF RoomTypeOK
<1>1. RoomTypeOK'
    BY DEF RoomTypeOK
<1>2. ASSUME NEW d \in Calls PROVE CallKnows(d)'
    <2>1. CASE d = c
        BY <1>0, <2>1 DEF CallKnows, Assigns, ActiveIn
    <2>2. CASE d # c
        <3>1. CallKnows(d) /\ at'[d] = at[d] /\ job'[d] = job[d] /\ locks'[d] = locks[d]
            BY <2>2 DEF RoomTypeOK
        <3>2. QED
            BY <3>1 DEF CallKnows, Assigns, ActiveIn
    <2>3. QED
        BY <2>1, <2>2
<1>3. LocksApart'
    BY <1>0 DEF RoomTypeOK, LocksApart, Free
<1>4. IdsApart' /\ AloneInRoom'
    BY DEF IdsApart, AloneInRoom, Assigns
<1>5. QED
    BY <1>1, <1>2, <1>3, <1>4

-----------------------------------------------------------------------------
(* Steps that write                                                        *)

(* A write of c is seen by no call that relies on the row or the room: it  *)
(* would have to hold one of the rows c holds.                             *)
LEMMA CommittingStep ==
    ASSUME IInv, NEW c \in Calls, CommitAssign(c) \/ CommitUpdate(c) \/ CommitCheckout(c)
    PROVE  IInv'
<1> DEFINE s == job[c].stay
<1>0. /\ at[c] = "write"
      /\ job[c] \in Job
      /\ s \in Stays /\ job[c].room \in Rooms
      /\ at' = [at EXCEPT ![c] = "publish"]
      /\ locks' = [locks EXCEPT ![c] = {}]
      /\ unannounced' = unannounced \cup {job[c].room}
      /\ job' = job /\ cut' = cut
      /\ CallKnows(c)
    BY DEF IInv, CommitAssign, CommitUpdate, CommitCheckout, Committed, CallKnows, Job
<1>a. \/ /\ Assigns(c) /\ status[s] = "free" /\ ActiveIn(job[c].room) = {}
         /\ job[c].name \in Names
         /\ roomOf' = [roomOf EXCEPT ![s] = job[c].room]
         /\ nameOf' = [nameOf EXCEPT ![s] = job[c].name]
         /\ status' = [status EXCEPT ![s] = "ACTIVE"]
      \/ /\ ~Assigns(c) /\ status[s] = "ACTIVE" /\ s \in locks[c]
         /\ job[c].name \in Names
         /\ nameOf' = [nameOf EXCEPT ![s] = job[c].name]
         /\ roomOf' = roomOf /\ status' = status
      \/ /\ ~Assigns(c) /\ status[s] = "ACTIVE" /\ s \in locks[c]
         /\ status' = [status EXCEPT ![s] = "CHECKED_OUT"]
         /\ roomOf' = roomOf /\ nameOf' = nameOf
    BY <1>0 DEF CommitAssign, CommitUpdate, CommitCheckout, StillActive, CallKnows, Assigns
<1>b. RoomTypeOK /\ LocksApart /\ IdsApart /\ AloneInRoom
    BY DEF IInv
<1>c. s # None /\ job[c].room # None
    BY <1>0, NoneIsNothing
<1>d. job[c].room \in locks[c]
    BY <1>0 DEF CallKnows
<1>1. RoomTypeOK'
    <2>1. /\ roomOf' \in [Stays -> Rooms \cup {None}]
          /\ nameOf' \in [Stays -> Names \cup {None}]
          /\ status' \in [Stays -> {"free", "ACTIVE", "CHECKED_OUT"}]
          /\ unannounced' \subseteq Rooms
          /\ cut' \in BOOLEAN
        BY <1>0, <1>a, <1>b DEF RoomTypeOK
    <2>2. /\ at' \in [Calls -> {"idle", "room", "active", "rows", "write", "publish"}]
          /\ job' \in [Calls -> Job \cup {NoJob}]
          /\ locks' \in [Calls -> SUBSET (Rooms \cup Stays)]
          /\ \A d \in Calls : at'[d] = "idle" => locks'[d] = {}
        BY <1>0, <1>b DEF RoomTypeOK
    <2>3. ASSUME NEW t \in Stays
          PROVE  /\ status'[t] = "free" => nameOf'[t] = None
                 /\ status'[t] # "free" => roomOf'[t] # None /\ nameOf'[t] # None
        <3>1. /\ status[t] = "free" => nameOf[t] = None
              /\ status[t] # "free" => roomOf[t] # None /\ nameOf[t] # None
            BY <1>b DEF RoomTypeOK
        <3>2. job[c].name \in Names => job[c].name # None
            BY NoneIsNothing
        <3>3. QED
            BY <1>0, <1>a, <1>b, <1>c, <3>1, <3>2 DEF RoomTypeOK
    <2>4. QED
        BY <2>1, <2>2, <2>3 DEF RoomTypeOK
<1>2. ASSUME NEW d \in Calls PROVE CallKnows(d)'
    <2>1. CASE d = c
        <3>1. at'[c] = "publish" /\ job'[c] = job[c]
            BY <1>0, <1>b DEF RoomTypeOK
        <3>2. job[c].op \in {"update", "checkout"} =>
                  status'[s] # "free" /\ roomOf'[s] = job[c].room
            BY <1>0, <1>a, <1>b DEF RoomTypeOK, CallKnows, Assigns
        <3>3. QED
            BY <1>0, <2>1, <3>1, <3>2 DEF CallKnows, Assigns
    <2>2. CASE d # c
        <3>1. CallKnows(d) /\ at'[d] = at[d] /\ job'[d] = job[d] /\ locks'[d] = locks[d]
            BY <1>0, <1>b, <2>2 DEF RoomTypeOK, IInv
        <3>2. at[d] # "idle" => job[d].stay \in Stays /\ job[d].room \in Rooms
            BY <3>1 DEF CallKnows, Job
        <3>3. at[d] # "publish" /\ Assigns(d) => status'[job[d].stay] = "free"
            <4>1. at[d] = "idle" => ~Assigns(d)
                BY <3>1 DEF CallKnows, Assigns, NoJob
            <4>2. Assigns(c) /\ Assigns(d) => job[d].stay # s
                BY <1>b, <2>2 DEF IdsApart
            <4>3. QED
                BY <1>a, <1>b, <3>1, <3>2, <4>1, <4>2 DEF CallKnows, RoomTypeOK
        <3>4. job[d].op \in {"update", "checkout"} =>
                  /\ status'[job[d].stay] # "free"
                  /\ roomOf'[job[d].stay] = job[d].room
            <4>1. at[d] = "idle" => job[d].op \notin {"update", "checkout"}
                BY <3>1 DEF CallKnows, NoJob
            <4>2. QED
                BY <1>0, <1>a, <1>b, <3>1, <3>2, <4>1 DEF CallKnows, RoomTypeOK
        <3>5. at[d] = "write" => job[d].room # job[c].room
            BY <1>b, <1>d, <2>2, <3>1 DEF CallKnows, LocksApart
        <3>6. at[d] = "write" /\ Assigns(d) => ActiveIn(job[d].room)' = {}
            BY <1>0, <1>a, <1>b, <3>1, <3>5 DEF CallKnows, RoomTypeOK, ActiveIn
        <3>7. at[d] = "write" /\ ~Assigns(d) => status'[job[d].stay] = "ACTIVE"
            <4>1. at[d] = "write" /\ ~Assigns(d) /\ s \in locks[c] => job[d].stay # s
                BY <1>b, <2>2, <3>1 DEF CallKnows, LocksApart
            <4>2. QED
                BY <1>a, <1>b, <3>1, <3>2, <4>1 DEF CallKnows, RoomTypeOK
        <3>8. Assigns(d)' = Assigns(d)
            BY <3>1 DEF Assigns
        <3>9. QED
            BY <3>1, <3>3, <3>4, <3>6, <3>7, <3>8 DEF CallKnows, ActiveIn
    <2>3. QED
        BY <2>1, <2>2
<1>3. LocksApart'
    BY <1>0, <1>b DEF RoomTypeOK, LocksApart
<1>4. IdsApart'
    BY <1>0, <1>b DEF IdsApart, Assigns
<1>5. AloneInRoom'
    BY <1>0, <1>a, <1>b DEF RoomTypeOK, AloneInRoom, ActiveIn
<1>6. QED
    BY <1>1, <1>2, <1>3, <1>4, <1>5 DEF IInv

(* Every step is one of the four kinds, or stutters.                       *)
LEMMA StepIInv == IInv /\ [RoomNext]_roomVars => IInv'
<1> SUFFICES ASSUME IInv, [RoomNext]_roomVars PROVE IInv'
    OBVIOUS
<1>1. CASE UNCHANGED roomVars
    BY <1>1 DEF roomVars, rowVars, IInv, RoomTypeOK, CallKnows, LocksApart, IdsApart,
                AloneInRoom, Assigns, ActiveIn
<1>2. ASSUME NEW c \in Calls, NEW r \in Rooms, NEW s \in Stays, NEW n \in Names,
             BeginAssign(c, r, s, n)
      PROVE  IInv'
    <2>1. [op |-> "assign", room |-> r, stay |-> s, name |-> n] \in Job
        BY DEF Job
    <2>2. QED
        BY <1>2, <2>1, BeginningStep DEF BeginAssign
<1>3. ASSUME NEW c \in Calls, NEW s \in Stays, NEW n \in Names, BeginUpdate(c, s, n)
      PROVE  IInv'
    <2>1. [op |-> "update", room |-> roomOf[s], stay |-> s, name |-> n] \in Job
        BY <1>3 DEF Job, BeginUpdate, IInv, RoomTypeOK
    <2>2. QED
        BY <1>3, <2>1, BeginningStep DEF BeginUpdate
<1>4. ASSUME NEW c \in Calls, NEW s \in Stays, BeginCheckout(c, s)
      PROVE  IInv'
    <2>1. [op |-> "checkout", room |-> roomOf[s], stay |-> s, name |-> None] \in Job
        BY <1>4 DEF Job, BeginCheckout, IInv, RoomTypeOK
    <2>2. QED
        BY <1>4, <2>1, BeginningStep DEF BeginCheckout
<1>5. ASSUME NEW c \in Calls, LockRoom(c) PROVE IInv'
    <2>1. CallKnows(c) /\ RoomTypeOK /\ at[c] = "room"
        BY <1>5 DEF IInv, LockRoom
    <2>2. job[c].room \in Rooms /\ Assigns(c)
        BY <2>1 DEF CallKnows, Job
    <2>3. /\ {job[c].room} \in SUBSET (Rooms \cup Stays)
          /\ \A row \in {job[c].room} : Free(row)
          /\ at' = [at EXCEPT ![c] = "active"]
          /\ locks' = [locks EXCEPT ![c] = locks[c] \cup {job[c].room}]
          /\ UNCHANGED <<rowVars, job, unannounced, cut>>
          /\ job[c].room \in locks[c] \cup {job[c].room}
        BY <1>5, <2>1, <2>2 DEF LockRoom, CallKnows, RoomTypeOK
    <2>4. QED
        BY <2>1, <2>2, <2>3, GoingOnStep, Zenon
<1>6. ASSUME NEW c \in Calls, FindVacant(c) PROVE IInv'
    <2>1. CallKnows(c) /\ RoomTypeOK /\ at[c] = "active"
        BY <1>6 DEF IInv, FindVacant
    <2>2. /\ {} \in SUBSET (Rooms \cup Stays)
          /\ \A row \in {} : Free(row)
          /\ at' = [at EXCEPT ![c] = "write"]
          /\ locks' = [locks EXCEPT ![c] = locks[c] \cup {}]
          /\ UNCHANGED <<rowVars, job, unannounced, cut>>
          /\ Assigns(c)
          /\ job[c].room \in locks[c] \cup {}
          /\ ActiveIn(job[c].room) = {}
        BY <1>6, <2>1 DEF CallKnows, FindVacant, RoomTypeOK
    <2>3. QED
        BY <2>1, <2>2, GoingOnStep, Zenon
<1>7. ASSUME NEW c \in Calls, NEW row \in BothRows(c), LockJoined(c, row) PROVE IInv'
    <2>1. CallKnows(c) /\ RoomTypeOK /\ at[c] = "rows"
        BY <1>7 DEF IInv, LockJoined
    <2>2. row \in Rooms \cup Stays
        BY <2>1 DEF CallKnows, Job, BothRows
    <2>3. /\ {row} \in SUBSET (Rooms \cup Stays)
          /\ \A other \in {row} : Free(other)
          /\ at' = [at EXCEPT ![c] = "rows"]
          /\ locks' = [locks EXCEPT ![c] = locks[c] \cup {row}]
          /\ UNCHANGED <<rowVars, job, unannounced, cut>>
          /\ ~Assigns(c)
        BY <1>7, <2>1, <2>2 DEF LockJoined, RoomTypeOK, CallKnows
    <2>4. QED
        BY <2>1, <2>3, GoingOnStep, Zenon
<1>8. ASSUME NEW c \in Calls, TestStatus(c) PROVE IInv'
    <2>1. CallKnows(c) /\ RoomTypeOK /\ at[c] = "rows"
        BY <1>8 DEF IInv, TestStatus
    <2>2. CASE status[job[c].stay] = "ACTIVE"
        <3>1. /\ {} \in SUBSET (Rooms \cup Stays)
              /\ \A row \in {} : Free(row)
              /\ at' = [at EXCEPT ![c] = "write"]
              /\ locks' = [locks EXCEPT ![c] = locks[c] \cup {}]
              /\ UNCHANGED <<rowVars, job, unannounced, cut>>
              /\ ~Assigns(c)
              /\ job[c].room \in locks[c] \cup {}
              /\ job[c].stay \in locks[c] \cup {}
            BY <1>8, <2>1, <2>2 DEF CallKnows, TestStatus, RoomTypeOK, BothRows
        <3>2. QED
            BY <2>1, <2>2, <3>1, GoingOnStep, Zenon
    <2>3. CASE status[job[c].stay] # "ACTIVE"
        BY <1>8, <2>1, <2>3, LeavingStep DEF TestStatus, RoomTypeOK
    <2>4. QED
        BY <2>2, <2>3
<1>9. ASSUME NEW c \in Calls, CommitAssign(c) \/ CommitUpdate(c) \/ CommitCheckout(c)
      PROVE  IInv'
    BY <1>9, CommittingStep
<1>10. ASSUME NEW c \in Calls, FindOccupied(c) \/ Publish(c) \/ AbortDeadlock(c) \/ CutOff(c)
       PROVE  IInv'
    <2>1. unannounced \subseteq Rooms /\ cut \in BOOLEAN
        BY DEF IInv, RoomTypeOK
    <2>2. Ended(c) /\ UNCHANGED rowVars /\ unannounced' \subseteq Rooms /\ cut' \in BOOLEAN
        BY <1>10, <2>1 DEF FindOccupied, Publish, AbortDeadlock, CutOff
    <2>3. QED
        BY <2>2, LeavingStep
<1>11. QED
    BY <1>1, <1>2, <1>3, <1>4, <1>5, <1>6, <1>7, <1>8, <1>9, <1>10 DEF RoomNext, Step

LEMMA SpecIInv == RoomSpec => []IInv
<1>1. QED
    BY InitIInv, StepIInv, PTL DEF RoomSpec

-----------------------------------------------------------------------------
(* Theorems                                                                *)

(* The tables and calls keep their types, and a call that is over holds no *)
(* row: whatever becomes of assignGuest, updateGuestAssignment and         *)
(* checkoutGuestAssignment, their transactions end with them.              *)
THEOREM RoomTypeCorrect == RoomSpec => []RoomTypeOK
<1>1. IInv => RoomTypeOK
    BY DEF IInv
<1>2. QED
    BY <1>1, SpecIInv, PTL

(* A room has at most one active stay, for any number of receptionists,    *)
(* without the unique index.                                               *)
THEOREM RoomsTakeOneStay == RoomSpec => []OneStayPerRoom
<1>1. IInv => OneStayPerRoom
    <2> SUFFICES ASSUME IInv, NEW r \in Rooms PROVE Cardinality(ActiveIn(r)) <= 1
        BY DEF OneStayPerRoom
    <2>1. CASE ActiveIn(r) = {}
        BY <2>1, FS_EmptySet
    <2>2. ASSUME NEW s \in ActiveIn(r) PROVE Cardinality(ActiveIn(r)) <= 1
        <3>1. ActiveIn(r) = {s}
            BY <2>2 DEF IInv, AloneInRoom, ActiveIn
        <3>2. QED
            BY <3>1, FS_Singleton
    <2>3. QED
        BY <2>1, <2>2
<1>2. QED
    BY <1>1, SpecIInv, PTL

-----------------------------------------------------------------------------
(* The refinement                                                          *)

(* The stay of a room is the one that is active in it.                     *)
LEMMA StayOfIsActive ==
    ASSUME AloneInRoom, NEW r \in Rooms
    PROVE  /\ ActiveIn(r) = {} => StayOf(r) = None
           /\ \A s \in ActiveIn(r) : StayOf(r) = s /\ s \in Stays
<1>1. ActiveIn(r) = {} => StayOf(r) = None
    BY DEF StayOf
<1>2. ASSUME NEW s \in ActiveIn(r) PROVE StayOf(r) = s /\ s \in Stays
    <2>1. \A t \in ActiveIn(r) : t = s
        BY DEF AloneInRoom, ActiveIn
    <2>2. (CHOOSE t \in ActiveIn(r) : TRUE) \in ActiveIn(r)
        BY <1>2
    <2>3. QED
        BY <2>1, <2>2 DEF StayOf, ActiveIn
<1>3. QED
    BY <1>1, <1>2

(* A room no row of which changes keeps its stay.                          *)
LEMMA StayOfStays ==
    ASSUME NEW r \in Rooms, ActiveIn(r)' = ActiveIn(r)
    PROVE  StayOf(r)' = StayOf(r)
BY DEF StayOf

(* A write is the step of RoomStays of the same name.                      *)
LEMMA CommitIsStayStep ==
    ASSUME IInv, IInv', NEW c \in Calls, NEW s, NEW r,
           s = job[c].stay, r = job[c].room,
           CommitAssign(c) \/ CommitUpdate(c) \/ CommitCheckout(c)
    PROVE  Abstract!StayNext
<1> DEFINE cur == [q \in Rooms |-> StayOf(q)]
<1>1. /\ RoomTypeOK /\ AloneInRoom /\ AloneInRoom' /\ CallKnows(c) /\ at[c] = "write"
    BY DEF IInv, CommitAssign, CommitUpdate, CommitCheckout, Committed
<1>2. s \in Stays /\ r \in Rooms /\ s # None /\ r # None
    BY <1>1, NoneIsNothing DEF CallKnows, Job
<1>3. CASE CommitAssign(c)
    <2>1. /\ ActiveIn(r) = {} /\ status[s] = "free" /\ job[c].name \in Names
          /\ nameOf[s] = None
        BY <1>1, <1>2, <1>3 DEF CommitAssign, CallKnows, Assigns, RoomTypeOK
    <2>2. /\ roomOf' = [roomOf EXCEPT ![s] = r]
          /\ nameOf' = [nameOf EXCEPT ![s] = job[c].name]
          /\ status' = [status EXCEPT ![s] = "ACTIVE"]
        BY <1>3 DEF CommitAssign
    <2>3. ActiveIn(r)' = {s}
        <3>1. /\ status'[s] = "ACTIVE" /\ roomOf'[s] = r
              /\ \A t \in Stays \ {s} : status'[t] = status[t] /\ roomOf'[t] = roomOf[t]
            BY <1>1, <1>2, <2>2 DEF RoomTypeOK
        <3>2. \A t \in Stays : ~(status[t] = "ACTIVE" /\ roomOf[t] = r)
            BY <2>1 DEF ActiveIn
        <3>3. QED
            BY <1>2, <3>1, <3>2 DEF ActiveIn
    <2>4. StayOf(r)' = s
        BY <2>3 DEF StayOf
    <2>5. ASSUME NEW q \in Rooms, q # r PROVE StayOf(q)' = StayOf(q)
        <3>1. ActiveIn(q)' = ActiveIn(q)
            BY <1>1, <1>2, <2>1, <2>2, <2>5 DEF ActiveIn, RoomTypeOK
        <3>2. QED
            BY <3>1, StayOfStays
    <2>6. cur' = [cur EXCEPT ![r] = s]
        <3>1. cur' = [q \in Rooms |-> StayOf(q)']
            OBVIOUS
        <3>2. QED
            BY <1>2, <2>4, <2>5, <3>1
    <2>7. cur[r] = None
        BY <1>1, <1>2, <2>1, StayOfIsActive
    <2>8. Abstract!CheckIn(r, s, job[c].name)
        BY <2>1, <2>2, <2>6, <2>7 DEF Abstract!CheckIn
    <2>9. QED
        BY <1>2, <2>1, <2>8 DEF Abstract!StayNext
<1>4. CASE CommitUpdate(c)
    <2>1. /\ status[s] = "ACTIVE" /\ roomOf[s] = r /\ job[c].name \in Names
        BY <1>1, <1>4 DEF CommitUpdate, CallKnows, Assigns
    <2>2. nameOf' = [nameOf EXCEPT ![s] = job[c].name] /\ roomOf' = roomOf /\ status' = status
        BY <1>4, <2>1 DEF CommitUpdate, StillActive
    <2>3. cur' = cur
        BY <2>2 DEF StayOf, ActiveIn
    <2>4. cur[r] = s
        BY <1>1, <1>2, <2>1, StayOfIsActive DEF ActiveIn
    <2>5. Abstract!EditGuest(r, job[c].name)
        BY <1>2, <2>2, <2>3, <2>4 DEF Abstract!EditGuest
    <2>6. QED
        BY <1>2, <2>1, <2>5 DEF Abstract!StayNext
<1>5. CASE CommitCheckout(c)
    <2>1. status[s] = "ACTIVE" /\ roomOf[s] = r
        BY <1>1, <1>5 DEF CommitCheckout, CallKnows, Assigns
    <2>2. status' = [status EXCEPT ![s] = "CHECKED_OUT"] /\ roomOf' = roomOf /\ nameOf' = nameOf
        BY <1>5, <2>1 DEF CommitCheckout, StillActive
    <2>3. ActiveIn(r) = {s}
        BY <1>1, <1>2, <2>1 DEF ActiveIn, AloneInRoom
    <2>4. ActiveIn(r)' = {}
        <3>1. /\ status'[s] = "CHECKED_OUT"
              /\ \A t \in Stays \ {s} : status'[t] = status[t]
            BY <1>1, <1>2, <2>2 DEF RoomTypeOK
        <3>2. \A t \in Stays \ {s} : ~(status[t] = "ACTIVE" /\ roomOf[t] = r)
            BY <2>3 DEF ActiveIn
        <3>3. QED
            BY <2>2, <3>1, <3>2 DEF ActiveIn
    <2>5. StayOf(r)' = None
        BY <2>4 DEF StayOf
    <2>6. ASSUME NEW q \in Rooms, q # r PROVE StayOf(q)' = StayOf(q)
        <3>1. ActiveIn(q)' = ActiveIn(q)
            BY <1>1, <1>2, <2>1, <2>2, <2>6 DEF ActiveIn, RoomTypeOK
        <3>2. QED
            BY <3>1, StayOfStays
    <2>7. cur' = [cur EXCEPT ![r] = None]
        <3>1. cur' = [q \in Rooms |-> StayOf(q)']
            OBVIOUS
        <3>2. QED
            BY <1>2, <2>5, <2>6, <3>1
    <2>8. cur[r] = s
        BY <1>1, <1>2, <2>3, StayOfIsActive
    <2>9. Abstract!CheckOut(r)
        BY <1>2, <2>2, <2>7, <2>8 DEF Abstract!CheckOut
    <2>10. QED
        BY <1>2, <2>9 DEF Abstract!StayNext
<1>6. QED
    BY <1>3, <1>4, <1>5

(* Every other step leaves the stays alone.                                *)
LEMMA QuietSteps ==
    ASSUME IInv, [RoomNext]_roomVars,
           \A c \in Calls : ~CommitAssign(c) /\ ~CommitUpdate(c) /\ ~CommitCheckout(c)
    PROVE  UNCHANGED Abstract!stayVars
<1>1. UNCHANGED rowVars
    BY DEF RoomNext, Step, roomVars, BeginAssign, BeginUpdate, BeginCheckout, Begin, LockRoom,
           FindVacant, FindOccupied, LockJoined, TestStatus, Publish, AbortDeadlock, CutOff
<1>2. QED
    BY <1>1 DEF rowVars, Abstract!stayVars, StayOf, ActiveIn

(* The calls, statement by statement, in any interleaving, cut off or      *)
(* ended by a deadlock, implement the reception of RoomStays.              *)
THEOREM CallsImplementStays == RoomSpec => ImplementsStays
<1>1. RoomInit => Abstract!StayInit
    BY DEF RoomInit, Abstract!StayInit, StayOf, ActiveIn
<1>2. IInv /\ IInv' /\ [RoomNext]_roomVars => [Abstract!StayNext]_(Abstract!stayVars)
    BY CommitIsStayStep, QuietSteps
<1>3. QED
    BY <1>1, <1>2, SpecIInv, PTL DEF RoomSpec, ImplementsStays, Abstract!StaySpec

=============================================================================
