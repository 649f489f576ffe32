--------------------------- MODULE ReceptionPages ---------------------------
(***************************************************************************)
(* The receptionists' pages with the rooms (ReceptionistWorkspace of       *)
(* staff-web).  A page reads the rooms again and again: when it is opened, *)
(* when its socket connects, some time after an event told it of a change, *)
(* and at an interval.  A read that begins takes the place of the one      *)
(* before.  What the receptionist changes is put on the page by the answer *)
(* of the call, beside the reads.                                          *)
(***************************************************************************)
EXTENDS RoomStays

CONSTANTS
    Desks,      \* open pages
    MaxLost     \* bound: lost calls and connections, pages reloaded

ASSUME MaxLostIsNumber == MaxLost \in Nat

VARIABLES
    opened,     \* the page is open
    shown,      \* the rooms it shows
    reads,      \* its reads of the rooms
    newest,     \* the read that counts (roomLoadSequence), 0 if none has begun
    timer,      \* staff.room.updated is on its way, or realtimeRefreshTimer is set
    live,       \* the socket is connected
    mutation,   \* the receptionist's call
    version,    \* changes so far                       (history variable)
    asOf,       \* changes the last read shown has seen (history variable)
    lost        \* faults so far                        (bounds the model)

ownVars == <<opened, shown, reads, newest, live, mutation, asOf, lost>>
pageVars == <<ownVars, timer, version>>
deskVars == <<stayVars, pageVars>>

Slots2 == {1, 2}    \* bound: a read, and one it took the place of

AllVacant == [r \in Rooms |-> Vacant]

NoRead == [at |-> "none", seen |-> AllVacant, version |-> 0]

NoCall == [at |-> "none", kind |-> "none", room |-> None, stay |-> None, name |-> None]

PagesTypeOK ==
    /\ StayTypeOK
    /\ opened \in [Desks -> BOOLEAN]
    /\ shown \in [Desks -> [Rooms -> Views]]
    /\ reads \in [Desks -> [Slots2 -> [at      : {"none", "asked", "answered", "failed"},
                                       seen    : [Rooms -> Views],
                                       version : Nat]]]
    /\ newest \in [Desks -> Slots2 \cup {0}]
    /\ timer \in [Desks -> BOOLEAN]
    /\ live \in [Desks -> BOOLEAN]
    /\ mutation \in [Desks -> [at   : {"none", "sent", "done", "refused"},
                               kind : {"none", "assign", "update", "checkout"},
                               room : Rooms \cup {None},
                               stay : Stays \cup {None},
                               name : Names \cup {None}]]
    /\ version \in Nat
    /\ asOf \in [Desks -> Nat]
    /\ lost \in 0..MaxLost

-----------------------------------------------------------------------------
(* loadRooms                                                               *)

SetRead(d, i, to) == reads' = [reads EXCEPT ![d][i] = to]

UnderWay(d) == newest[d] # 0 /\ reads[d][newest[d]].at # "none"

(* The sequence number and the signal of the one before go to this read.   *)
LoadRooms(d) ==
    \E i \in Slots2 :
        /\ reads[d][i].at = "none"
        /\ \A k \in 1..i - 1 : reads[d][k].at # "none"
        /\ SetRead(d, i, [NoRead EXCEPT !.at = "asked"])
        /\ newest' = [newest EXCEPT ![d] = i]

ReadRooms(d, i) ==
    /\ reads[d][i].at = "asked"
    /\ SetRead(d, i, [at |-> "answered", seen |-> [r \in Rooms |-> ViewOf(r)],
                      version |-> version])
    /\ UNCHANGED <<stayVars, opened, shown, newest, timer, live, mutation, asOf, lost, version>>

LoseRead(d, i) ==
    /\ lost < MaxLost /\ lost' = lost + 1
    /\ reads[d][i].at \in {"asked", "answered"}
    /\ SetRead(d, i, [NoRead EXCEPT !.at = "failed"])
    /\ UNCHANGED <<stayVars, opened, shown, newest, timer, live, mutation, asOf, version>>

(* Seeded error: an answer is taken whenever it comes.                     *)
BugCurrent(d, i) == TRUE

(* isCurrentRequest                                                        *)
Current(d, i) == newest[d] = i

ShowRooms(d, i) ==
    /\ reads[d][i].at = "answered" /\ Current(d, i)
    /\ shown' = [shown EXCEPT ![d] = reads[d][i].seen]
    /\ asOf' = [asOf EXCEPT ![d] = reads[d][i].version]
    /\ SetRead(d, i, NoRead)
    /\ UNCHANGED <<stayVars, opened, newest, timer, live, mutation, lost, version>>

(* The answer of a read that does not count any more is thrown away, and   *)
(* an error leaves the rooms on the page.                                  *)
DropRead(d, i) ==
    /\ \/ reads[d][i].at = "failed"
       \/ reads[d][i].at # "none" /\ ~Current(d, i)
    /\ SetRead(d, i, NoRead)
    /\ UNCHANGED <<stayVars, opened, shown, newest, timer, live, mutation, asOf, lost, version>>

-----------------------------------------------------------------------------
(* What makes the page read                                                *)

OpenDesk(d) ==
    /\ ~opened[d]
    /\ opened' = [opened EXCEPT ![d] = TRUE]
    /\ LoadRooms(d)
    /\ UNCHANGED <<stayVars, shown, timer, live, mutation, asOf, lost, version>>

(* The page begins again, with the rooms sessionStorage has kept.          *)
ReloadDesk(d) ==
    /\ lost < MaxLost /\ lost' = lost + 1
    /\ opened[d]
    /\ reads' = [reads EXCEPT ![d] = [i \in Slots2 |->
                    IF i = 1 THEN [NoRead EXCEPT !.at = "asked"] ELSE NoRead]]
    /\ newest' = [newest EXCEPT ![d] = 1]
    /\ timer' = [timer EXCEPT ![d] = FALSE]
    /\ live' = [live EXCEPT ![d] = FALSE]
    /\ mutation' = [mutation EXCEPT ![d] = NoCall]
    /\ UNCHANGED <<stayVars, opened, shown, asOf, version>>

(* onConnect of StaffRealtime, and the page's effect on the status.        *)
Connect(d) ==
    /\ opened[d] /\ ~live[d]
    /\ live' = [live EXCEPT ![d] = TRUE]
    /\ LoadRooms(d)
    /\ UNCHANGED <<stayVars, opened, shown, timer, mutation, asOf, lost, version>>

(* An event that is still on its way is lost.                              *)
Disconnect(d) ==
    /\ lost < MaxLost /\ lost' = lost + 1
    /\ live[d]
    /\ live' = [live EXCEPT ![d] = FALSE]
    /\ timer' = timer \/ timer' = [timer EXCEPT ![d] = FALSE]
    /\ UNCHANGED <<stayVars, opened, shown, reads, newest, mutation, asOf, version>>

(* queueRealtimeRefresh: events within 160 ms make one read.               *)
TimerFires(d) ==
    /\ timer[d]
    /\ timer' = [timer EXCEPT ![d] = FALSE]
    /\ LoadRooms(d)
    /\ UNCHANGED <<stayVars, opened, shown, live, mutation, asOf, lost, version>>

(* Seeded error: a page with a socket leaves it to the events.             *)
BugPoll(d) ==
    /\ opened[d] /\ ~UnderWay(d) /\ ~live[d]
    /\ LoadRooms(d)
    /\ UNCHANGED <<stayVars, opened, shown, timer, live, mutation, asOf, lost, version>>

(* The interval and the focus.  Bound: not while a read is under way.      *)
Poll(d) ==
    /\ opened[d] /\ ~UnderWay(d)
    /\ LoadRooms(d)
    /\ UNCHANGED <<stayVars, opened, shown, timer, live, mutation, asOf, lost, version>>

-----------------------------------------------------------------------------
(* What the receptionist changes                                           *)

Call(d, kind, r, s, n) ==
    /\ opened[d] /\ mutation[d].at = "none"
    /\ mutation' = [mutation EXCEPT
          ![d] = [at |-> "sent", kind |-> kind, room |-> r, stay |-> s, name |-> n]]
    /\ UNCHANGED <<stayVars, opened, shown, reads, newest, timer, live, asOf, lost, version>>

AssignGuest(d, r, n) == shown[d][r] = Vacant /\ Call(d, "assign", r, None, n)

UpdateGuest(d, r, n) == shown[d][r] # Vacant /\ Call(d, "update", r, shown[d][r].stay, n)

CheckoutGuest(d, r) == shown[d][r] # Vacant /\ Call(d, "checkout", r, shown[d][r].stay, None)

(* publishRoomUpdated reaches the pages with a socket by then.             *)
Published ==
    /\ version' = version + 1
    /\ timer' = [d \in Desks |-> timer[d] \/ live[d]]

(* The transaction of the call, and its event.                             *)
Carry(d) ==
    LET m == mutation[d] IN
    /\ m.at = "sent"
    /\ \/ /\ m.kind = "assign"
          /\ \E s \in Stays :
                /\ CheckIn(m.room, s, m.name)
                /\ mutation' = [mutation EXCEPT ![d].at = "done", ![d].stay = s]
       \/ /\ m.kind = "update" /\ current[m.room] = m.stay
          /\ EditGuest(m.room, m.name)
          /\ mutation' = [mutation EXCEPT ![d].at = "done"]
       \/ /\ m.kind = "checkout" /\ current[m.room] = m.stay
          /\ CheckOut(m.room)
          /\ mutation' = [mutation EXCEPT ![d].at = "done"]
    /\ Published
    /\ UNCHANGED <<opened, shown, reads, newest, live, asOf, lost>>

(* The room is taken, or the stay is over.                                 *)
Refuse(d) ==
    LET m == mutation[d] IN
    /\ m.at = "sent"
    /\ IF m.kind = "assign" THEN current[m.room] # None ELSE current[m.room] # m.stay
    /\ mutation' = [mutation EXCEPT ![d] = [NoCall EXCEPT !.at = "refused"]]
    /\ UNCHANGED <<stayVars, opened, shown, reads, newest, timer, live, asOf, lost, version>>

(* Another receptionist's change.                                          *)
Elsewhere == StayNext /\ Published /\ UNCHANGED ownVars

(* The call or its answer is lost.                                         *)
LoseCall(d) ==
    /\ lost < MaxLost /\ lost' = lost + 1
    /\ mutation[d].at \in {"sent", "done"}
    /\ mutation' = [mutation EXCEPT ![d] = [NoCall EXCEPT !.at = "refused"]]
    /\ UNCHANGED <<stayVars, opened, shown, reads, newest, timer, live, asOf, version>>

(* replaceRoom: the answer of an update knows the name only.               *)
Replaced(view, m) ==
    CASE m.kind = "assign"   -> [stay |-> m.stay, name |-> m.name]
      [] m.kind = "update"   -> [stay |-> view.stay, name |-> m.name]
      [] m.kind = "checkout" -> Vacant

TakeAnswer(d) ==
    LET m == mutation[d] IN
    /\ m.at = "done"
    /\ shown' = [shown EXCEPT ![d][m.room] = Replaced(shown[d][m.room], m)]
    /\ mutation' = [mutation EXCEPT ![d] = NoCall]
    /\ UNCHANGED <<stayVars, opened, reads, newest, timer, live, asOf, lost, version>>

TakeRefusal(d) ==
    /\ mutation[d].at = "refused"
    /\ mutation' = [mutation EXCEPT ![d] = NoCall]
    /\ UNCHANGED <<stayVars, opened, shown, reads, newest, timer, live, asOf, lost, version>>

-----------------------------------------------------------------------------

PagesInit ==
    /\ StayInit
    /\ opened = [d \in Desks |-> FALSE]
    /\ shown = [d \in Desks |-> AllVacant]
    /\ reads = [d \in Desks |-> [i \in Slots2 |-> NoRead]]
    /\ newest = [d \in Desks |-> 0]
    /\ timer = [d \in Desks |-> FALSE]
    /\ live = [d \in Desks |-> FALSE]
    /\ mutation = [d \in Desks |-> NoCall]
    /\ version = 0
    /\ asOf = [d \in Desks |-> 0]
    /\ lost = 0

Reads(d) == \E i \in Slots2 : ReadRooms(d, i) \/ ShowRooms(d, i) \/ DropRead(d, i)

Answers(d) == Refuse(d) \/ TakeAnswer(d) \/ TakeRefusal(d)

DeskSteps(d) == Reads(d) \/ Answers(d) \/ TimerFires(d) \/ Connect(d) \/ Poll(d)

Receptionist(d) ==
    \/ OpenDesk(d)
    \/ \E r \in Rooms :
          \/ \E n \in Names : AssignGuest(d, r, n) \/ UpdateGuest(d, r, n)
          \/ CheckoutGuest(d, r)

DeskFaults(d) ==
    \/ \E i \in Slots2 : LoseRead(d, i)
    \/ LoseCall(d) \/ Disconnect(d) \/ ReloadDesk(d)

PagesNext ==
    \/ Elsewhere
    \/ \E d \in Desks : Carry(d) \/ DeskSteps(d) \/ Receptionist(d) \/ DeskFaults(d)

PagesSpec == PagesInit /\ [][PagesNext]_deskVars

-----------------------------------------------------------------------------
(* Properties                                                              *)

(* A read that was overtaken never takes the page back to what an earlier  *)
(* one saw, in whatever order reads are answered, replaced and fail.       *)
LatestReadWins == [][\A d \in Desks : asOf'[d] >= asOf[d]]_deskVars

(* A page that shows the rooms otherwise than they are comes to show them  *)
(* as they are: events missed while the socket was away, answers of calls  *)
(* that came after a newer read, lost answers and reloads do not stay.     *)
DesksCatchUp ==
    \A d \in Desks : opened[d] ~> shown[d] = [r \in Rooms |-> ViewOf(r)]

=============================================================================
