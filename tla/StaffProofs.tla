---------------------------- MODULE StaffProofs -----------------------------
(***************************************************************************)
(* What holds of OrderBoards for every number of orders, every page size   *)
(* and any number of disturbances, and of StaffRaces, which is             *)
(* StaffAccounts with a memory, for every number of users, roles,          *)
(* permissions and calls at once.                                          *)
(***************************************************************************)
EXTENDS OrderBoards, StaffRaces, FiniteSetTheorems, TLAPS

----------------------------------------------------------------------------
(* The inductive invariant                                                 *)

(* A load that begins and a load that has one list more are both under     *)
(* way: NoLoad is neither.                                                 *)
LEMMA BegunIsLoading == [s \in {} |-> {}] # NoLoad
BY DEF NoLoad

LEMMA ReadIsLoading ==
    ASSUME NEW s \in Lists, NEW f, s \in DOMAIN f
    PROVE  f # NoLoad
<1>1. s # "no load"
    BY DEF Lists, Open, Closed
<1>2. DOMAIN NoLoad = {"no load"}
    BY DEF NoLoad
<1>3. QED
    BY <1>1, <1>2

(* What a dashboard knows while it is in the channel.  With no event on    *)
(* its way and no timer set, every list that a load begun in the channel   *)
(* has read is still what is stored; a change since then would have left   *)
(* the timer set.                                                          *)
ListsAreCurrent == joinedThen /\ ~timer => \A s \in DOMAIN answers : answers[s] = List(s)

ShownIsCurrent == settled /\ ~timer /\ ~Loading => shown = Listing

DashboardKnows ==
    page = "dashboard" =>
        /\ settling = {}
        /\ joinedThen => channel = "joined"
        /\ settled => channel = "joined"
        /\ ListsAreCurrent
        /\ ShownIsCurrent

----------------------------------------------------------------------------
(* Types                                                                   *)

LEMMA ListsOfOrders == \A s : List(s) \subseteq Orders
BY DEF List

LEMMA MoveKeepsTypes ==
    ASSUME BoardTypeOK, NEW o \in Orders, NEW to \in Open \cup Closed, MoveOrder(o, to)
    PROVE  /\ status' \in [Orders -> {"none"} \cup Open \cup Closed]
           /\ settling' \subseteq Orders
           /\ timer' \in BOOLEAN
BY DEF BoardTypeOK, MoveOrder, Announce

LEMMA OverKeepsTypes ==
    ASSUME BoardTypeOK
    PROVE  Over \in BoardCalls
BY DEF BoardTypeOK, Over, BoardCalls

(* A call that is under way names an order, and keeps it to the end. *)
LEMMA CallUnderWay ==
    ASSUME NEW c \in BoardCalls, c.at # "idle",
           NEW w \in {"sent", "settling", "done", "refused", "reading"}
    PROVE  c.order \in Orders /\ c.to \in Open \cup Closed /\ [c EXCEPT !.at = w] \in BoardCalls
BY DEF BoardCalls, NoCall

LEMMA AnsweredKeepsTypes ==
    ASSUME BoardTypeOK, NEW o, NEW w \in {"done", "refused"}
    PROVE  Answered(o, w) \in BoardCalls
<1>1. call \in BoardCalls
    BY DEF BoardTypeOK
<1>2. CASE call.at = "settling"
    BY <1>1, <1>2, CallUnderWay DEF Answered
<1>3. CASE call.at # "settling"
    BY <1>1, <1>3 DEF Answered
<1>4. QED
    BY <1>2, <1>3

LEMMA FaultCounted ==
    ASSUME BoardTypeOK, faults < MaxFaults, faults' = faults + 1
    PROVE  faults' \in 0 .. MaxFaults
BY BoardBounds DEF BoardTypeOK

LEMMA TypeStep == BoardTypeOK /\ [Next]_vars => BoardTypeOK'
<1> USE BoardBounds
<1> SUFFICES ASSUME BoardTypeOK, [Next]_vars PROVE BoardTypeOK'
    OBVIOUS
<1>1. CASE Order
  <2>1. PICK o : MoveOrder(o, "NEW")
      BY <1>1 DEF Order
  <2>2. status' \in [Orders -> {"none"} \cup Open \cup Closed] /\ settling' = settling
        /\ timer' \in BOOLEAN
      BY <2>1 DEF BoardTypeOK, MoveOrder, Announce, Open, Closed
  <2>3. QED
      BY <1>1, <2>2 DEF Order, BoardTypeOK, Lists, Loading, load, bounds
<1>2. CASE \E o \in Orders, to \in {"IN_PROCESS"} \cup Closed : Others(o, to)
  <2>1. PICK o \in Orders, to \in {"IN_PROCESS"} \cup Closed : Others(o, to)
      BY <1>2
  <2>2. to \in Open \cup Closed /\ MoveOrder(o, to)
      BY <2>1 DEF Others, Open
  <2>3. /\ status' \in [Orders -> {"none"} \cup Open \cup Closed]
        /\ settling' \subseteq Orders
        /\ timer' \in BOOLEAN
      BY <2>2, MoveKeepsTypes
  <2>4. others' \in 0 .. MaxOthers
      BY <2>1 DEF Others, BoardTypeOK
  <2>5. QED
      BY <2>1, <2>3, <2>4 DEF Others, BoardTypeOK, Lists, Loading, load
<1>3. ASSUME NEW o \in Orders, Settle(o) PROVE BoardTypeOK'
  <2>1. call' \in BoardCalls
      BY <1>3, AnsweredKeepsTypes DEF Settle
  <2>2. timer' \in BOOLEAN
      BY <1>3 DEF Settle, Announce, BoardTypeOK
  <2>3. QED
      BY <1>3, <2>1, <2>2 DEF Settle, BoardTypeOK, Lists, Loading, load, bounds
<1>4. ASSUME NEW o \in Orders, SettleFails(o) PROVE BoardTypeOK'
  <2>1. call' \in BoardCalls
      BY <1>4, AnsweredKeepsTypes DEF SettleFails
  <2>2. status' \in [Orders -> {"none"} \cup Open \cup Closed]
      BY <1>4 DEF SettleFails, BoardTypeOK, Open
  <2>3. faults' \in 0 .. MaxFaults
      BY <1>4, FaultCounted DEF SettleFails
  <2>4. QED
      BY <1>4, <2>1, <2>2, <2>3 DEF SettleFails, BoardTypeOK, Lists, Loading, load
<1>5. ASSUME NEW o \in Orders, Click(o) PROVE BoardTypeOK'
  <2>1. PICK s \in Open : \E to \in Wishes(s) :
                            call' = [at |-> "sent", order |-> o, from |-> s, to |-> to]
      BY <1>5 DEF Click
  <2>2. Wishes(s) \subseteq Open \cup Closed
      BY <2>1 DEF Wishes, Open, Closed
  <2>3. call' \in BoardCalls
      BY <2>1, <2>2 DEF BoardCalls
  <2>4. QED
      BY <1>5, <2>3 DEF Click, BoardTypeOK, Lists, Loading, load, bounds, stored
<1>6. ASSUME NEW s \in Lists, Read(s) PROVE BoardTypeOK'
    BY <1>6, ListsOfOrders DEF Read, BoardTypeOK, Lists, Loading, bounds, stored
<1>7. CASE Show
  <2>1. answers' = NoLoad /\ page' = page
      BY <1>7 DEF Show
  <2>2. ~Loading'
      BY <2>1 DEF Loading
  <2>3. shown' \subseteq Orders \X (Open \cup Closed)
    <3>1. Lists \subseteq Open \cup Closed
        BY DEF Lists, Open, Closed
    <3>2. \A s \in Lists : answers[s] \subseteq Orders
        BY <1>7 DEF Show, BoardTypeOK
    <3>3. QED
        BY <1>7, <3>1, <3>2 DEF Show
  <2>4. QED
      BY <1>7, <2>2, <2>3, OverKeepsTypes DEF Show, BoardTypeOK, bounds, stored
<1>8. CASE LoadFails
  <2>1. answers' = NoLoad
      BY <1>8 DEF LoadFails
  <2>2. ~Loading'
      BY <2>1 DEF Loading
  <2>3. faults' \in 0 .. MaxFaults
      BY <1>8, FaultCounted DEF LoadFails
  <2>4. QED
      BY <1>8, <2>2, <2>3, OverKeepsTypes DEF LoadFails, BoardTypeOK, stored
<1>9. CASE RefreshQueued \/ Poll \/ Connect
  <2>1. /\ answers' = [s \in {} |-> {}]
        /\ joinedThen' \in BOOLEAN
        /\ call' = Over \/ call' = call
      BY <1>9 DEF RefreshQueued, Poll, Connect, StartLoad
  <2>2. QED
      BY <1>9, <2>1, OverKeepsTypes
         DEF RefreshQueued, Poll, Connect, BoardTypeOK, bounds, stored
<1>10. CASE Join
    BY <1>10 DEF Join, BoardTypeOK, Lists, Loading, load, bounds, stored
<1>11. CASE Break
  <2>1. faults' \in 0 .. MaxFaults
      BY <1>11, FaultCounted DEF Break
  <2>2. QED
      BY <1>11, <2>1 DEF Break, BoardTypeOK, Lists, Loading, stored
<1>12. CASE Serve
  <2>1. /\ call.order \in Orders /\ call.to \in Open \cup Closed
        /\ \A w \in {"settling", "done", "refused"} : [call EXCEPT !.at = w] \in BoardCalls
      BY <1>12, CallUnderWay DEF Serve, BoardTypeOK
  <2>2. call' \in BoardCalls
      BY <1>12, <2>1 DEF Serve
  <2>3. CASE MoveOrder(call.order, call.to)
    <3>1. /\ status' \in [Orders -> {"none"} \cup Open \cup Closed]
          /\ settling' \subseteq Orders
          /\ timer' \in BOOLEAN
        BY <2>1, <2>3, MoveKeepsTypes
    <3>2. QED
        BY <1>12, <2>2, <3>1 DEF Serve, BoardTypeOK, Lists, Loading, load, bounds
  <2>4. CASE UNCHANGED <<stored, timer>>
      BY <1>12, <2>2, <2>4 DEF Serve, BoardTypeOK, Lists, Loading, load, bounds, stored
  <2>5. QED
      BY <1>12, <2>3, <2>4 DEF Serve
<1>13. CASE TakeAnswer
  <2>1. call.order \in Orders /\ call.to \in Open \cup Closed /\ call' \in BoardCalls
      BY <1>13, CallUnderWay DEF TakeAnswer, BoardTypeOK, BoardCalls
  <2>2. CASE page = "butik"
    <3>1. shown' \subseteq Orders \X (Open \cup Closed)
        BY <1>13, <2>1, <2>2 DEF TakeAnswer, BoardTypeOK
    <3>2. QED
        BY <1>13, <2>1, <2>2, <3>1
           DEF TakeAnswer, BoardTypeOK, Lists, Loading, bounds, stored
  <2>3. CASE page # "butik"
      BY <1>13, <2>1, <2>3 DEF TakeAnswer, StartLoad, BoardTypeOK, bounds, stored
  <2>4. QED
      BY <2>2, <2>3
<1>14. CASE TakeRefusal
    BY <1>14 DEF TakeRefusal, BoardCalls, BoardTypeOK, Lists, Loading, load, bounds, stored
<1>15. CASE AnswerLost
  <2>1. faults' \in 0 .. MaxFaults
      BY <1>15, FaultCounted DEF AnswerLost
  <2>2. QED
      BY <1>15, <2>1 DEF AnswerLost, BoardCalls, BoardTypeOK, Lists, Loading, load, stored
<1>16. CASE UNCHANGED vars
    BY <1>16 DEF vars, BoardTypeOK, Lists, Loading
<1>17. QED
    BY <1>1, <1>2, <1>3, <1>4, <1>5, <1>6, <1>7, <1>8, <1>9, <1>10, <1>11, <1>12, <1>13,
       <1>14, <1>15, <1>16 DEF Next

(* Every reachable state has the types OrderBoards declares. *)
THEOREM BoardTypeCorrect == Spec => []BoardTypeOK
<1>1. ASSUME Init PROVE BoardTypeOK
  <2>1. status \in [Orders -> {"none"} \cup Open \cup Closed]
      BY <1>1 DEF Init
  <2>2. DOMAIN answers = {}
      BY <1>1 DEF Init
  <2>3. others \in 0 .. MaxOthers /\ faults \in 0 .. MaxFaults
      BY <1>1, BoardBounds DEF Init
  <2>4. QED
      BY <1>1, <2>1, <2>2, <2>3 DEF Init, BoardTypeOK, BoardCalls
<1>2. QED
    BY <1>1, TypeStep, PTL DEF Spec

----------------------------------------------------------------------------
(* A quiet dashboard is current                                            *)

LEMMA ListsStay == status' = status => \A s : List(s)' = List(s)
BY DEF List

LEMMA ListingStays ==
    ASSUME status' = status, page' = page
    PROVE  Listing' = Listing
<1>1. \A s : List(s)' = List(s)
    BY ListsStay
<1>2. Lists' = Lists
    BY DEF Lists
<1>3. QED
    BY <1>1, <1>2 DEF Listing

(* A load knows nothing yet that could be out of date. *)
LEMMA BegunKnows ==
    ASSUME DashboardKnows, StartLoad, page' = page, settling' = settling, settled' = settled,
           channel' = channel \/ channel = "off"
    PROVE  DashboardKnows'
<1> SUFFICES ASSUME page = "dashboard" PROVE DashboardKnows'
    BY DEF DashboardKnows
<1>1. DOMAIN answers' = {}
    BY DEF StartLoad
<1>2. Loading'
    BY BegunIsLoading DEF StartLoad, Loading
<1>3. joinedThen' => channel' = "joined"
    BY DEF StartLoad
<1>4. settled' => channel' = "joined"
    BY DEF DashboardKnows
<1>5. ListsAreCurrent' /\ ShownIsCurrent'
    BY <1>1, <1>2 DEF ListsAreCurrent, ShownIsCurrent
<1>6. QED
    BY <1>3, <1>4, <1>5 DEF DashboardKnows

(* Where neither the orders nor what the page has read move, what is known *)
(* stays known.                                                            *)
LEMMA IdleKnows ==
    ASSUME DashboardKnows, page' = page, status' = status, settling' = settling,
           settled' = settled, shown' = shown, timer' = timer, answers' = answers,
           joinedThen' = joinedThen, channel' = channel \/ channel' = "joined"
    PROVE  DashboardKnows'
<1>1. \A s : List(s)' = List(s)
    BY ListsStay
<1>2. Listing' = Listing
    BY ListingStays
<1>3. ListsAreCurrent => ListsAreCurrent'
    BY <1>1 DEF ListsAreCurrent
<1>4. ShownIsCurrent => ShownIsCurrent'
    BY <1>2 DEF ShownIsCurrent, Loading
<1>5. QED
    BY <1>3, <1>4 DEF DashboardKnows

(* A change that is made while the dashboard is in the channel sets the    *)
(* timer; while it is not, the dashboard claims to know nothing.           *)
LEMMA ChangedKnows ==
    ASSUME DashboardKnows, NEW o, NEW to, MoveOrder(o, to), page' = page, settled' = settled,
           channel' = channel, joinedThen' = joinedThen
    PROVE  DashboardKnows'
<1> SUFFICES ASSUME page = "dashboard" PROVE DashboardKnows'
    BY DEF DashboardKnows
<1>1. settling' = settling /\ Announce
    BY DEF MoveOrder
<1>2. settling' = {} /\ (joinedThen' => channel' = "joined") /\ (settled' => channel' = "joined")
    BY <1>1 DEF DashboardKnows
<1>3. channel' = "joined" => timer'
    BY <1>1 DEF Announce
<1>4. ListsAreCurrent' /\ ShownIsCurrent'
    BY <1>2, <1>3 DEF ListsAreCurrent, ShownIsCurrent
<1>5. QED
    BY <1>2, <1>4 DEF DashboardKnows

LEMMA KnowsStep == DashboardKnows /\ [Next]_vars => DashboardKnows'
<1> SUFFICES ASSUME DashboardKnows, [Next]_vars PROVE DashboardKnows'
    OBVIOUS
<1>1. CASE Order
  <2>1. PICK o : MoveOrder(o, "NEW")
      BY <1>1 DEF Order
  <2>2. page' = page /\ settled' = settled /\ channel' = channel /\ joinedThen' = joinedThen
      BY <1>1 DEF Order, load
  <2>3. QED
      BY <2>1, <2>2, ChangedKnows
<1>2. ASSUME NEW o \in Orders, NEW to, Others(o, to) PROVE DashboardKnows'
  <2>1. MoveOrder(o, to)
      BY <1>2 DEF Others
  <2>2. page' = page /\ settled' = settled /\ channel' = channel /\ joinedThen' = joinedThen
      BY <1>2 DEF Others, load
  <2>3. QED
      BY <2>1, <2>2, ChangedKnows
<1>3. ASSUME NEW o \in Orders, Settle(o) \/ SettleFails(o) PROVE DashboardKnows'
  <2>1. o \in settling /\ page' = page
      BY <1>3 DEF Settle, SettleFails
  <2>2. page' # "dashboard"
      BY <2>1 DEF DashboardKnows
  <2>3. QED
      BY <2>2 DEF DashboardKnows
<1>4. ASSUME NEW o \in Orders, Click(o) PROVE DashboardKnows'
    BY <1>4, IdleKnows DEF Click, stored, load
<1>5. ASSUME NEW s \in Lists, Read(s) PROVE DashboardKnows'
  <2>1. /\ page' = page /\ status' = status /\ settling' = settling /\ settled' = settled
        /\ timer' = timer /\ joinedThen' = joinedThen /\ channel' = channel
      BY <1>5 DEF Read, stored
  <2>2. Loading'
      BY <1>5, ReadIsLoading DEF Read, Loading
  <2>3. \A t : List(t)' = List(t)
      BY <2>1, ListsStay
  <2>4. ListsAreCurrent => ListsAreCurrent'
      BY <1>5, <2>1, <2>3 DEF Read, ListsAreCurrent
  <2>5. ShownIsCurrent'
      BY <2>2 DEF ShownIsCurrent
  <2>6. QED
      BY <2>1, <2>4, <2>5 DEF DashboardKnows
<1>6. CASE Show
  <2>1. /\ page' = page /\ status' = status /\ settling' = settling /\ timer' = timer
        /\ channel' = channel /\ settled' = joinedThen /\ joinedThen' = FALSE
      BY <1>6 DEF Show, stored
  <2>2. Listing' = Listing
      BY <2>1, ListingStays
  <2>3. ASSUME joinedThen, ~timer, ListsAreCurrent PROVE shown' = Listing
    <3>1. \A s \in Lists : answers[s] = List(s)
        BY <1>6, <2>3 DEF Show, ListsAreCurrent
    <3>2. shown' = UNION {answers[s] \X {s} : s \in Lists}
        BY <1>6 DEF Show
    <3>3. QED
        BY <3>1, <3>2 DEF Listing
  <2>4. ListsAreCurrent => ShownIsCurrent'
      BY <2>1, <2>2, <2>3 DEF ShownIsCurrent
  <2>5. ListsAreCurrent'
      BY <2>1 DEF ListsAreCurrent
  <2>6. QED
      BY <2>1, <2>4, <2>5 DEF DashboardKnows
<1>7. CASE LoadFails
  <2>1. /\ page' = page /\ settling' = settling /\ ~settled' /\ ~joinedThen'
      BY <1>7 DEF LoadFails, stored
  <2>2. ListsAreCurrent' /\ ShownIsCurrent'
      BY <2>1 DEF ListsAreCurrent, ShownIsCurrent
  <2>3. QED
      BY <2>1, <2>2 DEF DashboardKnows
<1>8. CASE RefreshQueued \/ Poll \/ Connect
    BY <1>8, BegunKnows DEF RefreshQueued, Poll, Connect, stored
<1>9. CASE Join
    BY <1>9, IdleKnows DEF Join, stored, load
<1>10. CASE Break
  <2>1. /\ page' = page /\ settling' = settling /\ ~settled' /\ ~joinedThen'
      BY <1>10 DEF Break, stored
  <2>2. ListsAreCurrent' /\ ShownIsCurrent'
      BY <2>1 DEF ListsAreCurrent, ShownIsCurrent
  <2>3. QED
      BY <2>1, <2>2 DEF DashboardKnows
<1>11. CASE Serve
  <2>1. CASE MoveOrder(call.order, call.to)
      BY <1>11, <2>1, ChangedKnows DEF Serve, load
  <2>2. CASE UNCHANGED <<stored, timer>>
      BY <1>11, <2>2, IdleKnows DEF Serve, stored, load
  <2>3. QED
      BY <1>11, <2>1, <2>2 DEF Serve
<1>12. CASE TakeAnswer
  <2>1. CASE page = "butik"
      BY <1>12, <2>1 DEF TakeAnswer, DashboardKnows
  <2>2. CASE page # "butik"
      BY <1>12, <2>2, BegunKnows DEF TakeAnswer, stored
  <2>3. QED
      BY <2>1, <2>2
<1>13. CASE TakeRefusal \/ AnswerLost
    BY <1>13, IdleKnows DEF TakeRefusal, AnswerLost, stored, load
<1>14. CASE UNCHANGED vars
    BY <1>14, IdleKnows DEF vars
<1>15. QED
    BY <1>1, <1>2, <1>3, <1>4, <1>5, <1>6, <1>7, <1>8, <1>9, <1>10, <1>11, <1>12, <1>13,
       <1>14 DEF Next

(* A dashboard in the channel whose last read was applied and began there, *)
(* with nothing left to hear or to read, shows exactly what is stored: no  *)
(* order is lost between two lists read at different moments, and no event *)
(* that is merged into a running timer is missed.                          *)
THEOREM QuietDashboardsAreCurrent == Spec => []QuietDashboardIsCurrent
<1>1. Init => DashboardKnows
    BY DEF Init, DashboardKnows, ListsAreCurrent, ShownIsCurrent
<1>2. DashboardKnows => QuietDashboardIsCurrent
    BY DEF DashboardKnows, ShownIsCurrent, QuietDashboardIsCurrent
<1>3. QED
    BY <1>1, <1>2, KnowsStep, PTL DEF Spec

-----------------------------------------------------------------------------
(* Types                                                                   *)

Places == {"idle", "read", "resolve", "list", "current", "write",
           "readRole", "currentRole", "writeRole", "listUsers",
           "resolveNext", "currentNext", "writeNext", "findAssigned", "deleteRole"}

Jobs == [op : {"none", "createUser", "updateUser", "updateRole", "deleteRole"},
         actor : Users, user : Users, role : Roles,
         roles : (SUBSET Roles) \cup {Keep}, active : BOOLEAN \cup {Keep},
         permissions : (SUBSET Permissions) \cup {Keep},
         row : Columns, left : SUBSET Users, listed : [Users -> SUBSET Roles]]

Recalculating == {"listUsers", "resolveNext", "currentNext", "writeNext"}

(* A call is where calls of its kind get to.                               *)
Fits(place, j) ==
    /\ place \in {"read", "list", "current"} => j.op = "updateUser"
    /\ place \in {"resolve", "write"} => j.op \in {"createUser", "updateUser"}
    /\ place = "readRole" => j.op \in {"updateRole", "deleteRole"}
    /\ place \in {"writeRole"} \cup Recalculating => j.op = "updateRole"
    /\ place \in {"findAssigned", "deleteRole"} => j.op = "deleteRole"
    /\ j.op \in {"updateRole", "deleteRole"} => j.role \in CustomRoles
    /\ j.op = "updateRole" => j.permissions \in SUBSET Permissions /\ j.active = Keep

TInv ==
    /\ AccountsTypeOK
    /\ job \in [Calls -> Jobs]
    /\ \A c \in Calls : Fits(at[c], job[c])

LEMMA NobodyIsColumns == Nobody \in Columns
BY DEF Nobody, Columns

LEMMA NoJobIsJob ==
    /\ NoJob \in Jobs
    /\ NoJob.op = "none" /\ NoJob.permissions = Keep /\ NoJob.active = Keep /\ NoJob.roles = Keep
BY NobodyIsColumns, OwnerIsAUser DEF NoJob, Jobs, Roles

LEMMA JobFields ==
    ASSUME NEW j \in Jobs
    PROVE  /\ j.actor \in Users /\ j.user \in Users /\ j.role \in Roles
           /\ j.roles \in (SUBSET Roles) \cup {Keep} /\ j.active \in BOOLEAN \cup {Keep}
           /\ j.permissions \in (SUBSET Permissions) \cup {Keep}
           /\ j.row \in Columns /\ j.left \in SUBSET Users /\ j.listed \in [Users -> SUBSET Roles]
BY DEF Jobs

LEMMA JobChanges ==
    ASSUME NEW j \in Jobs
    PROVE  /\ \A r \in Columns : [j EXCEPT !.row = r] \in Jobs
           /\ \A a \in Users : [j EXCEPT !.actor = a] \in Jobs
           /\ \A p \in SUBSET Permissions : [j EXCEPT !.permissions = p] \in Jobs
           /\ \A l \in SUBSET Users : [j EXCEPT !.left = l] \in Jobs
           /\ \A l \in SUBSET Users, m \in [Users -> SUBSET Roles] :
                 [j EXCEPT !.left = l, !.listed = m] \in Jobs
           /\ \A u \in Users, p \in SUBSET Permissions :
                 [j EXCEPT !.user = u, !.permissions = p, !.roles = Keep] \in Jobs
BY DEF Jobs

LEMMA GrantedIsPermissions ==
    ASSUME grants \in [Roles -> SUBSET Permissions], NEW roles \in SUBSET Roles
    PROVE  Granted(roles) \in SUBSET Permissions
BY DEF Granted

(* A step moves one call and leaves the others where they are.             *)
LEMMA MovedCall ==
    ASSUME TInv, NEW c \in Calls, NEW next \in Places, NEW with \in Jobs, Fits(next, with),
           Goes(c, next, with)
    PROVE  /\ at' \in [Calls -> Places] /\ job' \in [Calls -> Jobs]
           /\ at'[c] = next /\ job'[c] = with
           /\ \A d \in Calls : Fits(at'[d], job'[d])
<1>1. at \in [Calls -> Places] /\ job \in [Calls -> Jobs]
    BY DEF TInv, AccountsTypeOK, Places
<1>2. /\ at' \in [Calls -> Places] /\ job' \in [Calls -> Jobs]
      /\ at'[c] = next /\ job'[c] = with
      /\ \A d \in Calls : d # c => at'[d] = at[d] /\ job'[d] = job[d]
    BY <1>1 DEF Goes
<1>3. ASSUME NEW d \in Calls PROVE Fits(at'[d], job'[d])
    BY <1>2 DEF TInv
<1>4. QED
    BY <1>2, <1>3

LEMMA EndedCall ==
    ASSUME TInv, NEW c \in Calls, Ended(c)
    PROVE  /\ at' \in [Calls -> Places] /\ job' \in [Calls -> Jobs]
           /\ at'[c] = "idle" /\ job'[c] = NoJob
           /\ \A d \in Calls : Fits(at'[d], job'[d])
<1>1. Fits("idle", NoJob)
    BY NoJobIsJob DEF Fits, Recalculating
<1>2. QED
    BY <1>1, NoJobIsJob, MovedCall DEF Ended, Goes, Places

(* The tables and the calls are typed one by one.                          *)
LEMMA TypesTogether ==
    ASSUME /\ at' \in [Calls -> Places] /\ job' \in [Calls -> Jobs]
           /\ \A d \in Calls : Fits(at'[d], job'[d]),
           defined' \in SUBSET Roles, grants' \in [Roles -> SUBSET Permissions],
           known' \in SUBSET Users, user' \in [Users -> Columns],
           stale' \subseteq CustomRoles, online' \subseteq known'
    PROVE  TInv'
<1>1. \A c \in Calls : /\ job'[c].left \subseteq Users /\ job'[c].row \in Columns
                       /\ job'[c].permissions \in (SUBSET Permissions) \cup {Keep}
    BY JobFields
<1>2. QED
    BY <1>1 DEF TInv, AccountsTypeOK, Places

LEMMA TypesApart ==
    ASSUME TInv
    PROVE  /\ at \in [Calls -> Places] /\ job \in [Calls -> Jobs]
           /\ \A d \in Calls : Fits(at[d], job[d])
           /\ defined \in SUBSET Roles /\ grants \in [Roles -> SUBSET Permissions]
           /\ known \in SUBSET Users /\ user \in [Users -> Columns]
           /\ stale \subseteq CustomRoles /\ online \subseteq known
BY DEF TInv, AccountsTypeOK, Places

(* What a call asks for is a job.                                          *)
LEMMA AskedStep ==
    ASSUME TInv, NEW c \in Calls, NEW actor \in Users, Asks(c, actor)
    PROVE  /\ at[c] = "idle"
           /\ UNCHANGED <<tables, stale, online>>
           /\ \E next \in Places, with \in Jobs :
                 /\ Fits(next, with) /\ Goes(c, next, with)
                 /\ \/ /\ next = "resolve" /\ with.op = "createUser" /\ with.user \notin known
                       /\ with.roles \in SUBSET Roles
                    \/ next = "read" /\ with.op = "updateUser" /\ with.permissions = Keep
                    \/ next = "readRole"
<1>1. ASSUME NEW u \in Users, NEW roles \in SUBSET Roles, BeginCreateUser(c, actor, u, roles)
      PROVE  /\ at[c] = "idle"
             /\ UNCHANGED <<tables, stale, online>>
             /\ \E with \in Jobs :
                   /\ Fits("resolve", with) /\ Goes(c, "resolve", with)
                   /\ with.op = "createUser" /\ with.user \notin known
                   /\ with.roles \in SUBSET Roles
    <2> DEFINE with == [[NoJob EXCEPT !.op = "createUser", !.user = u, !.roles = roles,
                                      !.active = TRUE] EXCEPT !.actor = actor]
    <2>1. with \in Jobs /\ with.op = "createUser" /\ with.user = u /\ with.roles = roles
        BY NoJobIsJob DEF Jobs
    <2>2. Fits("resolve", with)
        BY <2>1 DEF Fits, Recalculating
    <2>3. QED
        BY <1>1, <2>1, <2>2 DEF BeginCreateUser, Begin
<1>2. ASSUME NEW u \in Users, NEW roles \in (SUBSET Roles) \cup {Keep},
             NEW active \in BOOLEAN \cup {Keep}, BeginUpdateUser(c, actor, u, roles, active)
      PROVE  /\ at[c] = "idle"
             /\ UNCHANGED <<tables, stale, online>>
             /\ \E with \in Jobs :
                   /\ Fits("read", with) /\ Goes(c, "read", with)
                   /\ with.op = "updateUser" /\ with.permissions = Keep
    <2> DEFINE with == [[NoJob EXCEPT !.op = "updateUser", !.user = u, !.roles = roles,
                                      !.active = active] EXCEPT !.actor = actor]
    <2>1. with \in Jobs /\ with.op = "updateUser" /\ with.permissions = Keep
        BY NoJobIsJob DEF Jobs
    <2>2. Fits("read", with)
        BY <2>1 DEF Fits, Recalculating
    <2>3. QED
        BY <1>2, <2>1, <2>2 DEF BeginUpdateUser, Begin
<1>3. ASSUME NEW r \in CustomRoles,
             \/ \E permissions \in SUBSET Permissions : BeginUpdateRole(c, actor, r, permissions)
             \/ BeginDeleteRole(c, actor, r)
      PROVE  /\ at[c] = "idle"
             /\ UNCHANGED <<tables, stale, online>>
             /\ \E with \in Jobs : Fits("readRole", with) /\ Goes(c, "readRole", with)
    <2>1. ASSUME NEW permissions \in SUBSET Permissions,
                 BeginUpdateRole(c, actor, r, permissions)
          PROVE  /\ at[c] = "idle"
                 /\ UNCHANGED <<tables, stale, online>>
                 /\ \E with \in Jobs : Fits("readRole", with) /\ Goes(c, "readRole", with)
        <3> DEFINE with == [[NoJob EXCEPT !.op = "updateRole", !.role = r,
                                          !.permissions = permissions] EXCEPT !.actor = actor]
        <3>1. /\ with \in Jobs /\ with.op = "updateRole" /\ with.role = r
              /\ with.permissions = permissions /\ with.active = Keep
            BY NoJobIsJob DEF Jobs, Roles
        <3>2. Fits("readRole", with)
            BY <3>1 DEF Fits, Recalculating
        <3>3. QED
            BY <2>1, <3>1, <3>2 DEF BeginUpdateRole, Begin
    <2>2. ASSUME BeginDeleteRole(c, actor, r)
          PROVE  /\ at[c] = "idle"
                 /\ UNCHANGED <<tables, stale, online>>
                 /\ \E with \in Jobs : Fits("readRole", with) /\ Goes(c, "readRole", with)
        <3> DEFINE with == [[NoJob EXCEPT !.op = "deleteRole", !.role = r]
                              EXCEPT !.actor = actor]
        <3>1. with \in Jobs /\ with.op = "deleteRole" /\ with.role = r
            BY NoJobIsJob DEF Jobs, Roles
        <3>2. Fits("readRole", with)
            BY <3>1 DEF Fits, Recalculating
        <3>3. QED
            BY <2>2, <3>1, <3>2 DEF BeginDeleteRole, Begin
    <2>3. QED
        BY <1>3, <2>1, <2>2
<1>4. CASE \E u \in Users, roles \in (SUBSET Roles) \ {{}} : BeginCreateUser(c, actor, u, roles)
    <2>1. {"resolve"} \subseteq Places
        BY DEF Places
    <2>2. QED
        BY <1>1, <1>4, <2>1
<1>5. CASE \E u \in Users, roles \in ((SUBSET Roles) \ {{}}) \cup {Keep},
              active \in BOOLEAN \cup {Keep} : BeginUpdateUser(c, actor, u, roles, active)
    <2>1. {"read"} \subseteq Places
        BY DEF Places
    <2>2. QED
        BY <1>2, <1>5, <2>1
<1>6. CASE \E r \in CustomRoles :
              \/ \E permissions \in SUBSET Permissions :
                    BeginUpdateRole(c, actor, r, permissions)
              \/ BeginDeleteRole(c, actor, r)
    <2>1. {"readRole"} \subseteq Places
        BY DEF Places
    <2>2. QED
        BY <1>3, <1>6, <2>1
<1>7. QED
    BY <1>4, <1>5, <1>6 DEF Asks

LEMMA TypesInitially == AccountsInit => TInv
<1> SUFFICES ASSUME AccountsInit PROVE TInv
    OBVIOUS
<1>1. at \in [Calls -> Places] /\ job \in [Calls -> Jobs]
    BY NoJobIsJob DEF AccountsInit, Places
<1>2. \A c \in Calls : Fits(at[c], job[c])
    BY NoJobIsJob DEF AccountsInit, Fits, Recalculating
<1>3. /\ defined \in SUBSET Roles /\ grants \in [Roles -> SUBSET Permissions]
      /\ known \in SUBSET Users
    BY OwnerIsAUser, ManageIsAPermission DEF AccountsInit, Roles
<1>4. user \in [Users -> Columns]
    <2>1. [roles |-> {Superadmin}, permissions |-> {Manage}, active |-> TRUE] \in Columns
        BY ManageIsAPermission DEF Columns, Roles
    <2>2. QED
        BY <2>1, NobodyIsColumns DEF AccountsInit
<1>5. \A c \in Calls : /\ job[c].left \subseteq Users /\ job[c].row \in Columns
                       /\ job[c].permissions \in (SUBSET Permissions) \cup {Keep}
    BY <1>1, JobFields
<1>6. QED
    BY <1>1, <1>2, <1>3, <1>4, <1>5 DEF TInv, AccountsTypeOK, AccountsInit, Places

(* Steps of a call that move it on and leave the rest.                     *)
LEMMA MovingTypes ==
    ASSUME TInv, NEW c \in Calls, UNCHANGED <<defined, grants, known, user, online>>,
           stale' \subseteq CustomRoles,
           \/ Ended(c)
           \/ \E next \in Places, with \in Jobs : Fits(next, with) /\ Goes(c, next, with)
    PROVE  TInv'
<1>1. /\ at' \in [Calls -> Places] /\ job' \in [Calls -> Jobs]
      /\ \A d \in Calls : Fits(at'[d], job'[d])
    BY MovedCall, EndedCall
<1>2. QED
    BY <1>1, TypesApart, TypesTogether

LEMMA WrittenIsColumns ==
    ASSUME TInv, NEW j \in Jobs, Written(j)
    PROVE  /\ user' \in [Users -> Columns]
           /\ user'[j.user].roles = NextRoles(j) /\ user'[j.user].active = NextActive(j)
           /\ user'[j.user].permissions = Or(j.permissions, j.row.permissions)
           /\ \A u \in Users : u # j.user => user'[u] = user[u]
<1>1. /\ j.user \in Users /\ j.row \in Columns
      /\ j.roles \in (SUBSET Roles) \cup {Keep} /\ j.active \in BOOLEAN \cup {Keep}
      /\ j.permissions \in (SUBSET Permissions) \cup {Keep}
    BY JobFields
<1>2. /\ NextRoles(j) \in SUBSET Roles /\ NextActive(j) \in BOOLEAN
      /\ Or(j.permissions, j.row.permissions) \in SUBSET Permissions
    BY <1>1 DEF NextRoles, NextActive, Or, Columns
<1>3. [roles |-> NextRoles(j), permissions |-> Or(j.permissions, j.row.permissions),
       active |-> NextActive(j)] \in Columns
    BY <1>2 DEF Columns
<1>4. user \in [Users -> Columns]
    BY TypesApart
<1>5. user'[j.user] = [roles |-> NextRoles(j),
                       permissions |-> Or(j.permissions, j.row.permissions),
                       active |-> NextActive(j)]
    BY <1>1, <1>4 DEF Written
<1>6. QED
    BY <1>1, <1>3, <1>4, <1>5 DEF Written

(* Where each query takes the call.                                        *)
LEMMA QueryMoves ==
    ASSUME TInv, NEW c \in Calls,
           \/ ReadUser(c) \/ ResolveRoles(c) \/ TestContinuity(c) \/ ReadCurrent(c)
           \/ ReadRole(c) \/ ListUsers(c) \/ FindAssigned(c) \/ ReadNext(c)
           \/ EndUpdateRole(c)
           \/ \E u \in Users : ResolveNext(c, u)
    PROVE  /\ stale' \subseteq CustomRoles
           /\ \/ Ended(c)
              \/ \E next \in Places, with \in Jobs : Fits(next, with) /\ Goes(c, next, with)
<1>1. job[c] \in Jobs /\ Fits(at[c], job[c]) /\ stale \subseteq CustomRoles
      /\ user \in [Users -> Columns] /\ grants \in [Roles -> SUBSET Permissions]
    BY TypesApart
<1>2. job[c].user \in Users /\ job[c].roles \in (SUBSET Roles) \cup {Keep}
      /\ job[c].left \in SUBSET Users /\ job[c].listed \in [Users -> SUBSET Roles]
    BY <1>1, JobFields
<1>3. CASE \/ ReadUser(c) \/ ReadCurrent(c) \/ ReadNext(c)
    <2> DEFINE with == [job[c] EXCEPT !.row = user[job[c].user]]
    <2>1. with \in Jobs
        BY <1>1, <1>2, JobChanges
    <2>2. /\ with.op = job[c].op /\ with.role = job[c].role /\ with.active = job[c].active
          /\ with.permissions = job[c].permissions
        BY <1>1 DEF Jobs
    <2>3. \A next \in Places :
             /\ at[c] = "read" /\ next \in {"list", "resolve"} => Fits(next, with)
             /\ at[c] = "current" /\ next = "write" => Fits(next, with)
             /\ at[c] = "currentNext" /\ next = "writeNext" => Fits(next, with)
        BY <1>1, <2>2 DEF Fits, Recalculating
    <2>4. {"list", "resolve", "write", "writeNext"} \subseteq Places
        BY DEF Places
    <2>5. QED
        BY <1>1, <1>3, <2>1, <2>3, <2>4 DEF ReadUser, ReadCurrent, ReadNext
<1>4. CASE ResolveRoles(c)
    <2> DEFINE with == [job[c] EXCEPT !.permissions = Granted(job[c].roles)]
    <2>1. job[c].op \in {"createUser", "updateUser"} /\ at[c] = "resolve"
        BY <1>1, <1>4 DEF ResolveRoles, Fits
    <2>2. ASSUME ~Unknown(job[c].roles) PROVE with \in Jobs
        <3>1. job[c].roles \subseteq Roles
            BY <2>2, TypesApart DEF Unknown
        <3>2. Granted(job[c].roles) \in SUBSET Permissions
            BY <1>1, <3>1, GrantedIsPermissions
        <3>3. QED
            BY <1>1, <3>2, JobChanges
    <2>3. with.op = job[c].op
        BY <1>1 DEF Jobs
    <2>4. Fits(IF job[c].op = "createUser" THEN "write" ELSE "list", with)
        BY <2>1, <2>3 DEF Fits, Recalculating
    <2>5. {"write", "list"} \subseteq Places
        BY DEF Places
    <2>6. QED
        BY <1>1, <1>4, <2>2, <2>4, <2>5 DEF ResolveRoles
<1>5. CASE TestContinuity(c) \/ ReadRole(c) \/ FindAssigned(c)
    <2>1. \A next \in Places :
             /\ at[c] = "list" /\ next = "current" => Fits(next, job[c])
             /\ at[c] = "readRole" /\ job[c].op = "deleteRole" /\ next = "findAssigned"
                   => Fits(next, job[c])
             /\ at[c] = "readRole" /\ job[c].op # "deleteRole" /\ next = "writeRole"
                   => Fits(next, job[c])
             /\ at[c] = "findAssigned" /\ next = "deleteRole" => Fits(next, job[c])
        BY <1>1 DEF Fits, Recalculating
    <2>2. {"current", "findAssigned", "writeRole", "deleteRole"} \subseteq Places
        BY DEF Places
    <2>3. QED
        BY <1>1, <1>5, <2>1, <2>2 DEF TestContinuity, ReadRole, FindAssigned
<1>6. CASE ListUsers(c)
    <2> DEFINE with == [job[c] EXCEPT !.left = {u \in known : job[c].role \in user[u].roles},
                                      !.listed = [u \in Users |-> user[u].roles]]
    <2>1. {u \in known : job[c].role \in user[u].roles} \in SUBSET Users
          /\ [u \in Users |-> user[u].roles] \in [Users -> SUBSET Roles]
        BY <1>1, TypesApart DEF Columns
    <2>2. with \in Jobs
        BY <1>1, <2>1, JobChanges
    <2>3. /\ with.op = job[c].op /\ with.role = job[c].role /\ with.active = job[c].active
          /\ with.permissions = job[c].permissions
        BY <1>1 DEF Jobs
    <2>4. Fits("resolveNext", with) /\ "resolveNext" \in Places
        BY <1>1, <1>6, <2>3 DEF Fits, Recalculating, ListUsers, Places
    <2>5. QED
        BY <1>1, <1>6, <2>2, <2>4 DEF ListUsers
<1>7. ASSUME NEW u \in Users, ResolveNext(c, u)
      PROVE  /\ stale' \subseteq CustomRoles
             /\ \/ Ended(c)
                \/ \E next \in Places, with \in Jobs : Fits(next, with) /\ Goes(c, next, with)
    <2> DEFINE with == [job[c] EXCEPT !.user = u, !.permissions = Recalculated(job[c], u),
                                      !.roles = Keep]
    <2>1. job[c].op = "updateRole" /\ job[c].role \in CustomRoles
        BY <1>1, <1>7 DEF ResolveNext, Fits, Recalculating
    <2>2. Recalculated(job[c], u) \in SUBSET Permissions
        BY <1>1, <1>2, GrantedIsPermissions DEF Recalculated
    <2>3. with \in Jobs
        BY <1>1, <2>2, JobChanges
    <2>4. /\ with.op = job[c].op /\ with.role = job[c].role /\ with.active = job[c].active
          /\ with.permissions = Recalculated(job[c], u)
        BY <1>1 DEF Jobs
    <2>5. Fits("currentNext", with) /\ "currentNext" \in Places
        BY <1>1, <1>7, <2>2, <2>4 DEF Fits, Recalculating, ResolveNext, Places
    <2>6. stale' = stale \cup {job[c].role} \/ stale' = stale
        BY <1>7 DEF ResolveNext
    <2>7. Ended(c) \/ Goes(c, "currentNext", with)
        BY <1>7 DEF ResolveNext
    <2>8. QED
        BY <1>1, <2>1, <2>3, <2>5, <2>6, <2>7
<1>8. CASE EndUpdateRole(c)
    BY <1>1, <1>8 DEF EndUpdateRole
<1>9. QED
    BY <1>3, <1>4, <1>5, <1>6, <1>7, <1>8

LEMMA StepTypes == TInv /\ [AccountsNext]_accountVars => TInv'
<1> SUFFICES ASSUME TInv, [AccountsNext]_accountVars PROVE TInv'
    OBVIOUS
<1>0. /\ at \in [Calls -> Places] /\ job \in [Calls -> Jobs]
      /\ \A d \in Calls : Fits(at[d], job[d])
      /\ defined \in SUBSET Roles /\ grants \in [Roles -> SUBSET Permissions]
      /\ known \in SUBSET Users /\ user \in [Users -> Columns]
      /\ stale \subseteq CustomRoles /\ online \subseteq known
    BY TypesApart
<1>1. CASE UNCHANGED accountVars
    BY <1>0, <1>1, TypesTogether DEF accountVars, tables
<1>2. ASSUME NEW c \in Calls, NEW actor \in Users, Asks(c, actor) PROVE TInv'
    <2>1. UNCHANGED <<tables, stale, online>>
          /\ \E next \in Places, with \in Jobs : Fits(next, with) /\ Goes(c, next, with)
        BY <1>2, AskedStep
    <2>2. UNCHANGED <<defined, grants, known, user, online>> /\ stale' \subseteq CustomRoles
        BY <1>0, <2>1 DEF tables
    <2>3. QED
        BY <2>1, <2>2, MovingTypes
<1>3. ASSUME NEW c \in Calls,
             \/ ReadUser(c) \/ ResolveRoles(c) \/ TestContinuity(c) \/ ReadCurrent(c)
             \/ ReadRole(c) \/ ListUsers(c) \/ FindAssigned(c) \/ ReadNext(c)
             \/ EndUpdateRole(c)
             \/ \E u \in Users : ResolveNext(c, u)
      PROVE  TInv'
    <2>1. UNCHANGED <<defined, grants, known, user, online>>
        BY <1>3 DEF ReadUser, ResolveRoles, TestContinuity, ReadCurrent, ReadRole, ListUsers,
                    FindAssigned, ReadNext, EndUpdateRole, ResolveNext, tables
    <2>2. QED
        BY <1>3, <2>1, QueryMoves, MovingTypes
<1>4. ASSUME NEW c \in Calls, CutOff(c) PROVE TInv'
    <2>1. stale' \subseteq CustomRoles
        BY <1>0, <1>4 DEF CutOff, Fits, Recalculating
    <2>2. UNCHANGED <<defined, grants, known, user, online>> /\ Ended(c)
        BY <1>4 DEF CutOff, tables
    <2>3. QED
        BY <2>1, <2>2, MovingTypes
<1>5. ASSUME NEW c \in Calls, WriteUser(c) PROVE TInv'
    <2>1. job[c] \in Jobs /\ job[c].user \in Users
        BY <1>0, JobFields
    <2>2. user' \in [Users -> Columns]
        BY <1>5, <2>1, WrittenIsColumns DEF WriteUser
    <2>3. known' \in SUBSET Users /\ online' \subseteq known' /\ Ended(c)
        BY <1>0, <1>5, <2>1 DEF WriteUser
    <2>4. UNCHANGED <<defined, grants, stale>>
        BY <1>5 DEF WriteUser
    <2>5. QED
        BY <1>0, <2>2, <2>3, <2>4, EndedCall, TypesTogether
<1>6. ASSUME NEW c \in Calls, WriteNext(c) PROVE TInv'
    <2> DEFINE with == [job[c] EXCEPT !.left = @ \ {job[c].user}]
    <2>1. job[c] \in Jobs /\ job[c].left \in SUBSET Users
        BY <1>0, JobFields
    <2>2. user' \in [Users -> Columns]
        BY <1>6, <2>1, WrittenIsColumns DEF WriteNext
    <2>3. with = [job[c] EXCEPT !.left = job[c].left \ {job[c].user}] /\ with \in Jobs
        <3>1. with = [job[c] EXCEPT !.left = job[c].left \ {job[c].user}]
            BY <2>1 DEF Jobs
        <3>2. job[c].left \ {job[c].user} \in SUBSET Users
            BY <2>1
        <3>3. QED
            BY <2>1, <3>1, <3>2, JobChanges
    <2>4. /\ with.op = job[c].op /\ with.role = job[c].role /\ with.active = job[c].active
          /\ with.permissions = job[c].permissions
        BY <2>1 DEF Jobs
    <2>5. Fits("resolveNext", with) /\ "resolveNext" \in Places
        BY <1>0, <1>6, <2>4 DEF Fits, Recalculating, WriteNext, Places
    <2>6. Goes(c, "resolveNext", with)
        BY <1>6 DEF WriteNext
    <2>7. UNCHANGED <<defined, grants, known, stale, online>>
        BY <1>6 DEF WriteNext
    <2>8. QED
        BY <1>0, <2>2, <2>3, <2>5, <2>6, <2>7, MovedCall, TypesTogether
<1>7. ASSUME NEW c \in Calls, WriteRole(c) PROVE TInv'
    <2>1. job[c] \in Jobs /\ job[c].role \in Roles /\ job[c].permissions \in SUBSET Permissions
        BY <1>0, <1>7, JobFields DEF WriteRole, Fits
    <2>2. Fits("listUsers", job[c]) /\ "listUsers" \in Places
        BY <1>0, <1>7 DEF Fits, Recalculating, WriteRole, Places
    <2>3. grants' \in [Roles -> SUBSET Permissions]
        BY <1>0, <1>7, <2>1 DEF WriteRole
    <2>4. Ended(c) \/ Goes(c, "listUsers", job[c])
        BY <1>7 DEF WriteRole
    <2>5. UNCHANGED <<defined, known, user, stale, online>>
        BY <1>7 DEF WriteRole
    <2>6. /\ at' \in [Calls -> Places] /\ job' \in [Calls -> Jobs]
          /\ \A d \in Calls : Fits(at'[d], job'[d])
        BY <2>1, <2>2, <2>4, MovedCall, EndedCall
    <2>7. QED
        BY <1>0, <2>3, <2>5, <2>6, TypesTogether
<1>8. ASSUME NEW c \in Calls, DeleteRole(c) PROVE TInv'
    <2>1. /\ defined' \in SUBSET Roles /\ grants' \in [Roles -> SUBSET Permissions]
          /\ stale' \subseteq CustomRoles /\ Ended(c)
          /\ UNCHANGED <<known, user, online>>
        BY <1>0, <1>8 DEF DeleteRole
    <2>2. QED
        BY <1>0, <2>1, EndedCall, TypesTogether
<1>9. ASSUME NEW actor \in Users, NEW r \in CustomRoles, NEW permissions \in SUBSET Permissions,
             CreateRole(actor, r, permissions)
      PROVE  TInv'
    <2>1. /\ defined' \in SUBSET Roles /\ grants' \in [Roles -> SUBSET Permissions]
          /\ UNCHANGED <<known, user, at, job, stale, online>>
        BY <1>0, <1>9 DEF CreateRole, Roles
    <2>2. QED
        BY <1>0, <2>1, TypesTogether
<1>10. ASSUME NEW u \in Users, GoOnline(u) \/ Recheck(u) \/ Leave(u) PROVE TInv'
    <2>1. /\ online' \subseteq known
          /\ UNCHANGED <<defined, grants, known, user, at, job, stale>>
        BY <1>0, <1>10 DEF GoOnline, Recheck, Leave, tables
    <2>2. QED
        BY <1>0, <2>1, TypesTogether
<1>11. QED
    BY <1>1, <1>2, <1>3, <1>4, <1>5, <1>6, <1>7, <1>8, <1>9, <1>10 DEF AccountsNext, Step

-----------------------------------------------------------------------------
(* Calls that nobody has overtaken                                         *)

(* The columns an update is about to write: roles that exist with what     *)
(* they grant, or both as they are.                                        *)
Chosen(j) ==
    \/ j.roles # Keep /\ j.roles \subseteq defined /\ j.permissions = Granted(j.roles)
    \/ j.roles = Keep /\ j.permissions = Keep

OthersRemain(j) == RemainsSuperadmin(j) \/ \E u \in Superadmins : u # j.user

Current(u) == user[u].permissions = Granted(user[u].roles)

(* The users whose permissions a call has yet to bring up to date.         *)
Behind(place, j) ==
    IF place = "listUsers" THEN {u \in known : j.role \in user[u].roles}
    ELSE IF place \in Recalculating THEN j.left ELSE {}

(* What a call that nobody has overtaken has read still holds, and whoever *)
(* has the role it updates has been brought up to date or will be.         *)
StillTrue(place, j) ==
    /\ place = "read" => j.permissions = Keep
    /\ place = "resolve" => j.roles # Keep
    /\ place \in {"resolve", "write"} /\ j.op = "createUser" =>
          j.user \notin known /\ j.roles # Keep
    /\ place \in {"resolve", "list", "current", "write"} /\ j.op = "updateUser" =>
          j.user \in known /\ j.row = user[j.user]
    /\ place \in {"list", "current", "write"} => Chosen(j)
    /\ place \in {"current", "write"} /\ j.op = "updateUser" => OthersRemain(j)
    /\ place \in {"resolveNext", "currentNext", "writeNext"} =>
          /\ \A u \in j.left : u \in known /\ j.role \in user[u].roles
          /\ \A u \in known : j.listed[u] = user[u].roles
          /\ \A u \in known \ j.left : j.role \in user[u].roles => Current(u)
    /\ place \in {"currentNext", "writeNext"} =>
          j.user \in j.left /\ j.roles = Keep /\ j.permissions = Granted(user[j.user].roles)
    /\ place = "writeNext" => j.row = user[j.user]
    /\ place = "deleteRole" => \A u \in known : j.role \notin user[u].roles

(* Whose permissions are not current has a role whose update was cut off   *)
(* or is under way.                                                        *)
Excused(u) ==
    \/ user[u].roles \cap stale # {}
    \/ \E d \in Calls : u \in Behind(at[d], job[d]) /\ job[d].role \in user[u].roles

UpToDate == \A u \in known : Current(u) \/ Excused(u)

Settled == SuperadminRemains /\ AssignedRolesExist /\ UpToDate

(* A call that nobody has overtaken, and the tables as it found them.      *)
OneInv(c) == TInv /\ Settled /\ StillTrue(at[c], job[c])

RInv ==
    /\ TInv
    /\ overtaken \in SUBSET Calls /\ raced \in BOOLEAN
    /\ ~raced => Settled /\ \A c \in Calls \ overtaken : StillTrue(at[c], job[c])

LEMMA KeepIsOther ==
    ASSUME grants \in [Roles -> SUBSET Permissions], NEW roles \in SUBSET Roles
    PROVE  roles # Keep /\ Granted(roles) # Keep
BY GrantedIsPermissions, KeepIsNoValue

LEMMA IdleStillTrue ==
    ASSUME NEW c, at'[c] = "idle"
    PROVE  StillTrue(at[c], job[c])'
BY DEF StillTrue

(* A call that does not move keeps what it has read while the tables stay. *)
LEMMA WaitingStillTrue ==
    ASSUME NEW d \in Calls, StillTrue(at[d], job[d]), UNCHANGED tables,
           at'[d] = at[d], job'[d] = job[d]
    PROVE  StillTrue(at[d], job[d])'
BY DEF StillTrue, Chosen, OthersRemain, Superadmins, RemainsSuperadmin, NextRoles, NextActive,
       Current, Granted, tables

Alone(c) == \A d \in Calls : d # c => at'[d] = at[d] /\ job'[d] = job[d]

LEMMA MovesAlone ==
    ASSUME TInv, NEW c \in Calls, Ended(c) \/ \E next, with : Goes(c, next, with)
    PROVE  Alone(c)
<1>1. at \in [Calls -> Places] /\ job \in [Calls -> Jobs]
    BY TypesApart
<1>2. QED
    BY <1>1 DEF Alone, Ended, Goes

LEMMA AskedAlone ==
    ASSUME TInv, NEW c \in Calls, NEW actor \in Users, Asks(c, actor)
    PROVE  Alone(c)
BY AskedStep, MovesAlone

LEMMA StepsAlone ==
    ASSUME TInv, NEW c \in Calls, Step(c) \/ CutOff(c)
    PROVE  Alone(c)
<1>1. Ended(c) \/ \E next, with : Goes(c, next, with)
    <2>1. CASE ReadUser(c) \/ ResolveRoles(c) \/ TestContinuity(c) \/ ReadCurrent(c) \/ WriteUser(c)
        BY <2>1 DEF ReadUser, ResolveRoles, TestContinuity, ReadCurrent, WriteUser
    <2>2. CASE ReadRole(c) \/ WriteRole(c) \/ ListUsers(c) \/ FindAssigned(c) \/ DeleteRole(c)
        BY <2>2 DEF ReadRole, WriteRole, ListUsers, FindAssigned, DeleteRole
    <2>3. CASE \E u \in Users : ResolveNext(c, u)
        BY <2>3 DEF ResolveNext
    <2>4. CASE ReadNext(c) \/ WriteNext(c) \/ EndUpdateRole(c)
        BY <2>4 DEF ReadNext, WriteNext, EndUpdateRole
    <2>5. CASE CutOff(c)
        BY <2>5 DEF CutOff
    <2>6. QED
        BY <2>1, <2>2, <2>3, <2>4, <2>5 DEF Step
<1>2. QED
    BY <1>1, MovesAlone

(* Steps that only read: whoever was left to the call is left to it, or to *)
(* the next update of the role.                                            *)
LEMMA ReadingSettled ==
    ASSUME NEW c \in Calls, Settled, Alone(c), UNCHANGED tables, stale \subseteq stale',
           \/ Behind(at[c], job[c]) = {}
           \/ job[c].role \in stale'
           \/ Behind(at[c], job[c])' = Behind(at[c], job[c]) /\ job'[c].role = job[c].role
    PROVE  Settled'
<1>1. known' = known /\ user' = user /\ grants' = grants /\ defined' = defined
    BY DEF tables
<1>2. SuperadminRemains' /\ AssignedRolesExist'
    BY <1>1 DEF Settled, SuperadminRemains, AssignedRolesExist, Superadmins
<1>3. ASSUME NEW u \in known, Excused(u) PROVE Excused(u)'
    <2>1. CASE user[u].roles \cap stale # {}
        BY <1>1, <2>1 DEF Excused
    <2>2. CASE \E d \in Calls : u \in Behind(at[d], job[d]) /\ job[d].role \in user[u].roles
        <3>1. PICK d \in Calls : u \in Behind(at[d], job[d]) /\ job[d].role \in user[u].roles
            BY <2>2
        <3>2. CASE d = c
            <4>1. CASE job[c].role \in stale'
                BY <1>1, <3>1, <3>2, <4>1 DEF Excused
            <4>2. CASE Behind(at[c], job[c])' = Behind(at[c], job[c]) /\ job'[c].role = job[c].role
                <5>1. u \in Behind(at[c], job[c])' /\ job'[c].role \in user'[u].roles
                    BY <1>1, <3>1, <3>2, <4>2
                <5>2. QED
                    BY <5>1 DEF Excused
            <4>3. QED
                BY <3>1, <3>2, <4>1, <4>2
        <3>3. CASE d # c
            <4>1. at'[d] = at[d] /\ job'[d] = job[d]
                BY <3>3 DEF Alone
            <4>2. u \in Behind(at[d], job[d])' /\ job'[d].role \in user'[u].roles
                BY <1>1, <3>1, <4>1 DEF Behind
            <4>3. QED
                BY <4>2 DEF Excused
        <3>4. QED
            BY <3>2, <3>3
    <2>3. QED
        BY <1>3, <2>1, <2>2 DEF Excused
<1>4. \A u \in known : Current(u) => Current(u)'
    BY <1>1 DEF Current, Granted
<1>5. UpToDate'
    BY <1>1, <1>3, <1>4 DEF Settled, UpToDate
<1>6. QED
    BY <1>2, <1>5 DEF Settled

(* Outside of a recalculation nobody is left to the call.                  *)
LEMMA NobodyBehind ==
    ASSUME NEW c, at[c] \notin Recalculating
    PROVE  Behind(at[c], job[c]) = {}
BY DEF Behind, Recalculating

-----------------------------------------------------------------------------
(* Steps that read, of any call                                            *)

LEMMA AskedSettled ==
    ASSUME TInv, NEW c \in Calls, Settled, NEW actor \in Users, Asks(c, actor)
    PROVE  Settled'
<1>1. at[c] = "idle" /\ UNCHANGED <<tables, stale>> /\ Alone(c)
    BY AskedStep, AskedAlone
<1>2. QED
    BY <1>1, NobodyBehind, ReadingSettled DEF Recalculating

LEMMA AccountReadsSettled ==
    ASSUME TInv, NEW c \in Calls, Settled, Alone(c),
           \/ ReadUser(c) \/ ResolveRoles(c) \/ TestContinuity(c) \/ ReadCurrent(c)
           \/ ReadRole(c) \/ FindAssigned(c)
    PROVE  Settled'
<1>1. /\ at[c] \in {"read", "resolve", "list", "current", "readRole", "findAssigned"}
      /\ UNCHANGED <<tables, stale>>
    BY DEF ReadUser, ResolveRoles, TestContinuity, ReadCurrent, ReadRole, FindAssigned
<1>2. QED
    BY <1>1, NobodyBehind, ReadingSettled DEF Recalculating

LEMMA RecalculationReadsSettled ==
    ASSUME TInv, NEW c \in Calls, Settled, Alone(c),
           ListUsers(c) \/ ReadNext(c) \/ \E u \in Users : ResolveNext(c, u)
    PROVE  Settled'
<1>1. PICK j \in Jobs : j = job[c]
    BY TypesApart
<1>2. at \in [Calls -> Places] /\ job \in [Calls -> Jobs]
    BY TypesApart
<1>3. CASE ListUsers(c)
    <2>1. /\ UNCHANGED <<tables, stale>> /\ at[c] = "listUsers" /\ at'[c] = "resolveNext"
          /\ job'[c] = [j EXCEPT !.left = {u \in known : j.role \in user[u].roles},
                                 !.listed = [u \in Users |-> user[u].roles]]
        BY <1>1, <1>2, <1>3 DEF ListUsers, Goes
    <2>2. job'[c].left = {u \in known : j.role \in user[u].roles} /\ job'[c].role = j.role
        BY <2>1 DEF Jobs
    <2>3. Behind(at[c], job[c])' = Behind(at[c], job[c])
        BY <1>1, <2>1, <2>2 DEF Behind, Recalculating
    <2>4. QED
        BY <1>1, <2>1, <2>2, <2>3, ReadingSettled
<1>4. CASE ReadNext(c)
    <2>1. /\ UNCHANGED <<tables, stale>> /\ at[c] = "currentNext" /\ at'[c] = "writeNext"
          /\ job'[c] = [j EXCEPT !.row = user[j.user]]
        BY <1>1, <1>2, <1>4 DEF ReadNext, Goes
    <2>2. job'[c].left = j.left /\ job'[c].role = j.role
        BY <2>1 DEF Jobs
    <2>3. Behind(at[c], job[c])' = Behind(at[c], job[c])
        BY <1>1, <2>1, <2>2 DEF Behind, Recalculating
    <2>4. QED
        BY <1>1, <2>1, <2>2, <2>3, ReadingSettled
<1>5. ASSUME NEW u \in Users, ResolveNext(c, u) PROVE Settled'
    <2>1. UNCHANGED tables /\ at[c] = "resolveNext"
        BY <1>5 DEF ResolveNext
    <2>2. CASE Unknown(j.listed[u])
        <3>1. stale' = stale \cup {job[c].role}
            BY <1>1, <1>5, <2>2 DEF ResolveNext
        <3>2. QED
            BY <2>1, <3>1, ReadingSettled
    <2>3. CASE ~Unknown(j.listed[u])
        <3>1. /\ at'[c] = "currentNext" /\ stale' = stale
              /\ job'[c] = [j EXCEPT !.user = u, !.permissions = Recalculated(j, u), !.roles = Keep]
            BY <1>1, <1>2, <1>5, <2>3 DEF ResolveNext, Goes
        <3>2. job'[c].left = j.left /\ job'[c].role = j.role
            BY <3>1 DEF Jobs
        <3>3. Behind(at[c], job[c])' = Behind(at[c], job[c])
            BY <1>1, <2>1, <3>1, <3>2 DEF Behind, Recalculating
        <3>4. QED
            BY <1>1, <2>1, <3>1, <3>2, <3>3, ReadingSettled
    <2>4. QED
        BY <2>2, <2>3
<1>6. QED
    BY <1>3, <1>4, <1>5

LEMMA CutOffSettled ==
    ASSUME TInv, NEW c \in Calls, Settled, CutOff(c)
    PROVE  Settled'
<1>1. /\ UNCHANGED tables
      /\ stale' = IF at[c] \in Recalculating THEN stale \cup {job[c].role} ELSE stale
    BY DEF CutOff, Recalculating
<1>2. Alone(c)
    BY StepsAlone
<1>3. QED
    BY <1>1, <1>2, NobodyBehind, ReadingSettled

-----------------------------------------------------------------------------
(* Steps that read, of a call that nobody has overtaken                    *)

(* A call comes in.                                                        *)
LEMMA AskedOne ==
    ASSUME NEW c \in Calls, OneInv(c), NEW actor \in Users, Asks(c, actor)
    PROVE  StillTrue(at[c], job[c])'
<1>1. PICK next \in Places, with \in Jobs :
         /\ Fits(next, with) /\ Goes(c, next, with)
         /\ \/ /\ next = "resolve" /\ with.op = "createUser" /\ with.user \notin known
               /\ with.roles \in SUBSET Roles
            \/ next = "read" /\ with.op = "updateUser" /\ with.permissions = Keep
            \/ next = "readRole"
    BY AskedStep DEF OneInv
<1>2. UNCHANGED <<tables, stale, online>>
    BY AskedStep DEF OneInv
<1>3. at'[c] = next /\ job'[c] = with
    BY <1>1, MovedCall DEF OneInv
<1>4. known' = known
    BY <1>2 DEF tables
<1>5. CASE next = "resolve"
    <2>1. with.roles # Keep
        BY <1>1, <1>5, KeepIsNoValue
    <2>2. QED
        BY <1>1, <1>3, <1>4, <1>5, <2>1 DEF StillTrue
<1>6. CASE next \in {"read", "readRole"}
    BY <1>1, <1>3, <1>6 DEF StillTrue
<1>7. QED
    BY <1>1, <1>5, <1>6

LEMMA ReadUserOne ==
    ASSUME NEW c \in Calls, OneInv(c), ReadUser(c)
    PROVE  StillTrue(at[c], job[c])'
<1>1. job[c] \in Jobs /\ at[c] = "read" /\ UNCHANGED <<tables, stale, online>>
      /\ job[c].permissions = Keep /\ job[c].op = "updateUser"
      /\ job[c].roles \in (SUBSET Roles) \cup {Keep}
    BY TypesApart, JobFields DEF OneInv, ReadUser, StillTrue, Fits
<1>2. CASE Ended(c)
    BY <1>2, EndedCall, IdleStillTrue DEF OneInv
<1>3. CASE ~Ended(c)
    <2> DEFINE with == [job[c] EXCEPT !.row = user[job[c].user]]
    <2>1. /\ job[c].user \in known
          /\ Goes(c, IF job[c].roles = Keep THEN "list" ELSE "resolve", with)
        BY <1>3 DEF ReadUser
    <2>2. at'[c] = (IF job[c].roles = Keep THEN "list" ELSE "resolve") /\ job'[c] = with
        BY <2>1, TypesApart DEF OneInv, Goes
    <2>3. /\ job'[c].op = job[c].op /\ job'[c].user = job[c].user /\ job'[c].roles = job[c].roles
          /\ job'[c].permissions = Keep /\ job'[c].row = user[job[c].user]
        BY <1>1, <2>2 DEF Jobs
    <2>4. known' = known /\ user' = user
        BY <1>1 DEF tables
    <2>5. QED
        BY <1>1, <2>1, <2>2, <2>3, <2>4 DEF StillTrue, Chosen
<1>4. QED
    BY <1>2, <1>3

LEMMA ResolveRolesOne ==
    ASSUME NEW c \in Calls, OneInv(c), ResolveRoles(c)
    PROVE  StillTrue(at[c], job[c])'
<1>1. /\ job[c] \in Jobs /\ at[c] = "resolve" /\ UNCHANGED <<tables, stale, online>>
      /\ job[c].op \in {"createUser", "updateUser"} /\ job[c].roles # Keep
      /\ job[c].op = "createUser" => job[c].user \notin known
      /\ job[c].op = "updateUser" => job[c].user \in known /\ job[c].row = user[job[c].user]
    BY TypesApart DEF OneInv, ResolveRoles, StillTrue, Fits
<1>2. CASE Ended(c)
    BY <1>2, EndedCall, IdleStillTrue DEF OneInv
<1>3. CASE ~Ended(c)
    <2> DEFINE with == [job[c] EXCEPT !.permissions = Granted(job[c].roles)]
               next == IF job[c].op = "createUser" THEN "write" ELSE "list"
    <2>1. job[c].roles \subseteq defined /\ Goes(c, next, with)
        BY <1>3 DEF ResolveRoles, Unknown
    <2>2. at'[c] = next /\ job'[c] = with
        BY <2>1, TypesApart DEF OneInv, Goes
    <2>3. /\ job'[c].op = job[c].op /\ job'[c].user = job[c].user /\ job'[c].roles = job[c].roles
          /\ job'[c].permissions = Granted(job[c].roles) /\ job'[c].row = job[c].row
        BY <1>1, <2>2 DEF Jobs
    <2>4. known' = known /\ user' = user /\ defined' = defined /\ grants' = grants
        BY <1>1 DEF tables
    <2>5. Chosen(job[c])'
        BY <1>1, <2>1, <2>3, <2>4 DEF Chosen, Granted
    <2>6. QED
        BY <1>1, <2>2, <2>3, <2>4, <2>5 DEF StillTrue
<1>4. QED
    BY <1>2, <1>3

(* Whoever passes the tests leaves a Superadmin: if there is none but the  *)
(* one who is changed, there is at most one.                               *)
LEMMA OneOrAnother ==
    ASSUME TInv, SuperadminRemains, NEW j \in Jobs, j.user \in known, j.row = user[j.user],
           ~LastSuperadmin(j)
    PROVE  OthersRemain(j)
<1>1. CASE ~(j.row.active /\ Superadmin \in j.row.roles)
    BY <1>1 DEF SuperadminRemains, OthersRemain, Superadmins
<1>2. CASE RemainsSuperadmin(j)
    BY <1>2 DEF OthersRemain
<1>3. CASE ~(Cardinality(Superadmins) <= 1)
    <2>1. SUFFICES ASSUME \A u \in Superadmins : u = j.user PROVE FALSE
        BY DEF OthersRemain
    <2>2. Superadmins = {j.user}
        BY <2>1 DEF SuperadminRemains
    <2>3. Cardinality(Superadmins) = 1
        BY <2>2, FS_Singleton
    <2>4. QED
        BY <1>3, <2>3
<1>4. QED
    BY <1>1, <1>2, <1>3 DEF LastSuperadmin

LEMMA TestContinuityOne ==
    ASSUME NEW c \in Calls, OneInv(c), TestContinuity(c)
    PROVE  StillTrue(at[c], job[c])'
<1>1. /\ job[c] \in Jobs /\ at[c] = "list" /\ UNCHANGED <<tables, stale, online>>
      /\ job[c].op = "updateUser" /\ Chosen(job[c])
      /\ job[c].user \in known /\ job[c].row = user[job[c].user]
    BY TypesApart DEF OneInv, TestContinuity, StillTrue, Fits
<1>2. CASE Ended(c)
    BY <1>2, EndedCall, IdleStillTrue DEF OneInv
<1>3. CASE ~Ended(c)
    <2>1. ~LastSuperadmin(job[c]) /\ Goes(c, "current", job[c])
        BY <1>3 DEF TestContinuity
    <2>2. at'[c] = "current" /\ job'[c] = job[c]
        BY <2>1, TypesApart DEF OneInv, Goes
    <2>3. OthersRemain(job[c])
        BY <1>1, <2>1, OneOrAnother DEF OneInv, Settled
    <2>4. known' = known /\ user' = user /\ defined' = defined /\ grants' = grants
        BY <1>1 DEF tables
    <2>5. (Chosen(job[c]) /\ OthersRemain(job[c]))'
        BY <1>1, <2>2, <2>3, <2>4
        DEF Chosen, Granted, OthersRemain, Superadmins, RemainsSuperadmin, NextActive, NextRoles
    <2>6. QED
        BY <1>1, <2>2, <2>4, <2>5 DEF StillTrue
<1>4. QED
    BY <1>2, <1>3

(* Reading the row again shows the same row.                               *)
LEMMA ReadCurrentOne ==
    ASSUME NEW c \in Calls, OneInv(c), ReadCurrent(c)
    PROVE  StillTrue(at[c], job[c])'
<1>1. /\ job[c] \in Jobs /\ at[c] = "current" /\ UNCHANGED <<tables, stale, online>>
      /\ job[c].op = "updateUser" /\ Chosen(job[c]) /\ OthersRemain(job[c])
      /\ job[c].user \in known /\ job[c].row = user[job[c].user]
    BY TypesApart DEF OneInv, ReadCurrent, StillTrue, Fits
<1>2. at'[c] = "write" /\ job'[c] = [job[c] EXCEPT !.row = user[job[c].user]]
    BY TypesApart DEF OneInv, ReadCurrent, Goes
<1>3. job'[c] = job[c]
    BY <1>1, <1>2 DEF Jobs
<1>4. known' = known /\ user' = user /\ defined' = defined /\ grants' = grants
    BY <1>1 DEF tables
<1>5. (Chosen(job[c]) /\ OthersRemain(job[c]))'
    BY <1>1, <1>3, <1>4
    DEF Chosen, Granted, OthersRemain, Superadmins, RemainsSuperadmin, NextActive, NextRoles
<1>6. QED
    BY <1>1, <1>2, <1>3, <1>4, <1>5 DEF StillTrue

LEMMA ReadRoleOne ==
    ASSUME NEW c \in Calls, OneInv(c), ReadRole(c) \/ FindAssigned(c)
    PROVE  StillTrue(at[c], job[c])'
<1>1. /\ UNCHANGED tables
      /\ \/ Ended(c)
         \/ Goes(c, "writeRole", job[c]) \/ Goes(c, "findAssigned", job[c])
         \/ /\ Goes(c, "deleteRole", job[c])
            /\ \A u \in known : job[c].role \notin user[u].roles
    BY DEF ReadRole, FindAssigned
<1>2. /\ at'[c] \in {"idle", "writeRole", "findAssigned", "deleteRole"}
      /\ at'[c] = "deleteRole" =>
            job'[c] = job[c] /\ \A u \in known : job[c].role \notin user[u].roles
    BY <1>1, TypesApart DEF OneInv, Goes, Ended
<1>3. QED
    BY <1>1, <1>2 DEF StillTrue, tables

LEMMA ListUsersOne ==
    ASSUME NEW c \in Calls, OneInv(c), ListUsers(c)
    PROVE  StillTrue(at[c], job[c])'
<1>1. PICK j \in Jobs : j = job[c]
    BY TypesApart DEF OneInv
<1>2. /\ UNCHANGED tables /\ at'[c] = "resolveNext"
      /\ job'[c] = [j EXCEPT !.left = {u \in known : j.role \in user[u].roles},
                             !.listed = [u \in Users |-> user[u].roles]]
    BY <1>1, TypesApart DEF ListUsers, Goes, OneInv
<1>3. /\ job'[c].left = {u \in known : j.role \in user[u].roles}
      /\ job'[c].listed = [u \in Users |-> user[u].roles] /\ job'[c].role = j.role
    BY <1>2 DEF Jobs
<1>4. known' = known /\ user' = user /\ known \subseteq Users
    BY <1>2, TypesApart DEF tables, OneInv
<1>5. QED
    BY <1>2, <1>3, <1>4 DEF StillTrue

LEMMA ResolveNextOne ==
    ASSUME NEW c \in Calls, OneInv(c), NEW u \in Users, ResolveNext(c, u)
    PROVE  StillTrue(at[c], job[c])'
<1>1. PICK j \in Jobs : j = job[c]
    BY TypesApart DEF OneInv
<1>2. /\ at[c] = "resolveNext" /\ u \in j.left /\ UNCHANGED tables
      /\ \A w \in j.left : w \in known /\ j.role \in user[w].roles
      /\ \A w \in known : j.listed[w] = user[w].roles
      /\ \A w \in known \ j.left : j.role \in user[w].roles => Current(w)
    BY <1>1 DEF ResolveNext, OneInv, StillTrue
<1>3. ~Unknown(j.listed[u])
    BY <1>2 DEF OneInv, Settled, AssignedRolesExist, Unknown
<1>4. /\ at'[c] = "currentNext"
      /\ job'[c] = [j EXCEPT !.user = u, !.permissions = Recalculated(j, u), !.roles = Keep]
    BY <1>1, <1>3, TypesApart DEF ResolveNext, Goes, OneInv
<1>5. /\ job'[c].user = u /\ job'[c].permissions = Granted(user[u].roles)
      /\ job'[c].roles = Keep /\ job'[c].left = j.left /\ job'[c].role = j.role
      /\ job'[c].listed = j.listed
    BY <1>2, <1>4 DEF Jobs, Recalculated
<1>6. known' = known /\ user' = user /\ grants' = grants
    BY <1>2 DEF tables
<1>7. QED
    BY <1>2, <1>4, <1>5, <1>6 DEF StillTrue, Granted, Current

LEMMA ReadNextOne ==
    ASSUME NEW c \in Calls, OneInv(c), ReadNext(c)
    PROVE  StillTrue(at[c], job[c])'
<1>1. PICK j \in Jobs : j = job[c]
    BY TypesApart DEF OneInv
<1>2. /\ at[c] = "currentNext" /\ UNCHANGED tables
      /\ at'[c] = "writeNext" /\ job'[c] = [j EXCEPT !.row = user[j.user]]
    BY <1>1, TypesApart DEF ReadNext, Goes, OneInv
<1>3. /\ job'[c].user = j.user /\ job'[c].permissions = j.permissions
      /\ job'[c].roles = j.roles /\ job'[c].left = j.left /\ job'[c].role = j.role
      /\ job'[c].listed = j.listed /\ job'[c].row = user[j.user]
    BY <1>2 DEF Jobs
<1>4. known' = known /\ user' = user /\ grants' = grants
    BY <1>2 DEF tables
<1>5. QED
    BY <1>1, <1>2, <1>3, <1>4 DEF OneInv, StillTrue, Granted, Current

-----------------------------------------------------------------------------
(* Steps that write, of a call that nobody has overtaken                   *)

(* What excuses users is kept for those whose roles stay, while the roles  *)
(* being updated and their calls stay.                                     *)
LEMMA StillExcused ==
    ASSUME NEW c \in Calls, Alone(c), NEW u \in known, u \in known', user'[u].roles = user[u].roles,
           Excused(u), stale \subseteq stale',
           u \in Behind(at[c], job[c]) =>
               u \in Behind(at[c], job[c])' /\ job'[c].role = job[c].role
    PROVE  Excused(u)'
<1>1. CASE user[u].roles \cap stale # {}
    BY <1>1 DEF Excused
<1>2. CASE \E d \in Calls : u \in Behind(at[d], job[d]) /\ job[d].role \in user[u].roles
    <2>1. PICK d \in Calls : u \in Behind(at[d], job[d]) /\ job[d].role \in user[u].roles
        BY <1>2
    <2>2. CASE d = c
        BY <2>1, <2>2 DEF Excused
    <2>3. CASE d # c
        <3>1. at'[d] = at[d] /\ job'[d] = job[d]
            BY <2>3 DEF Alone
        <3>2. u \in Behind(at[d], job[d])' /\ job'[d].role \in user'[u].roles
            BY <2>1, <3>1 DEF Behind
        <3>3. QED
            BY <3>2 DEF Excused
    <2>4. QED
        BY <2>2, <2>3
<1>3. QED
    BY <1>1, <1>2 DEF Excused

LEMMA WriteUserOne ==
    ASSUME NEW c \in Calls, OneInv(c), WriteUser(c)
    PROVE  Settled' /\ at'[c] = "idle"
<1>1. PICK j \in Jobs : j = job[c]
    BY TypesApart DEF OneInv
<1>2. /\ at[c] = "write" /\ Written(j) /\ known' = known \cup {j.user} /\ Ended(c)
      /\ UNCHANGED <<defined, grants, stale, online>>
    BY <1>1 DEF WriteUser
<1>3. /\ j.op \in {"createUser", "updateUser"} /\ Chosen(j)
      /\ j.op = "createUser" => j.user \notin known /\ j.roles # Keep
      /\ j.op = "updateUser" => j.user \in known /\ j.row = user[j.user] /\ OthersRemain(j)
    BY <1>1, <1>2, TypesApart DEF OneInv, StillTrue, Fits
<1>4. /\ j.user \in Users /\ j.roles \in (SUBSET Roles) \cup {Keep}
      /\ grants \in [Roles -> SUBSET Permissions] /\ known \subseteq Users
      /\ user \in [Users -> Columns]
    BY JobFields, TypesApart DEF OneInv
<1>5. /\ user'[j.user].roles = NextRoles(j) /\ user'[j.user].active = NextActive(j)
      /\ user'[j.user].permissions = Or(j.permissions, j.row.permissions)
      /\ \A u \in Users : u # j.user => user'[u] = user[u]
    BY <1>2, WrittenIsColumns DEF OneInv
<1>6. \/ /\ user'[j.user].roles \subseteq defined
         /\ user'[j.user].permissions = Granted(user'[j.user].roles)
      \/ /\ j.user \in known /\ user'[j.user].roles = user[j.user].roles
         /\ user'[j.user].permissions = user[j.user].permissions
    <2>1. CASE j.roles # Keep
        <3>1. j.roles \subseteq defined /\ j.permissions = Granted(j.roles)
            BY <1>3, <2>1 DEF Chosen
        <3>2. j.permissions # Keep
            BY <1>4, <2>1, <3>1, KeepIsOther
        <3>3. NextRoles(j) = j.roles /\ Or(j.permissions, j.row.permissions) = j.permissions
            BY <2>1, <3>2 DEF NextRoles, Or
        <3>4. QED
            BY <1>5, <3>1, <3>3
    <2>2. CASE j.roles = Keep
        <3>1. j.permissions = Keep /\ j.user \in known /\ j.row = user[j.user]
            BY <1>3, <2>2 DEF Chosen
        <3>2. NextRoles(j) = j.row.roles
              /\ Or(j.permissions, j.row.permissions) = j.row.permissions
            BY <2>2, <3>1 DEF NextRoles, Or
        <3>3. QED
            BY <1>5, <3>1, <3>2
    <2>3. QED
        BY <2>1, <2>2
<1>7. AssignedRolesExist'
    BY <1>2, <1>4, <1>5, <1>6 DEF OneInv, Settled, AssignedRolesExist
<1>8. SuperadminRemains'
    <2>1. \A u \in Superadmins : u # j.user => u \in Superadmins'
        BY <1>2, <1>4, <1>5 DEF Superadmins
    <2>2. RemainsSuperadmin(j) => j.user \in Superadmins'
        BY <1>2, <1>5 DEF Superadmins, RemainsSuperadmin
    <2>3. \A u \in Superadmins : u \in known
        BY DEF Superadmins
    <2>4. QED
        BY <1>3, <2>1, <2>2, <2>3 DEF OneInv, Settled, SuperadminRemains, OthersRemain
<1>9. at'[c] = "idle" /\ Behind(at[c], job[c]) = {} /\ Alone(c)
    BY <1>2, EndedCall, NobodyBehind, MovesAlone DEF OneInv, Recalculating
<1>10. ASSUME NEW u \in known' PROVE Current(u)' \/ Excused(u)'
    <2>1. CASE user'[u].permissions = Granted(user'[u].roles)
        BY <1>2, <2>1 DEF Current, Granted
    <2>2. CASE ~(user'[u].permissions = Granted(user'[u].roles))
        <3>1. /\ u \in known /\ user'[u].roles = user[u].roles
              /\ user'[u].permissions = user[u].permissions
            BY <1>2, <1>4, <1>5, <1>6, <2>2
        <3>2. ~Current(u)
            BY <2>2, <3>1 DEF Current
        <3>3. Excused(u)
            BY <3>1, <3>2 DEF OneInv, Settled, UpToDate
        <3>4. QED
            BY <1>2, <1>9, <3>1, <3>3, StillExcused
    <2>3. QED
        BY <2>1, <2>2
<1>11. QED
    BY <1>7, <1>8, <1>9, <1>10 DEF Settled, UpToDate

(* Granting a role something else leaves what other roles grant.           *)
LEMMA OtherGrants ==
    ASSUME grants \in [Roles -> SUBSET Permissions], NEW r \in Roles, NEW p,
           grants' = [grants EXCEPT ![r] = p]
    PROVE  \A roles \in SUBSET Roles : r \notin roles =>
               UNION {grants'[x] : x \in roles} = Granted(roles)
BY DEF Granted

(* From here on the holders of the role are behind.                        *)
LEMMA WriteRoleOne ==
    ASSUME NEW c \in Calls, OneInv(c), WriteRole(c)
    PROVE  Settled' /\ StillTrue(at[c], job[c])'
<1>1. PICK j \in Jobs : j = job[c]
    BY TypesApart DEF OneInv
<1>2. /\ UNCHANGED <<defined, known, user, stale, online>> /\ at[c] = "writeRole"
      /\ j.role \in Roles /\ at[c] \notin Recalculating
      /\ grants \in [Roles -> SUBSET Permissions] /\ user \in [Users -> Columns]
      /\ known \subseteq Users /\ Behind(at[c], job[c]) = {}
    BY <1>1, JobFields, TypesApart, NobodyBehind DEF WriteRole, OneInv, Recalculating
<1>3. SuperadminRemains' /\ AssignedRolesExist'
    BY <1>2 DEF OneInv, Settled, SuperadminRemains, AssignedRolesExist, Superadmins
<1>4. Alone(c)
    BY StepsAlone DEF OneInv, Step
<1>5. CASE Ended(c) /\ UNCHANGED grants
    <2>1. at'[c] = "idle"
        BY <1>5, EndedCall DEF OneInv
    <2>2. UNCHANGED tables
        BY <1>2, <1>5 DEF tables
    <2>3. QED
        BY <1>2, <1>4, <2>1, <2>2, IdleStillTrue, ReadingSettled DEF OneInv
<1>6. CASE grants' = [grants EXCEPT ![j.role] = j.permissions] /\ Goes(c, "listUsers", j)
    <2>1. at'[c] = "listUsers" /\ job'[c] = j
        BY <1>6, TypesApart DEF OneInv, Goes
    <2>2. StillTrue(at[c], job[c])'
        BY <2>1 DEF StillTrue
    <2>3. ASSUME NEW u \in known PROVE Current(u)' \/ Excused(u)'
        <3>1. CASE j.role \in user[u].roles
            <4>1. u \in Behind(at[c], job[c])' /\ job'[c].role \in user'[u].roles
                BY <1>2, <2>1, <3>1 DEF Behind
            <4>2. QED
                BY <4>1 DEF Excused
        <3>2. CASE j.role \notin user[u].roles
            <4>1. user[u].roles \in SUBSET Roles
                BY <1>2 DEF Columns
            <4>2. UNION {grants'[x] : x \in user[u].roles} = Granted(user[u].roles)
                BY <1>2, <1>6, <3>2, <4>1, OtherGrants
            <4>3. CASE Current(u)
                BY <1>2, <4>2, <4>3 DEF Current, Granted
            <4>4. CASE Excused(u)
                BY <1>2, <1>4, <4>4, StillExcused
            <4>5. QED
                BY <4>3, <4>4 DEF OneInv, Settled, UpToDate
        <3>3. QED
            BY <3>1, <3>2
    <2>4. UpToDate'
        BY <1>2, <2>3 DEF UpToDate
    <2>5. QED
        BY <1>3, <2>2, <2>4 DEF Settled
<1>7. QED
    BY <1>1, <1>5, <1>6 DEF WriteRole

LEMMA WriteNextOne ==
    ASSUME NEW c \in Calls, OneInv(c), WriteNext(c)
    PROVE  Settled' /\ StillTrue(at[c], job[c])'
<1>1. PICK j \in Jobs : j = job[c]
    BY TypesApart DEF OneInv
<1>2. /\ at[c] = "writeNext" /\ Written(j) /\ UNCHANGED <<defined, grants, known, stale, online>>
      /\ at'[c] = "resolveNext" /\ job'[c] = [j EXCEPT !.left = @ \ {j.user}]
    BY <1>1, TypesApart DEF WriteNext, Goes, OneInv
<1>3. /\ j.user \in j.left /\ j.roles = Keep /\ j.permissions = Granted(user[j.user].roles)
      /\ j.row = user[j.user] /\ j.active = Keep
      /\ \A w \in j.left : w \in known /\ j.role \in user[w].roles
      /\ \A w \in known : j.listed[w] = user[w].roles
      /\ \A w \in known \ j.left : j.role \in user[w].roles => Current(w)
    BY <1>1, <1>2, TypesApart DEF OneInv, StillTrue, Fits, Recalculating
<1>4. job'[c].left = j.left \ {j.user} /\ job'[c].role = j.role /\ job'[c].listed = j.listed
    BY <1>2 DEF Jobs
<1>5. /\ grants \in [Roles -> SUBSET Permissions] /\ user \in [Users -> Columns]
      /\ known \subseteq Users /\ j.user \in Users /\ user[j.user].roles \in SUBSET Roles
    BY JobFields, TypesApart DEF OneInv, Columns
<1>6. /\ user'[j.user].roles = user[j.user].roles /\ user'[j.user].active = user[j.user].active
      /\ user'[j.user].permissions = Granted(user[j.user].roles)
      /\ \A w \in Users : w # j.user => user'[w] = user[w]
    <2>1. j.permissions # Keep
        BY <1>3, <1>5, KeepIsOther
    <2>2. /\ NextRoles(j) = user[j.user].roles /\ NextActive(j) = user[j.user].active
          /\ Or(j.permissions, j.row.permissions) = Granted(user[j.user].roles)
        BY <1>3, <2>1 DEF NextRoles, NextActive, Or
    <2>3. QED
        BY <1>2, <2>2, WrittenIsColumns DEF OneInv
<1>7. \A w \in known : user'[w].roles = user[w].roles /\ user'[w].active = user[w].active
    BY <1>5, <1>6
<1>8. SuperadminRemains' /\ AssignedRolesExist'
    BY <1>2, <1>7 DEF OneInv, Settled, SuperadminRemains, AssignedRolesExist, Superadmins
<1>9. \A w \in known : w = j.user \/ Current(w) => Current(w)'
    BY <1>2, <1>5, <1>6 DEF Current, Granted
<1>10. StillTrue(at[c], job[c])'
    BY <1>2, <1>3, <1>4, <1>7, <1>9 DEF StillTrue
<1>11. ASSUME NEW w \in known PROVE Current(w)' \/ Excused(w)'
    <2>1. CASE w = j.user \/ Current(w)
        BY <1>9, <2>1
    <2>2. CASE w # j.user /\ Excused(w)
        <3>1. Alone(c)
            BY StepsAlone DEF OneInv, Step
        <3>2. w \in Behind(at[c], job[c]) => w \in Behind(at[c], job[c])'
            BY <1>1, <1>2, <1>4, <2>2 DEF Behind, Recalculating
        <3>3. QED
            BY <1>1, <1>2, <1>4, <1>7, <2>2, <3>1, <3>2, StillExcused
    <2>3. QED
        BY <2>1, <2>2 DEF OneInv, Settled, UpToDate
<1>12. UpToDate'
    BY <1>2, <1>11 DEF UpToDate
<1>13. QED
    BY <1>8, <1>10, <1>12 DEF Settled

(* Nobody is behind any more: whoever has the role has been written.       *)
LEMMA EndUpdateRoleOne ==
    ASSUME NEW c \in Calls, OneInv(c), EndUpdateRole(c)
    PROVE  Settled' /\ at'[c] = "idle"
<1>1. PICK j \in Jobs : j = job[c]
    BY TypesApart DEF OneInv
<1>2. /\ at[c] = "resolveNext" /\ j.left = {} /\ stale' = stale \ {j.role} /\ Ended(c)
      /\ UNCHANGED <<tables, online>> /\ Behind(at[c], job[c]) = {}
      /\ \A u \in known : j.role \in user[u].roles => Current(u)
    BY <1>1 DEF EndUpdateRole, OneInv, StillTrue, Behind, Recalculating
<1>3. at'[c] = "idle" /\ Alone(c)
    BY <1>2, EndedCall, MovesAlone DEF OneInv
<1>4. known' = known /\ user' = user /\ grants' = grants /\ defined' = defined
    BY <1>2 DEF tables
<1>5. SuperadminRemains' /\ AssignedRolesExist'
    BY <1>4 DEF OneInv, Settled, SuperadminRemains, AssignedRolesExist, Superadmins
<1>6. ASSUME NEW u \in known PROVE Current(u)' \/ Excused(u)'
    <2>1. CASE Current(u)
        BY <1>4, <2>1 DEF Current, Granted
    <2>2. CASE j.role \notin user[u].roles /\ user[u].roles \cap stale # {}
        BY <1>2, <1>4, <2>2 DEF Excused
    <2>3. CASE \E d \in Calls : u \in Behind(at[d], job[d]) /\ job[d].role \in user[u].roles
        <3>1. PICK d \in Calls : u \in Behind(at[d], job[d]) /\ job[d].role \in user[u].roles
            BY <2>3
        <3>2. at'[d] = at[d] /\ job'[d] = job[d]
            BY <1>2, <1>3, <3>1 DEF Alone
        <3>3. u \in Behind(at[d], job[d])' /\ job'[d].role \in user'[u].roles
            BY <1>4, <3>1, <3>2 DEF Behind
        <3>4. QED
            BY <3>3 DEF Excused
    <2>4. QED
        BY <1>2, <2>1, <2>2, <2>3 DEF OneInv, Settled, UpToDate, Excused
<1>7. QED
    BY <1>3, <1>4, <1>5, <1>6 DEF Settled, UpToDate

LEMMA DeleteRoleOne ==
    ASSUME NEW c \in Calls, OneInv(c), DeleteRole(c)
    PROVE  Settled' /\ at'[c] = "idle"
<1>1. PICK j \in Jobs : j = job[c]
    BY TypesApart DEF OneInv
<1>2. /\ at[c] = "deleteRole" /\ defined' = defined \ {j.role} /\ Ended(c)
      /\ grants' = [grants EXCEPT ![j.role] = {}] /\ stale' = stale \ {j.role}
      /\ UNCHANGED <<known, user, online>>
      /\ \A u \in known : j.role \notin user[u].roles
      /\ Behind(at[c], job[c]) = {}
    BY <1>1, NobodyBehind DEF DeleteRole, OneInv, StillTrue, Recalculating
<1>3. /\ j.role \in Roles /\ grants \in [Roles -> SUBSET Permissions]
      /\ \A u \in known : user[u].roles \in SUBSET Roles
    BY JobFields, TypesApart DEF OneInv, Columns
<1>4. SuperadminRemains' /\ AssignedRolesExist'
    BY <1>2 DEF OneInv, Settled, SuperadminRemains, AssignedRolesExist, Superadmins
<1>5. at'[c] = "idle" /\ Alone(c)
    BY <1>2, EndedCall, MovesAlone DEF OneInv
<1>6. ASSUME NEW u \in known PROVE Current(u)' \/ Excused(u)'
    <2>1. CASE Current(u)
        <3>1. UNION {grants'[x] : x \in user[u].roles} = Granted(user[u].roles)
            BY <1>2, <1>3, OtherGrants
        <3>2. QED
            BY <1>2, <2>1, <3>1 DEF Current, Granted
    <2>2. CASE user[u].roles \cap stale # {}
        BY <1>2, <2>2 DEF Excused
    <2>3. CASE \E d \in Calls : u \in Behind(at[d], job[d]) /\ job[d].role \in user[u].roles
        <3>1. PICK d \in Calls : u \in Behind(at[d], job[d]) /\ job[d].role \in user[u].roles
            BY <2>3
        <3>2. at'[d] = at[d] /\ job'[d] = job[d]
            BY <1>2, <1>5, <3>1 DEF Alone
        <3>3. u \in Behind(at[d], job[d])' /\ job'[d].role \in user'[u].roles
            BY <1>2, <3>1, <3>2 DEF Behind
        <3>4. QED
            BY <3>3 DEF Excused
    <2>4. QED
        BY <2>1, <2>2, <2>3 DEF OneInv, Settled, UpToDate, Excused
<1>7. QED
    BY <1>2, <1>4, <1>5, <1>6 DEF Settled, UpToDate

(* Nobody has a role that is only being created, and no call has read it.  *)
LEMMA CreateRoleKeeps ==
    ASSUME TInv, Settled, NEW actor, NEW r \in CustomRoles, NEW permissions,
           CreateRole(actor, r, permissions)
    PROVE  /\ Settled'
           /\ \A c \in Calls : StillTrue(at[c], job[c]) => StillTrue(at[c], job[c])'
<1>1. /\ r \notin defined /\ defined' = defined \cup {r}
      /\ grants' = [grants EXCEPT ![r] = permissions]
      /\ UNCHANGED <<known, user, at, job, stale, online>>
    BY DEF CreateRole
<1>2. /\ r \in Roles /\ grants \in [Roles -> SUBSET Permissions] /\ defined \subseteq Roles
    BY TypesApart DEF Roles
<1>3. \A roles \in SUBSET defined : UNION {grants'[x] : x \in roles} = Granted(roles)
    BY <1>1, <1>2, OtherGrants
<1>4. \A u \in known : user[u].roles \in SUBSET defined
    BY DEF Settled, AssignedRolesExist
<1>5. SuperadminRemains' /\ AssignedRolesExist'
    BY <1>1 DEF Settled, SuperadminRemains, AssignedRolesExist, Superadmins
<1>6. \A u \in known : Current(u) => Current(u)'
    <2>1. \A u \in known : UNION {grants'[x] : x \in user[u].roles} = Granted(user[u].roles)
        BY <1>3, <1>4
    <2>2. QED
        BY <1>1, <2>1 DEF Current, Granted
<1>7. \A u \in known : Excused(u) => Excused(u)'
    BY <1>1 DEF Excused, Behind
<1>8. ASSUME NEW c \in Calls, StillTrue(at[c], job[c]) PROVE StillTrue(at[c], job[c])'
    <2>1. PICK j \in Jobs : j = job[c]
        BY TypesApart
    <2>2. Chosen(j) => Chosen(j)'
        <3>1. SUFFICES ASSUME Chosen(j) PROVE Chosen(j)'
            OBVIOUS
        <3>2. CASE j.roles = Keep
            BY <3>1, <3>2 DEF Chosen
        <3>3. CASE j.roles # Keep
            <4>1. j.roles \in SUBSET defined /\ j.permissions = Granted(j.roles)
                BY <3>1, <3>3 DEF Chosen
            <4>2. j.permissions = UNION {grants'[x] : x \in j.roles}
                BY <1>3, <4>1
            <4>3. QED
                BY <1>1, <3>3, <4>1, <4>2 DEF Chosen, Granted
        <3>4. QED
            BY <3>2, <3>3
    <2>3. OthersRemain(j) => OthersRemain(j)'
        BY <1>1 DEF OthersRemain, Superadmins, RemainsSuperadmin, NextRoles, NextActive
    <2>4. ASSUME at[c] \in {"currentNext", "writeNext"}
          PROVE  j.permissions = UNION {grants'[x] : x \in user[j.user].roles}
        <3>1. j.user \in known /\ j.permissions = Granted(user[j.user].roles)
            BY <1>8, <2>1, <2>4 DEF StillTrue
        <3>2. QED
            BY <1>3, <1>4, <3>1
    <2>5. StillTrue(at[c], j)
        BY <1>8, <2>1
    <2>6. StillTrue(at[c], j)'
        <3>1. ASSUME at[c] \in {"resolveNext", "currentNext", "writeNext"}
              PROVE  \A u \in known \ j.left : j.role \in user[u].roles => Current(u)'
            BY <1>6, <2>5, <3>1 DEF StillTrue
        <3>2. QED
            BY <1>1, <2>2, <2>3, <2>4, <2>5, <3>1 DEF StillTrue, Granted
    <2>7. QED
        BY <1>1, <2>1, <2>6
<1>9. UpToDate'
    BY <1>1, <1>6, <1>7 DEF Settled, UpToDate
<1>10. QED
    BY <1>5, <1>8, <1>9 DEF Settled

LEMMA ElsewhereKeeps ==
    ASSUME Settled, UNCHANGED <<tables, at, job, stale>>
    PROVE  Settled'
<1>1. known' = known /\ user' = user /\ grants' = grants /\ defined' = defined
      /\ at' = at /\ job' = job /\ stale' = stale
    BY DEF tables
<1>2. SuperadminRemains' /\ AssignedRolesExist'
    BY <1>1 DEF Settled, SuperadminRemains, AssignedRolesExist, Superadmins
<1>3. UpToDate'
    BY <1>1 DEF Settled, UpToDate, Current, Granted, Excused, Behind
<1>4. QED
    BY <1>2, <1>3 DEF Settled

-----------------------------------------------------------------------------
(* Any number of calls                                                     *)

(* Whoever reads keeps the accounts and roles settled, and what it has     *)
(* read is true if nobody has overtaken it.                                *)
Reads(c) ==
    \/ \E actor \in Users : Asks(c, actor)
    \/ ReadUser(c) \/ ResolveRoles(c) \/ TestContinuity(c) \/ ReadCurrent(c)
    \/ ReadRole(c) \/ FindAssigned(c)
    \/ ListUsers(c) \/ ReadNext(c) \/ \E u \in Users : ResolveNext(c, u)
    \/ CutOff(c)

LEMMA ReadingKeeps ==
    ASSUME TInv, Settled, NEW c \in Calls, Reads(c)
    PROVE  /\ Settled' /\ Alone(c) /\ UNCHANGED tables
           /\ StillTrue(at[c], job[c]) => StillTrue(at[c], job[c])'
<1>1. ASSUME NEW actor \in Users, Asks(c, actor)
      PROVE  /\ Settled' /\ Alone(c) /\ UNCHANGED tables
             /\ StillTrue(at[c], job[c]) => StillTrue(at[c], job[c])'
    BY <1>1, AskedStep, AskedAlone, AskedSettled, AskedOne DEF OneInv
<1>2. CASE \/ ReadUser(c) \/ ResolveRoles(c) \/ TestContinuity(c) \/ ReadCurrent(c)
           \/ ReadRole(c) \/ FindAssigned(c)
    <2>1. Alone(c)
        BY <1>2, StepsAlone DEF Step
    <2>2. Settled'
        BY <1>2, <2>1, AccountReadsSettled
    <2>3. UNCHANGED tables
        BY <1>2 DEF ReadUser, ResolveRoles, TestContinuity, ReadCurrent, ReadRole, FindAssigned
    <2>4. StillTrue(at[c], job[c]) => StillTrue(at[c], job[c])'
        BY <1>2, ReadUserOne, ResolveRolesOne, TestContinuityOne, ReadCurrentOne, ReadRoleOne
        DEF OneInv
    <2>5. QED
        BY <2>1, <2>2, <2>3, <2>4
<1>3. CASE ListUsers(c) \/ ReadNext(c) \/ \E u \in Users : ResolveNext(c, u)
    <2>1. Alone(c)
        BY <1>3, StepsAlone DEF Step
    <2>2. Settled'
        BY <1>3, <2>1, RecalculationReadsSettled
    <2>3. UNCHANGED tables
        BY <1>3 DEF ListUsers, ReadNext, ResolveNext
    <2>4. StillTrue(at[c], job[c]) => StillTrue(at[c], job[c])'
        BY <1>3, ListUsersOne, ReadNextOne, ResolveNextOne DEF OneInv
    <2>5. QED
        BY <2>1, <2>2, <2>3, <2>4
<1>4. CASE CutOff(c)
    <2>1. Ended(c) /\ UNCHANGED tables
        BY <1>4 DEF CutOff
    <2>2. at'[c] = "idle"
        BY <2>1, EndedCall
    <2>3. QED
        BY <1>4, <2>1, <2>2, CutOffSettled, StepsAlone, IdleStillTrue
<1>5. QED
    BY <1>1, <1>2, <1>3, <1>4 DEF Reads

(* A call that writes has overtaken all others in flight.                  *)
LEMMA WritingKeeps ==
    ASSUME TInv, Settled, NEW c \in Calls, StillTrue(at[c], job[c]), Writes(c) \/ EndUpdateRole(c)
    PROVE  Settled' /\ Alone(c) /\ StillTrue(at[c], job[c])'
<1>1. Alone(c)
    BY StepsAlone DEF Writes, Step
<1>2. OneInv(c)
    BY DEF OneInv
<1>3. CASE WriteUser(c) \/ DeleteRole(c) \/ EndUpdateRole(c)
    <2>1. Settled' /\ at'[c] = "idle"
        BY <1>2, <1>3, WriteUserOne, DeleteRoleOne, EndUpdateRoleOne
    <2>2. QED
        BY <1>1, <2>1, IdleStillTrue
<1>4. CASE WriteRole(c) \/ WriteNext(c)
    BY <1>1, <1>2, <1>4, WriteRoleOne, WriteNextOne
<1>5. QED
    BY <1>3, <1>4 DEF Writes

LEMMA RacesInitially == RacesInit => RInv
<1> SUFFICES ASSUME RacesInit PROVE RInv
    OBVIOUS
<1>1. TInv /\ AccountsInit /\ overtaken = {} /\ raced = FALSE
    BY TypesInitially DEF RacesInit
<1>2. Superadmins = {Owner}
    BY <1>1, OwnerIsAUser DEF AccountsInit, Superadmins
<1>3. SuperadminRemains /\ AssignedRolesExist
    BY <1>1, <1>2, OwnerIsAUser DEF AccountsInit, SuperadminRemains, AssignedRolesExist
<1>4. UpToDate
    <2>1. /\ user[Owner].permissions = {Manage} /\ user[Owner].roles = {Superadmin}
          /\ grants[Superadmin] = {Manage} /\ known = {Owner}
        BY <1>1, OwnerIsAUser DEF AccountsInit, Roles
    <2>2. Granted({Superadmin}) = {Manage}
        BY <2>1 DEF Granted
    <2>3. QED
        BY <2>1, <2>2 DEF UpToDate, Current
<1>5. \A c \in Calls : StillTrue(at[c], job[c])
    BY <1>1 DEF AccountsInit, StillTrue
<1>6. QED
    BY <1>1, <1>3, <1>4, <1>5 DEF RInv, Settled

LEMMA RacesStep == RInv /\ [RacesNext]_racesVars => RInv'
<1> SUFFICES ASSUME RInv, [RacesNext]_racesVars PROVE RInv'
    OBVIOUS
<1>1. TInv'
    BY StepTypes DEF RInv, RacesNext, racesVars
<1>2. CASE UNCHANGED racesVars
    <2>1. UNCHANGED <<tables, at, job, stale>> /\ overtaken' = overtaken /\ raced' = raced
        BY <1>2 DEF racesVars, accountVars
    <2>2. ~raced => \A c \in Calls \ overtaken : StillTrue(at[c], job[c])'
        BY <2>1, WaitingStillTrue DEF RInv
    <2>3. QED
        BY <1>1, <2>1, <2>2, ElsewhereKeeps DEF RInv
<1>3. CASE RacesNext
    <2>1. AccountsNext /\ Overtaken /\ Raced
        BY <1>3 DEF RacesNext
    <2>2. overtaken' \in SUBSET Calls /\ raced' \in BOOLEAN
        BY <2>1 DEF Overtaken, Raced, RInv
    <2>3. SUFFICES ASSUME ~raced'
                   PROVE  Settled' /\ \A d \in Calls \ overtaken' : StillTrue(at[d], job[d])'
        BY <1>1, <2>2 DEF RInv
    <2>4. ~raced /\ \A c \in overtaken : ~Writes(c) /\ ~EndUpdateRole(c)
        BY <2>1, <2>3 DEF Raced, RInv
    <2>5. TInv /\ Settled /\ \A c \in Calls \ overtaken : StillTrue(at[c], job[c])
        BY <2>4 DEF RInv
    <2>6. \A d \in Calls \ overtaken' : at'[d] = "idle" \/ d \notin overtaken
        BY <2>1 DEF Overtaken
    <2>7. ASSUME NEW c \in Calls, Reads(c)
          PROVE  Settled' /\ \A d \in Calls \ overtaken' : StillTrue(at[d], job[d])'
        <3>1. /\ Settled' /\ Alone(c) /\ UNCHANGED tables
              /\ StillTrue(at[c], job[c]) => StillTrue(at[c], job[c])'
            BY <2>5, <2>7, ReadingKeeps
        <3>2. ASSUME NEW d \in Calls \ overtaken' PROVE StillTrue(at[d], job[d])'
            <4>1. CASE at'[d] = "idle"
                BY <4>1, IdleStillTrue
            <4>2. CASE d \notin overtaken /\ d = c
                BY <2>5, <3>1, <4>2
            <4>3. CASE d \notin overtaken /\ d # c
                BY <2>5, <3>1, <4>3, WaitingStillTrue DEF Alone
            <4>4. QED
                BY <2>6, <4>1, <4>2, <4>3
        <3>3. QED
            BY <3>1, <3>2
    <2>8. ASSUME NEW c \in Calls, Writes(c)
          PROVE  Settled' /\ \A d \in Calls \ overtaken' : StillTrue(at[d], job[d])'
        <3>1. StillTrue(at[c], job[c])
            BY <2>4, <2>5, <2>8
        <3>2. Settled' /\ StillTrue(at[c], job[c])'
            BY <2>5, <2>8, <3>1, WritingKeeps
        <3>3. \A d \in Calls \ overtaken' : d = c \/ at'[d] = "idle"
            BY <2>1, <2>8 DEF Overtaken
        <3>4. QED
            BY <3>2, <3>3, IdleStillTrue
    <2>9. ASSUME NEW c \in Calls, EndUpdateRole(c)
          PROVE  Settled' /\ \A d \in Calls \ overtaken' : StillTrue(at[d], job[d])'
        <3>1. StillTrue(at[c], job[c])
            BY <2>4, <2>5, <2>9
        <3>2. Settled' /\ Alone(c) /\ StillTrue(at[c], job[c])' /\ UNCHANGED tables
            BY <2>5, <2>9, <3>1, WritingKeeps DEF EndUpdateRole
        <3>3. ASSUME NEW d \in Calls \ overtaken' PROVE StillTrue(at[d], job[d])'
            <4>1. CASE at'[d] = "idle" \/ d = c
                BY <3>2, <4>1, IdleStillTrue
            <4>2. CASE d \notin overtaken /\ d # c
                BY <2>5, <3>2, <4>2, WaitingStillTrue DEF Alone
            <4>3. QED
                BY <2>6, <4>1, <4>2
        <3>4. QED
            BY <3>2, <3>3
    <2>10. ASSUME NEW actor \in Users, NEW r \in CustomRoles, NEW permissions \in SUBSET Permissions,
                  CreateRole(actor, r, permissions)
           PROVE  Settled' /\ \A d \in Calls \ overtaken' : StillTrue(at[d], job[d])'
        BY <2>5, <2>6, <2>10, CreateRoleKeeps, IdleStillTrue
    <2>11. ASSUME NEW u \in Users, GoOnline(u) \/ Recheck(u) \/ Leave(u)
           PROVE  Settled' /\ \A d \in Calls \ overtaken' : StillTrue(at[d], job[d])'
        <3>1. UNCHANGED <<tables, at, job, stale>>
            BY <2>11 DEF GoOnline, Recheck, Leave
        <3>2. QED
            BY <2>5, <2>6, <3>1, ElsewhereKeeps, WaitingStillTrue, IdleStillTrue
    <2>12. QED
        BY <2>1, <2>7, <2>8, <2>9, <2>10, <2>11 DEF AccountsNext, Step, Reads, Writes
<1>4. QED
    BY <1>2, <1>3

LEMMA AlwaysRInv == RacesSpec => []RInv
<1>1. QED
    BY RacesInitially, RacesStep, PTL DEF RacesSpec

(* The rows of the accounts and roles, the calls and the sockets keep      *)
(* their types, and only known users are online, whatever interleaves.     *)
THEOREM AccountsTypeCorrect == RacesSpec => []RacesTypeOK
<1>1. RInv => RacesTypeOK
    BY DEF RInv, TInv, RacesTypeOK
<1>2. QED
    BY <1>1, AlwaysRInv, PTL

(* However many calls interleave, whoever calls, in whatever order, and    *)
(* wherever calls are cut off: somebody can manage the rest until a call   *)
(* that another one has overtaken goes on to write.                        *)
THEOREM SomebodyCanManage == RacesSpec => []LastSuperadminStays
<1>1. RInv => LastSuperadminStays
    BY DEF RInv, Settled, LastSuperadminStays
<1>2. QED
    BY <1>1, AlwaysRInv, PTL

(* Until then every role that is assigned exists, ...                      *)
THEOREM RolesExistWhileAssigned == RacesSpec => []NoRoleVanishes
<1>1. RInv => NoRoleVanishes
    BY DEF RInv, Settled, NoRoleVanishes
<1>2. QED
    BY <1>1, AlwaysRInv, PTL

(* ... and between calls the stored permissions are those of the roles,    *)
(* except for roles whose update was cut off.                              *)
THEOREM PermissionsAreThoseOfRoles == RacesSpec => []PermissionsAreCurrent
<1>1. RInv => PermissionsAreCurrent
    <2> SUFFICES ASSUME RInv, ~raced, \A c \in Calls : at[c] = "idle",
                        NEW u \in known, user[u].roles \cap stale = {}
                 PROVE  user[u].permissions = Granted(user[u].roles)
        BY DEF PermissionsAreCurrent, PermissionsFollowRoles
    <2>1. \A c \in Calls : Behind(at[c], job[c]) = {}
        BY DEF Behind, Recalculating
    <2>2. ~Excused(u)
        BY <2>1 DEF Excused
    <2>3. QED
        BY <2>2 DEF RInv, Settled, UpToDate, Current
<1>2. QED
    BY <1>1, AlwaysRInv, PTL

=============================================================================
