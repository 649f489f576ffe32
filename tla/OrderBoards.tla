---------------------------- MODULE OrderBoards ----------------------------
(***************************************************************************)
(* The list of a unit's orders on a page of the staff web app: the         *)
(* dashboards of the departments (OperationalDashboard.tsx and             *)
(* CafeDashboard.tsx, whose protocol is the same) and the page of the      *)
(* boutique (ButikWorkspace.tsx).                                          *)
(*                                                                         *)
(* A page asks for one list per status, each a query of its own that the   *)
(* API answers when it comes to it; it shows all of them when the last one *)
(* is there.  Orders change meanwhile.  The API publishes a change after   *)
(* its commit, to the sockets that are in the unit's channel at that       *)
(* moment; a page that hears of one reads again after 160 ms.  It also     *)
(* reads when its socket connects, which is before the API has joined it   *)
(* to the channel, and from time to time.                                  *)
(*                                                                         *)
(* The page of the boutique puts the answer of a call into its list; the   *)
(* dashboards read again.  Only the boutique's orders hold stock, so only  *)
(* their completion and cancellation have a second part that may fail.     *)
(***************************************************************************)
EXTENDS Naturals, FiniteSets, FiniteSetsExt, Functions

CONSTANTS
    Coming,     \* bound: how many orders come, for each of the two pages
    PageSize,   \* how many orders of one status a list returns
    MaxOthers,  \* bound: changes made by others than this page
    MaxFaults   \* bound: failed reads, lost answers, failed second parts, lost connections

ASSUME BoardBounds ==
    /\ Coming \in [{"dashboard", "butik"} -> Nat] /\ PageSize \in Nat \ {0}
    /\ MaxOthers \in Nat /\ MaxFaults \in Nat

VARIABLES
    page,       \* which page it is: a dashboard or the boutique's
    status,     \* service_requests.status of each order
    settling,   \* orders whose delivery or release of stock is under way
    channel,    \* the page's socket: off, connected, joined to the unit's channel
    timer,      \* whether an event is on its way or realtimeRefreshTimer is set
    answers,    \* the lists read so far by the load under way, NoLoad without one
    joinedThen, \* whether that load began when the socket was in the channel
    shown,      \* the orders of the page with the status each is shown in
    settled,    \* whether the last load was applied, and began in the channel
    call,       \* the call of the page's user
    others, faults

stored == <<status, settling>>
load == <<answers, joinedThen>>
bounds == <<others, faults>>
vars == <<page, status, settling, channel, timer, answers, joinedThen, shown, settled,
          call, others, faults>>

(* Orders are numbered in the order of requested_at. *)
Orders == 1 .. Max(Range(Coming))
Open == {"NEW", "IN_PROCESS"}
Closed == {"COMPLETED", "CANCELLED"}
NoLoad == [s \in {"no load"} |-> {}]
NoCall == [at |-> "idle", order |-> 0, from |-> "none", to |-> "none"]

BoardCalls ==
    {NoCall} \cup [at : {"sent", "settling", "done", "refused", "reading"},
                  order : Orders, from : Open, to : Open \cup Closed]

(* The lists a page asks for. *)
Lists == IF page = "butik" THEN Open \cup Closed ELSE Open \cup {"COMPLETED"}

(* ORDER BY requested_at DESC LIMIT: the newest orders of one status. *)
List(s) ==
    LET all == {o \in Orders : status[o] = s}
    IN  {o \in all : Cardinality({n \in all : n > o}) < PageSize}

Listing == UNION {List(s) \X {s} : s \in Lists}

Loading == answers # NoLoad
---------------------------------------------------------------------------
(* What the stored orders go through, whoever asks for it.                 *)

(* Seeded error: an event is ignored while the page is reading anyway. *)
BugAnnounce == timer' = (timer \/ (channel = "joined" /\ ~Loading))

(* The event of a committed change reaches the sockets that are in the     *)
(* channel, and makes the page read again a moment later; one that comes   *)
(* while the timer is set adds nothing, one that comes during a load does. *)
Announce == timer' = (timer \/ channel = "joined")

(* A conditional transition and its event.  The boutique's orders are      *)
(* delivered or released in a second transaction before the event.         *)
MoveOrder(o, to) ==
    /\ status' = [status EXCEPT ![o] = to]
    /\ IF page = "butik" /\ to \in Closed
       THEN settling' = settling \cup {o} /\ UNCHANGED timer
       ELSE Announce /\ UNCHANGED settling

(* A guest orders; orders get their numbers in turn. *)
Order ==
    LET new == {o \in Orders : status[o] = "none"}
    IN  /\ Cardinality(Orders \ new) < Coming[page]
        /\ MoveOrder(Min(new), "NEW")
        /\ UNCHANGED <<page, settled, shown, call, channel, load, bounds>>

(* Another user's call, or the expiry of the boutique's orders. *)
Others(o, to) ==
    /\ others < MaxOthers
    /\ others' = others + 1
    /\ \/ status[o] = "NEW" /\ to = "IN_PROCESS"
       \/ status[o] = "IN_PROCESS" /\ to = "COMPLETED"
       \/ status[o] \in Open /\ to = "CANCELLED" /\ page = "butik"
    /\ MoveOrder(o, to)
    /\ UNCHANGED <<page, settled, shown, call, channel, load, faults>>

(* The answer the user's call on order o gets when the API is done. *)
Answered(o, outcome) ==
    IF call.at = "settling" /\ call.order = o THEN [call EXCEPT !.at = outcome] ELSE call

(* The stock is delivered or released, and the change can be published. *)
Settle(o) ==
    /\ o \in settling
    /\ settling' = settling \ {o}
    /\ Announce
    /\ call' = Answered(o, "done")
    /\ UNCHANGED <<page, status, settled, shown, channel, load, bounds>>

(* It fails: a completion is reverted, a cancellation stays, and no event  *)
(* tells of either.                                                        *)
SettleFails(o) ==
    /\ o \in settling
    /\ faults < MaxFaults
    /\ faults' = faults + 1
    /\ settling' = settling \ {o}
    /\ status' = IF status[o] = "COMPLETED" THEN [status EXCEPT ![o] = "IN_PROCESS"] ELSE status
    /\ call' = Answered(o, "refused")
    /\ UNCHANGED <<page, settled, shown, channel, load, timer, others>>
---------------------------------------------------------------------------
(* The page reads.                                                         *)

(* A load aborts the one under way.  The user's call that waited for that  *)
(* one is over.                                                            *)
StartLoad ==
    /\ answers' = [s \in {} |-> {}]
    /\ joinedThen' = (page = "dashboard" /\ channel = "joined")

Over == IF call.at = "reading" THEN NoCall ELSE call

Read(s) ==
    /\ Loading
    /\ s \in Lists \ DOMAIN answers
    /\ answers' = [t \in DOMAIN answers \cup {s} |-> IF t = s THEN List(s) ELSE answers[t]]
    /\ UNCHANGED <<page, stored, settled, shown, call, channel, timer, joinedThen, bounds>>

Show ==
    /\ Loading
    /\ DOMAIN answers = Lists
    /\ shown' = UNION {answers[s] \X {s} : s \in Lists}
    /\ settled' = joinedThen
    /\ answers' = NoLoad
    /\ joinedThen' = FALSE
    /\ call' = Over
    /\ UNCHANGED <<page, stored, channel, timer, bounds>>

(* A list that cannot be read leaves the page as it was. *)
LoadFails ==
    /\ Loading
    /\ faults < MaxFaults
    /\ faults' = faults + 1
    /\ settled' = FALSE
    /\ answers' = NoLoad
    /\ joinedThen' = FALSE
    /\ call' = Over
    /\ UNCHANGED <<page, stored, shown, channel, timer, others>>

RefreshQueued ==
    /\ timer
    /\ timer' = FALSE
    /\ StartLoad
    /\ call' = Over
    /\ UNCHANGED <<page, stored, settled, shown, channel, bounds>>

(* Seeded error: a page whose socket is live does without the interval. *)
BugPoll ==
    /\ ~Loading
    /\ channel = "off"
    /\ StartLoad
    /\ UNCHANGED <<page, stored, settled, shown, call, channel, timer, bounds>>

(* The interval of 60 s with a live socket, 15 s without one, or somebody   *)
(* turns to the page; a load does not take that long.                      *)
Poll ==
    /\ ~Loading
    /\ StartLoad
    /\ UNCHANGED <<page, stored, settled, shown, call, channel, timer, bounds>>

(* The client is live as soon as the connection stands, and reads. *)
Connect ==
    /\ channel = "off"
    /\ channel' = "connected"
    /\ StartLoad
    /\ call' = Over
    /\ UNCHANGED <<page, stored, settled, shown, timer, bounds>>

(* The gateway has read the session and the account. *)
Join ==
    /\ channel = "connected"
    /\ channel' = "joined"
    /\ UNCHANGED <<page, stored, settled, shown, call, load, timer, bounds>>

(* The connection breaks, and an event on its way is lost; a timer runs on. *)
Break ==
    /\ channel # "off"
    /\ faults < MaxFaults
    /\ faults' = faults + 1
    /\ channel' = "off"
    /\ timer' \in {timer, FALSE}
    /\ settled' = FALSE
    /\ joinedThen' = FALSE
    /\ UNCHANGED <<page, stored, shown, call, answers, others>>
---------------------------------------------------------------------------
(* The page's user confirms and completes what the page shows, and cancels *)
(* orders of the boutique.                                                 *)

(* What a user may ask for an order that is shown in a status. *)
Wishes(s) ==
    (CASE s = "NEW" -> {"IN_PROCESS"} [] s = "IN_PROCESS" -> {"COMPLETED"} [] OTHER -> {})
        \cup (IF page = "butik" /\ s \in Open THEN {"CANCELLED"} ELSE {})

Click(o) ==
    /\ call = NoCall
    /\ \E s \in Open :
        /\ <<o, s>> \in shown
        /\ \E to \in Wishes(s) : call' = [at |-> "sent", order |-> o, from |-> s, to |-> to]
    /\ UNCHANGED <<page, stored, settled, shown, channel, load, timer, bounds>>

(* The API serves the call: the transition finds the order as the user saw *)
(* it, a cancellation finds it open, or the answer is a conflict.          *)
Serve ==
    /\ call.at = "sent"
    /\ IF \/ status[call.order] = call.from
          \/ call.to = "CANCELLED" /\ status[call.order] \in Open
       THEN /\ MoveOrder(call.order, call.to)
            /\ call' = [call EXCEPT !.at = IF call.order \in settling' THEN "settling" ELSE "done"]
       ELSE /\ call' = [call EXCEPT !.at = "refused"]
            /\ UNCHANGED <<stored, timer>>
    /\ UNCHANGED <<page, settled, shown, channel, load, bounds>>

(* A dashboard reads again and keeps the button locked until it has; the   *)
(* boutique's page replaces the order where it shows it.                   *)
TakeAnswer ==
    /\ call.at = "done"
    /\ IF page = "butik"
       THEN /\ shown' = {<<p[1], IF p[1] = call.order THEN call.to ELSE p[2]>> : p \in shown}
            /\ call' = NoCall
            /\ UNCHANGED <<answers, joinedThen>>
       ELSE /\ StartLoad
            /\ call' = [call EXCEPT !.at = "reading"]
            /\ UNCHANGED shown
    /\ UNCHANGED <<page, stored, settled, channel, timer, bounds>>

(* A refusal only shows a message. *)
TakeRefusal ==
    /\ call.at = "refused"
    /\ call' = NoCall
    /\ UNCHANGED <<page, stored, settled, shown, channel, load, timer, bounds>>

(* The user is told of a failure, whatever the API did or will do. *)
AnswerLost ==
    /\ call.at \in {"done", "refused"}
    /\ faults < MaxFaults
    /\ faults' = faults + 1
    /\ call' = NoCall
    /\ UNCHANGED <<page, stored, settled, shown, channel, load, timer, others>>
---------------------------------------------------------------------------
Init ==
    /\ page \in {"dashboard", "butik"}
    /\ status = [o \in Orders |-> "none"]
    /\ settling = {}
    /\ channel = "off" /\ timer = FALSE
    /\ answers = [s \in {} |-> {}] /\ joinedThen = FALSE   \* the load of the mounted page
    /\ shown = {} /\ settled = FALSE
    /\ call = NoCall
    /\ others = 0 /\ faults = 0

Next ==
    \/ Order
    \/ \E o \in Orders : Settle(o) \/ SettleFails(o) \/ Click(o)
    \/ \E o \in Orders, to \in {"IN_PROCESS"} \cup Closed : Others(o, to)
    \/ \E s \in Lists : Read(s)
    \/ Show \/ LoadFails
    \/ RefreshQueued \/ Poll
    \/ Connect \/ Join \/ Break
    \/ Serve \/ TakeAnswer \/ TakeRefusal \/ AnswerLost

Spec == Init /\ [][Next]_vars

(* The API and the page go on; the interval passes; the user works off     *)
(* what the page keeps showing.  Nothing is assumed of guests, of others or*)
(* of the socket.                                                          *)
FairSpec ==
    /\ Spec
    /\ WF_vars(\E o \in Orders : Settle(o))
    /\ WF_vars(RefreshQueued) /\ WF_vars(Poll)
    /\ WF_vars(\E s \in Lists : Read(s)) /\ WF_vars(Show)
    /\ WF_vars(Serve) /\ WF_vars(TakeAnswer) /\ WF_vars(TakeRefusal)
    /\ \A o \in Orders : SF_vars(Click(o))
---------------------------------------------------------------------------
BoardTypeOK ==
    /\ page \in {"dashboard", "butik"}
    /\ status \in [Orders -> {"none"} \cup Open \cup Closed]
    /\ settling \subseteq Orders
    /\ channel \in {"off", "connected", "joined"}
    /\ timer \in BOOLEAN /\ joinedThen \in BOOLEAN /\ settled \in BOOLEAN
    /\ Loading => /\ DOMAIN answers \subseteq Lists
                  /\ \A s \in DOMAIN answers : answers[s] \subseteq Orders
    /\ shown \subseteq Orders \X (Open \cup Closed)
    /\ call \in BoardCalls
    /\ others \in 0 .. MaxOthers /\ faults \in 0 .. MaxFaults

(* A dashboard that has read once since it is in the channel, whose last   *)
(* read did not fail, and that has nothing left to hear or to read, shows  *)
(* exactly the orders that are stored, though the lists are read one by    *)
(* one while orders move from one to the next, and events are merged into  *)
(* one read.  The boutique's page has no such property: a reverted         *)
(* completion is not announced, and an answer that comes late replaces     *)
(* what a later read has shown.                                            *)
QuietDashboardIsCurrent ==
    (/\ page = "dashboard" /\ channel = "joined" /\ settled
     /\ ~timer /\ ~Loading)
        => shown = Listing

(* Every order ends up completed or cancelled for good, even the oldest,   *)
(* which a full list leaves out: what a page has missed in the gap between *)
(* its read and the channel, by a lost event, a failed read or an          *)
(* unannounced revert, it finds at the next interval, and no refused or    *)
(* lost call keeps an order from its user.                                 *)
EveryOrderGetsDone ==
    \A o \in Orders :
        []<>(status[o] \in {"none", "COMPLETED", "CANCELLED"} /\ o \notin settling)
============================================================================
