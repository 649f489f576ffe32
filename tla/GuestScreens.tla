---------------------------- MODULE GuestScreens ----------------------------
(***************************************************************************)
(* What the guests of a room see and order: the TV (TvViewModel) and the   *)
(* page behind the QR code (App.tsx of guest-web), while the reception     *)
(* checks guests in and out.                                               *)
(*                                                                         *)
(* A screen reads the room's stay and shows it until it reads again.  The  *)
(* TV reads again when an event of the room's channel tells it to, the     *)
(* page when it gets the focus.  Orders go to whoever stays in the room by *)
(* then; the API takes one per stay and client request id.                 *)
(***************************************************************************)
EXTENDS RoomStays

CONSTANTS
    Here,       \* the room
    Tvs,        \* its TVs
    Pages,      \* pages opened with its QR code
    MaxCarts,   \* bound: carts that are filled or edited
    MaxFaults   \* bound: lost calls and connections, pages reloaded

ASSUME HereIsARoom == Here \in Rooms
ASSUME ScreensAreDistinct == Tvs \cap Pages = {}
ASSUME BoundsAreNumbers == {MaxCarts, MaxFaults} \subseteq Nat

Screens == Tvs \cup Pages

Carts == 1..MaxCarts

Keys == 1..MaxCarts

Slots == {1, 2}     \* bound: loads, and submissions, of a screen at once

VARIABLES
    orders,     \* how often the API has taken an order
    ui,         \* what the screen is
    view,       \* the stay it shows, with the name it had
    cart,       \* the contents of the cart, 0 if it is empty
    key,        \* the client request id it keeps, 0 if none
    busy,       \* isSubmitting
    load,       \* its reads of the context
    send,       \* its submissions
    link,       \* the TV's socket
    hint,       \* an event on its way to the TV
    carts,      \* carts so far
    keys,       \* client request ids so far
    faults      \* faults so far

screenVars == <<ui, view, cart, key, busy, load, send, link, hint>>
bounds == <<carts, keys, faults>>
guestVars == <<stayVars, orders, screenVars, bounds>>

NoLoad == [at |-> "none", hinted |-> FALSE, seen |-> Vacant]

NoSend == [at |-> "none", key |-> 0, cart |-> 0, stay |-> None]

Order == [stay : Stays, key : Keys, cart : Carts]

ScreensTypeOK ==
    /\ StayTypeOK
    /\ orders \in [Order -> Nat]
    /\ ui \in [Screens -> {"Loading", "Ready", "Error", "Gone"}]
    /\ view \in [Screens -> Views]
    /\ cart \in [Screens -> 0..MaxCarts]
    /\ key \in [Screens -> 0..MaxCarts]
    /\ busy \in [Screens -> BOOLEAN]
    /\ load \in [Screens -> [Slots -> [at     : {"none", "context", "rest", "read", "failed"},
                                       hinted : BOOLEAN,
                                       seen   : Views]]]
    /\ send \in [Screens -> [Slots -> [at   : {"none", "sent", "resolved", "taken", "failed"},
                                       key  : 0..MaxCarts,
                                       cart : 0..MaxCarts,
                                       stay : Stays \cup {None}]]]
    /\ link \in [Tvs -> {"off", "opening", "joined"}]
    /\ hint \in [Tvs -> BOOLEAN]
    /\ carts \in 0..MaxCarts
    /\ keys \in 0..MaxCarts
    /\ faults \in 0..MaxFaults

-----------------------------------------------------------------------------
(* The reception and the API                                               *)

(* The event of a change reaches the TVs that are in the channel by then.  *)
Noticed ==
    /\ hint' = [x \in Tvs |-> hint[x] \/ link[x] = "joined"]
    /\ UNCHANGED <<orders, ui, view, cart, key, busy, load, send, link, bounds>>

Reception == StayNext /\ Noticed

Now == ViewOf(Here)

FirstFree(slots, i, free) == slots[i] = free /\ \A k \in 1..i - 1 : slots[k] # free

SetLoad(x, i, to) == load' = [load EXCEPT ![x][i] = to]

FailedLoad(l) == [NoLoad EXCEPT !.at = "failed", !.hinted = l.hinted]

SetSend(x, j, to) == send' = [send EXCEPT ![x][j] = to]

Ended(how) == [NoSend EXCEPT !.at = how]

(* GET /tv/context answers for a vacant room, GET /guest/context with 404. *)
ReadContext(x, i) ==
    /\ load[x][i].at = "context"
    /\ SetLoad(x, i, IF x \in Pages /\ Now = Vacant
                       THEN FailedLoad(load[x][i])
                       ELSE [load[x][i] EXCEPT
                               !.at = IF x \in Pages \/ Now = Vacant THEN "read" ELSE "rest",
                               !.seen = Now])
    /\ UNCHANGED <<stayVars, orders, ui, view, cart, key, busy, send, link, hint, bounds>>

(* The TV's other reads need a guest in the room, too.                     *)
ReadRest(x, i) ==
    /\ load[x][i].at = "rest"
    /\ SetLoad(x, i, IF Now = Vacant THEN FailedLoad(load[x][i])
                       ELSE [load[x][i] EXCEPT !.at = "read"])
    /\ UNCHANGED <<stayVars, orders, ui, view, cart, key, busy, send, link, hint, bounds>>

LoseLoad(x, i) ==
    /\ faults < MaxFaults /\ faults' = faults + 1
    /\ load[x][i].at \in {"context", "rest", "read"}
    /\ SetLoad(x, i, FailedLoad(load[x][i]))
    /\ UNCHANGED <<stayVars, orders, ui, view, cart, key, busy, send, link, hint, carts, keys>>

(* GuestContextResolver finds the stay, and GuestService works for it.     *)
Resolve(x, j) ==
    /\ send[x][j].at = "sent"
    /\ SetSend(x, j, IF Now = Vacant THEN Ended("failed")
                       ELSE [send[x][j] EXCEPT !.at = "resolved", !.stay = Now.stay])
    /\ UNCHANGED <<stayVars, orders, ui, view, cart, key, busy, load, link, hint, bounds>>

(* Seeded error: the id is not looked for.                                 *)
BugTaken(s) == FALSE

Taken(s) == \E o \in Order : orders[o] > 0 /\ o.stay = s.stay /\ o.key = s.key

(* createRequestGroup answers with what it has taken under this id before. *)
Create(x, j) ==
    LET s == send[x][j] IN
    /\ s.at = "resolved"
    /\ orders' = IF Taken(s) THEN orders
                 ELSE [orders EXCEPT ![[stay |-> s.stay, key |-> s.key, cart |-> s.cart]] = @ + 1]
    /\ SetSend(x, j, Ended("taken"))
    /\ UNCHANGED <<stayVars, ui, view, cart, key, busy, load, link, hint, bounds>>

(* The call or its answer is lost.                                         *)
LoseSend(x, j) ==
    /\ faults < MaxFaults /\ faults' = faults + 1
    /\ send[x][j].at \in {"sent", "taken"}
    /\ SetSend(x, j, Ended("failed"))
    /\ UNCHANGED <<stayVars, orders, ui, view, cart, key, busy, load, link, hint, carts, keys>>

-----------------------------------------------------------------------------
(* Ordering                                                                *)

Filled(x) ==
    /\ carts < MaxCarts /\ carts' = carts + 1
    /\ cart' = [cart EXCEPT ![x] = carts + 1]

(* Also adding to it, or taking a line out of it.                          *)
FillCart(x) ==
    /\ ui[x] = "Ready" /\ view[x] # Vacant /\ ~busy[x]
    /\ Filled(x)
    /\ UNCHANGED <<stayVars, orders, ui, view, key, busy, load, send, link, hint, keys, faults>>

(* Only the page forgets its client request id with the last line.         *)
EmptyCart(x) ==
    /\ ui[x] = "Ready" /\ cart[x] # 0 /\ ~busy[x]
    /\ cart' = [cart EXCEPT ![x] = 0]
    /\ key' = IF x \in Pages THEN [key EXCEPT ![x] = 0] ELSE key
    /\ UNCHANGED <<stayVars, orders, ui, view, busy, load, send, link, hint, bounds>>

(* An attempt after a failure uses the id of the one before.               *)
KeyFor(x) == IF key[x] = 0 THEN keys + 1 ELSE key[x]

Submit(x, j) ==
    /\ ui[x] = "Ready" /\ cart[x] # 0 /\ ~busy[x]
    /\ FirstFree(send[x], j, NoSend)
    /\ KeyFor(x) \in Keys
    /\ key' = [key EXCEPT ![x] = KeyFor(x)]
    /\ keys' = IF KeyFor(x) > keys THEN KeyFor(x) ELSE keys
    /\ busy' = [busy EXCEPT ![x] = TRUE]
    /\ SetSend(x, j, [at |-> "sent", key |-> KeyFor(x), cart |-> cart[x], stay |-> None])
    /\ UNCHANGED <<stayVars, orders, ui, view, cart, load, link, hint, carts, faults>>

(* The TV looks at what it shows by now; while it loads it leaves the      *)
(* client request id as it is.                                             *)
TakesAnswer(x) == x \in Pages \/ (ui[x] = "Ready" /\ view[x] # Vacant)

Confirmed(x, j) ==
    /\ send[x][j].at = "taken"
    /\ SetSend(x, j, NoSend)
    /\ IF TakesAnswer(x)
         THEN /\ cart' = [cart EXCEPT ![x] = 0]
              /\ key' = [key EXCEPT ![x] = 0]
              /\ busy' = [busy EXCEPT ![x] = FALSE]
         ELSE UNCHANGED <<cart, key, busy>>
    /\ UNCHANGED <<stayVars, orders, ui, view, load, link, hint, bounds>>

(* Seeded error: a failed submission leaves the form locked.               *)
BugFailed(x, j) ==
    /\ send[x][j].at = "failed"
    /\ SetSend(x, j, NoSend)
    /\ UNCHANGED <<stayVars, orders, ui, view, cart, key, busy, load, link, hint, bounds>>

Failed(x, j) ==
    /\ send[x][j].at = "failed"
    /\ SetSend(x, j, NoSend)
    /\ busy' = [busy EXCEPT ![x] = @ /\ x \in Tvs /\ ui[x] # "Ready"]
    /\ UNCHANGED <<stayVars, orders, ui, view, cart, key, load, link, hint, bounds>>

-----------------------------------------------------------------------------
(* The TV                                                                  *)

BeginLoad(x, i, hinted) ==
    /\ FirstFree(load[x], i, NoLoad)
    /\ SetLoad(x, i, [at |-> "context", hinted |-> hinted, seen |-> Vacant])
    /\ ui' = [ui EXCEPT ![x] = "Loading"]
    /\ view' = [view EXCEPT ![x] = Vacant]
    /\ cart' = [cart EXCEPT ![x] = 0]
    /\ busy' = [busy EXCEPT ![x] = FALSE]
    /\ UNCHANGED <<stayVars, orders, key, send, link, bounds>>

(* The app is opened, or the guest asks it to try again.                   *)
OpenTv(x, i) ==
    /\ ui[x] \in {"Gone", "Error"}
    /\ BeginLoad(x, i, FALSE)
    /\ UNCHANGED hint

(* onRealtimeAssignmentUpdated throws the cart away and loads everything,  *)
(* also if a load is under way.                                            *)
FollowHint(x, i) ==
    /\ hint[x] /\ ui[x] # "Gone"
    /\ hint' = [hint EXCEPT ![x] = FALSE]
    /\ BeginLoad(x, i, TRUE)

(* connect() takes a new socket in the place of the old one.               *)
ShowTv(x, i) ==
    /\ load[x][i].at = "read"
    /\ ui' = [ui EXCEPT ![x] = "Ready"]
    /\ view' = [view EXCEPT ![x] = load[x][i].seen]
    /\ cart' = [cart EXCEPT ![x] = 0]
    /\ busy' = [busy EXCEPT ![x] = FALSE]
    /\ SetLoad(x, i, NoLoad)
    /\ link' = [link EXCEPT ![x] = "opening"]
    /\ hint' = [hint EXCEPT ![x] = FALSE]
    /\ UNCHANGED <<stayVars, orders, key, send, bounds>>

(* loadOrProvision shows the error.                                        *)
ShowError(x, i) ==
    /\ load[x][i].at = "failed" /\ ~load[x][i].hinted
    /\ ui' = [ui EXCEPT ![x] = "Error"]
    /\ SetLoad(x, i, NoLoad)
    /\ UNCHANGED <<stayVars, orders, view, cart, key, busy, send, link, hint, bounds>>

(* Nobody catches what a hinted load throws: the app ends.                 *)
Crash(x, i) ==
    /\ load[x][i].at = "failed" /\ load[x][i].hinted
    /\ ui' = [ui EXCEPT ![x] = "Gone"]
    /\ view' = [view EXCEPT ![x] = Vacant]
    /\ cart' = [cart EXCEPT ![x] = 0]
    /\ key' = [key EXCEPT ![x] = 0]
    /\ busy' = [busy EXCEPT ![x] = FALSE]
    /\ load' = [load EXCEPT ![x] = [k \in Slots |-> NoLoad]]
    /\ send' = [send EXCEPT ![x] = [k \in Slots |-> NoSend]]
    /\ link' = [link EXCEPT ![x] = "off"]
    /\ hint' = [hint EXCEPT ![x] = FALSE]
    /\ UNCHANGED <<stayVars, orders, bounds>>

(* The gateway looks the TV's room up and joins its channel.               *)
Join(x) ==
    /\ link[x] = "opening"
    /\ link' = [link EXCEPT ![x] = "joined"]
    /\ UNCHANGED <<stayVars, orders, ui, view, cart, key, busy, load, send, hint, bounds>>

LoseLink(x) ==
    /\ faults < MaxFaults /\ faults' = faults + 1
    /\ link[x] = "joined"
    /\ link' = [link EXCEPT ![x] = "opening"]
    /\ hint' = [hint EXCEPT ![x] = FALSE]
    /\ UNCHANGED <<stayVars, orders, ui, view, cart, key, busy, load, send, carts, keys>>

-----------------------------------------------------------------------------
(* The page                                                                *)

(* The page is opened, gets the focus, or the guest asks it to try again;  *)
(* a read under way is enough.                                             *)
Focus(x) ==
    /\ load[x][1] = NoLoad
    /\ SetLoad(x, 1, [at |-> "context", hinted |-> FALSE, seen |-> Vacant])
    /\ UNCHANGED <<stayVars, orders, ui, view, cart, key, busy, send, link, hint, bounds>>

(* Seeded error: another guest's arrival leaves the cart as it is.         *)
BugChanges(x, seen) == FALSE

(* contextIdentity: the room and the guest's name.                         *)
Changes(x, seen) == ui[x] = "Ready" /\ seen.name # view[x].name

ShowPage(x) ==
    /\ load[x][1].at = "read"
    /\ ui' = [ui EXCEPT ![x] = "Ready"]
    /\ view' = [view EXCEPT ![x] = load[x][1].seen]
    /\ IF Changes(x, load[x][1].seen)
         THEN /\ cart' = [cart EXCEPT ![x] = 0]
              /\ key' = [key EXCEPT ![x] = 0]
         ELSE UNCHANGED <<cart, key>>
    /\ SetLoad(x, 1, NoLoad)
    /\ UNCHANGED <<stayVars, orders, busy, send, link, hint, bounds>>

ShowPageError(x) ==
    /\ load[x][1].at = "failed"
    /\ ui' = [ui EXCEPT ![x] = "Error"]
    /\ cart' = [cart EXCEPT ![x] = 0]
    /\ key' = [key EXCEPT ![x] = 0]
    /\ SetLoad(x, 1, NoLoad)
    /\ UNCHANGED <<stayVars, orders, view, busy, send, link, hint, bounds>>

ReloadPage(x) ==
    /\ faults < MaxFaults /\ faults' = faults + 1
    /\ ui' = [ui EXCEPT ![x] = "Loading"]
    /\ view' = [view EXCEPT ![x] = Vacant]
    /\ cart' = [cart EXCEPT ![x] = 0]
    /\ key' = [key EXCEPT ![x] = 0]
    /\ busy' = [busy EXCEPT ![x] = FALSE]
    /\ load' = [load EXCEPT ![x] = [k \in Slots |-> NoLoad]]
    /\ send' = [send EXCEPT ![x] = [k \in Slots |-> NoSend]]
    /\ UNCHANGED <<stayVars, orders, link, hint, carts, keys>>

-----------------------------------------------------------------------------

ScreensInit ==
    /\ StayInit
    /\ orders = [o \in Order |-> 0]
    /\ ui = [x \in Screens |-> IF x \in Tvs THEN "Gone" ELSE "Loading"]
    /\ view = [x \in Screens |-> Vacant]
    /\ cart = [x \in Screens |-> 0]
    /\ key = [x \in Screens |-> 0]
    /\ busy = [x \in Screens |-> FALSE]
    /\ load = [x \in Screens |-> [i \in Slots |-> NoLoad]]
    /\ send = [x \in Screens |-> [j \in Slots |-> NoSend]]
    /\ link = [x \in Tvs |-> "off"]
    /\ hint = [x \in Tvs |-> FALSE]
    /\ carts = 0
    /\ keys = 0
    /\ faults = 0

(* What the API and the screens do by themselves.                          *)
Loads(x) ==
    \/ \E i \in Slots :
          \/ ReadContext(x, i) \/ ReadRest(x, i)
          \/ x \in Tvs /\ (ShowTv(x, i) \/ ShowError(x, i) \/ Crash(x, i))
    \/ x \in Pages /\ (ShowPage(x) \/ ShowPageError(x))

Sends(x) == \E j \in Slots : Resolve(x, j) \/ Create(x, j) \/ Confirmed(x, j) \/ Failed(x, j)

Events(x) == x \in Tvs /\ (Join(x) \/ \E i \in Slots : FollowHint(x, i))

Guest(x) ==
    \/ FillCart(x) \/ EmptyCart(x) \/ \E j \in Slots : Submit(x, j)
    \/ x \in Tvs /\ \E i \in Slots : OpenTv(x, i)
    \/ x \in Pages /\ Focus(x)

Faults(x) ==
    \/ \E k \in Slots : LoseLoad(x, k) \/ LoseSend(x, k)
    \/ x \in Tvs /\ LoseLink(x)
    \/ x \in Pages /\ ReloadPage(x)

ScreenSteps(x) == Loads(x) \/ Sends(x) \/ Events(x)

ScreensNext == Reception \/ \E x \in Screens : ScreenSteps(x) \/ Guest(x) \/ Faults(x)

ScreensSpec == ScreensInit /\ [][ScreensNext]_guestVars

(* Calls are answered or fail, sockets connect, events arrive.  No guest   *)
(* has to do anything.                                                     *)
FairScreensSpec ==
    /\ ScreensSpec
    /\ \A x \in Screens :
          WF_guestVars(Loads(x)) /\ WF_guestVars(Sends(x)) /\ WF_guestVars(Events(x))

-----------------------------------------------------------------------------
(* Properties                                                              *)

(* However answers are lost, attempts repeated and screens sent to load    *)
(* again, no stay is charged for one cart twice.                           *)
NoCartTwice ==
    \A o, p \in Order :
        orders[o] > 0 /\ orders[p] > 0 /\ o.stay = p.stay /\ o.cart = p.cart =>
            o = p /\ orders[o] = 1

(* A cart lives only as long as the screen shows the guest whose it is.    *)
CartStaysWithGuest ==
    [][\A x \in Screens : cart[x] # 0 /\ cart'[x] = cart[x] =>
          view'[x].name = view[x].name]_guestVars

(* Each submission comes to an end, and each load of the TV.               *)
NobodyWaitsForever ==
    \A x \in Screens : /\ busy[x] ~> ~busy[x]
                       /\ x \in Tvs => (ui[x] = "Loading" ~> ui[x] # "Loading")

(* Additional-Scope.md:257: "Smart TV kamar terkait mendapatkan data       *)
(* terbaru" - after the reception's change the TV of the room gets the     *)
(* latest data.  A change between the TV's read and its joining of the     *)
(* channel, or a late answer to an earlier read, leaves it with the old.   *)
TvShowsStay ==
    \A x \in Tvs : \A s \in Stays \cup {None} :
        (<>[](current[Here] = s /\ ui[x] \notin {"Gone", "Error"})) => <>[](view[x].stay = s)

=============================================================================
