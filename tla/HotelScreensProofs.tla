------------------------- MODULE HotelScreensProofs -------------------------
(***************************************************************************)
(* Proofs about HotelScreens, and about its two halves alone: the types,   *)
(* that no stay is charged for one cart twice, that a cart lives only as   *)
(* long as its guest is shown (GuestScreens), and that an overtaken read   *)
(* never takes a receptionist's page back (ReceptionPages).  The last      *)
(* theorem says that the hotel is its halves put together.                 *)
(*                                                                         *)
(* An order is made of a submission, a submission of a cart on a screen.   *)
(* The invariant follows the cart: it is on one screen, its submissions    *)
(* and its orders bear one client request id, and a screen that still      *)
(* shows a cart something was sent of keeps that id.  So an attempt that   *)
(* is repeated is found by the API.                                        *)
(***************************************************************************)
EXTENDS HotelScreens, TLAPS

-----------------------------------------------------------------------------
(* Stays                                                                   *)

LEMMA ViewsShown ==
    ASSUME StayTypeOK
    PROVE  Vacant \in Views /\ \A r \in Rooms : ViewOf(r) \in Views
BY NoneIsNobody DEF StayTypeOK, Views, Vacant, ViewOf

LEMMA CheckInTypes ==
    ASSUME StayTypeOK, NEW r \in Rooms, NEW s \in Stays, NEW n \in Names, CheckIn(r, s, n)
    PROVE  StayTypeOK'
BY NoneIsNobody DEF CheckIn, StayTypeOK

LEMMA EditGuestTypes ==
    ASSUME StayTypeOK, NEW r \in Rooms, NEW n \in Names, EditGuest(r, n)
    PROVE  StayTypeOK'
BY NoneIsNobody DEF EditGuest, StayTypeOK

LEMMA CheckOutTypes ==
    ASSUME StayTypeOK, NEW r \in Rooms, CheckOut(r)
    PROVE  StayTypeOK'
BY NoneIsNobody DEF CheckOut, StayTypeOK

LEMMA StayTypes == StayTypeOK /\ StayNext => StayTypeOK'
BY CheckInTypes, EditGuestTypes, CheckOutTypes DEF StayNext

LEMMA SameStayTypes == StayTypeOK /\ UNCHANGED stayVars => StayTypeOK'
BY DEF StayTypeOK, stayVars

LEMMA StaysInitially == StayInit => StayTypeOK
BY DEF StayInit, StayTypeOK

-----------------------------------------------------------------------------
(* Types of the guests' screens                                            *)

LoadStates == [at : {"none", "context", "rest", "read", "failed"}, hinted : BOOLEAN, seen : Views]

SendStates == [at : {"none", "sent", "resolved", "taken", "failed"}, key : 0..MaxCarts,
               cart : 0..MaxCarts, stay : Stays \cup {None}]

LEMMA Numbers ==
    /\ MaxCarts \in Nat /\ MaxFaults \in Nat /\ 0 \in 0..MaxCarts
    /\ Carts \subseteq 0..MaxCarts /\ Keys \subseteq 0..MaxCarts
    /\ 0 \notin Carts /\ 0 \notin Keys
    /\ Slots # {} /\ 1 \in Slots
BY BoundsAreNumbers DEF Carts, Keys, Slots

LEMMA LoadsAreTyped ==
    ASSUME StayTypeOK
    PROVE  /\ NoLoad \in LoadStates
           /\ \A h \in BOOLEAN : [at |-> "context", hinted |-> h, seen |-> Vacant] \in LoadStates
           /\ \A l \in LoadStates : /\ FailedLoad(l) \in LoadStates
                                    /\ [l EXCEPT !.at = "read"] \in LoadStates
                                    /\ l.seen \in Views
           /\ \A l \in LoadStates, w \in {"read", "rest"}, v \in Views :
                 [l EXCEPT !.at = w, !.seen = v] \in LoadStates
BY ViewsShown DEF LoadStates, NoLoad, FailedLoad

LEMMA SendsAreTyped ==
    /\ NoSend \in SendStates /\ NoSend.at = "none"
    /\ \A how \in {"taken", "failed"} : Ended(how) \in SendStates /\ Ended(how).at = how
    /\ \A s \in SendStates, st \in Stays :
          /\ [s EXCEPT !.at = "resolved", !.stay = st] \in SendStates
          /\ [s EXCEPT !.at = "resolved", !.stay = st].at = "resolved"
          /\ [s EXCEPT !.at = "resolved", !.stay = st].stay = st
          /\ [s EXCEPT !.at = "resolved", !.stay = st].key = s.key
          /\ [s EXCEPT !.at = "resolved", !.stay = st].cart = s.cart
    /\ \A k \in 0..MaxCarts, c \in 0..MaxCarts :
          [at |-> "sent", key |-> k, cart |-> c, stay |-> None] \in SendStates
BY Numbers DEF SendStates, NoSend, Ended

LEMMA SetLoadTypes ==
    ASSUME load \in [Screens -> [Slots -> LoadStates]], NEW x \in Screens, NEW i \in Slots,
           NEW to \in LoadStates, SetLoad(x, i, to)
    PROVE  load' \in [Screens -> [Slots -> LoadStates]]
BY DEF SetLoad

LEMMA SetSendTypes ==
    ASSUME send \in [Screens -> [Slots -> SendStates]], NEW x \in Screens, NEW j \in Slots,
           NEW to \in SendStates, SetSend(x, j, to)
    PROVE  /\ send' \in [Screens -> [Slots -> SendStates]]
           /\ send'[x][j] = to
           /\ \A y \in Screens, k \in Slots :
                 ~(y = x /\ k = j) => send'[y][k] = send[y][k]
BY DEF SetSend

LEMMA ScreensTypesApart ==
    ScreensTypeOK <=>
        /\ StayTypeOK
        /\ orders \in [Order -> Nat]
        /\ ui \in [Screens -> {"Loading", "Ready", "Error", "Gone"}]
        /\ view \in [Screens -> Views]
        /\ cart \in [Screens -> 0..MaxCarts]
        /\ key \in [Screens -> 0..MaxCarts]
        /\ busy \in [Screens -> BOOLEAN]
        /\ load \in [Screens -> [Slots -> LoadStates]]
        /\ send \in [Screens -> [Slots -> SendStates]]
        /\ link \in [Tvs -> {"off", "opening", "joined"}]
        /\ hint \in [Tvs -> BOOLEAN]
        /\ carts \in 0..MaxCarts
        /\ keys \in 0..MaxCarts
        /\ faults \in 0..MaxFaults
BY DEF ScreensTypeOK, LoadStates, SendStates

LEMMA ScreensTypesTogether ==
    ASSUME StayTypeOK',
           orders' \in [Order -> Nat],
           ui' \in [Screens -> {"Loading", "Ready", "Error", "Gone"}],
           view' \in [Screens -> Views],
           cart' \in [Screens -> 0..MaxCarts],
           key' \in [Screens -> 0..MaxCarts],
           busy' \in [Screens -> BOOLEAN],
           load' \in [Screens -> [Slots -> LoadStates]],
           send' \in [Screens -> [Slots -> SendStates]],
           link' \in [Tvs -> {"off", "opening", "joined"}],
           hint' \in [Tvs -> BOOLEAN],
           carts' \in 0..MaxCarts,
           keys' \in 0..MaxCarts,
           faults' \in 0..MaxFaults
    PROVE  ScreensTypeOK'
BY DEF ScreensTypeOK, LoadStates, SendStates

LEMMA ScreensInitially == ScreensInit => ScreensTypeOK
<1> SUFFICES ASSUME ScreensInit PROVE ScreensTypeOK
    OBVIOUS
<1>1. StayTypeOK
    BY StaysInitially DEF ScreensInit
<1>2. /\ load \in [Screens -> [Slots -> LoadStates]]
      /\ send \in [Screens -> [Slots -> SendStates]]
    BY <1>1, LoadsAreTyped, SendsAreTyped DEF ScreensInit
<1>3. /\ view \in [Screens -> Views] /\ orders \in [Order -> Nat]
      /\ ui \in [Screens -> {"Loading", "Ready", "Error", "Gone"}]
    BY <1>1, ViewsShown DEF ScreensInit
<1>4. /\ cart \in [Screens -> 0..MaxCarts] /\ key \in [Screens -> 0..MaxCarts]
      /\ busy \in [Screens -> BOOLEAN] /\ link \in [Tvs -> {"off", "opening", "joined"}]
      /\ hint \in [Tvs -> BOOLEAN]
    BY Numbers DEF ScreensInit
<1>5. carts \in 0..MaxCarts /\ keys \in 0..MaxCarts /\ faults \in 0..MaxFaults
    BY Numbers DEF ScreensInit
<1>6. QED
    BY <1>1, <1>2, <1>3, <1>4, <1>5, ScreensTypesApart

(* A submission that has found its stay has a cart and an id, too.         *)
Sendable(s) ==
    /\ s.at \in {"sent", "resolved"} => s.key \in Keys /\ s.cart \in Carts
    /\ s.at = "resolved" => s.stay \in Stays

SendsAreWhole == \A x \in Screens, j \in Slots : Sendable(send[x][j])

(* Reads and connections.                                                  *)
LEMMA LoadingTypes ==
    ASSUME ScreensTypeOK, NEW x \in Screens,
           \/ \E i \in Slots : \/ ReadContext(x, i) \/ ReadRest(x, i) \/ LoseLoad(x, i)
                               \/ x \in Tvs /\ ShowError(x, i)
           \/ x \in Tvs /\ (Join(x) \/ LoseLink(x))
           \/ x \in Pages /\ Focus(x)
    PROVE  ScreensTypeOK' /\ UNCHANGED <<orders, send, carts, cart, key, view>>
<1> USE DEF stayVars, bounds
<1>0. /\ StayTypeOK
      /\ load \in [Screens -> [Slots -> LoadStates]] /\ \A i \in Slots : load[x][i] \in LoadStates
      /\ ui \in [Screens -> {"Loading", "Ready", "Error", "Gone"}] /\ Now \in Views
      /\ link \in [Tvs -> {"off", "opening", "joined"}] /\ hint \in [Tvs -> BOOLEAN]
      /\ faults \in 0..MaxFaults
    BY ScreensTypesApart, ViewsShown, HereIsARoom DEF Now
<1>1. UNCHANGED <<stayVars, orders, send, carts, cart, key, view, busy, keys>>
    BY DEF ReadContext, ReadRest, LoseLoad, ShowError, Join, LoseLink, Focus
<1>2. load' \in [Screens -> [Slots -> LoadStates]]
    <2>1. \A i \in Slots : ReadContext(x, i) \/ ReadRest(x, i) \/ LoseLoad(x, i)
                           \/ ShowError(x, i) =>
              \E to \in LoadStates : SetLoad(x, i, to)
        BY <1>0, LoadsAreTyped DEF ReadContext, ReadRest, LoseLoad, ShowError
    <2>2. Focus(x) => \E to \in LoadStates : SetLoad(x, 1, to)
        BY <1>0, LoadsAreTyped DEF Focus
    <2>3. Join(x) \/ LoseLink(x) => load' = load
        BY DEF Join, LoseLink
    <2>4. QED
        BY <1>0, <2>1, <2>2, <2>3, SetLoadTypes, Numbers
<1>3. /\ ui' \in [Screens -> {"Loading", "Ready", "Error", "Gone"}]
      /\ link' \in [Tvs -> {"off", "opening", "joined"}] /\ hint' \in [Tvs -> BOOLEAN]
    BY <1>0 DEF ReadContext, ReadRest, LoseLoad, ShowError, Join, LoseLink, Focus
<1>4. faults' \in 0..MaxFaults
    <2>1. faults' = faults \/ (faults < MaxFaults /\ faults' = faults + 1)
        BY DEF ReadContext, ReadRest, LoseLoad, ShowError, Join, LoseLink, Focus
    <2>2. QED
        BY <1>0, <2>1, Numbers
<1>5. StayTypeOK'
    BY <1>0, <1>1, SameStayTypes
<1>6. QED
    BY <1>1, <1>2, <1>3, <1>4, <1>5, ScreensTypesApart, ScreensTypesTogether

(* What a screen shows, and what it throws away.                           *)
LEMMA ShowingTypes ==
    ASSUME ScreensTypeOK, NEW x \in Screens,
           \/ x \in Tvs /\ \E i \in Slots : OpenTv(x, i) \/ FollowHint(x, i) \/ ShowTv(x, i)
           \/ x \in Pages /\ (ShowPage(x) \/ ShowPageError(x))
    PROVE  ScreensTypeOK' /\ UNCHANGED <<orders, send, carts>>
<1> USE DEF stayVars, bounds
<1>0. /\ StayTypeOK
      /\ load \in [Screens -> [Slots -> LoadStates]] /\ \A i \in Slots : load[x][i] \in LoadStates
      /\ ui \in [Screens -> {"Loading", "Ready", "Error", "Gone"}] /\ view \in [Screens -> Views]
      /\ cart \in [Screens -> 0..MaxCarts] /\ key \in [Screens -> 0..MaxCarts]
      /\ busy \in [Screens -> BOOLEAN] /\ Vacant \in Views
      /\ link \in [Tvs -> {"off", "opening", "joined"}] /\ hint \in [Tvs -> BOOLEAN]
    BY ScreensTypesApart, ViewsShown
<1>1. UNCHANGED <<stayVars, orders, send, carts, keys, faults>>
    BY DEF OpenTv, FollowHint, BeginLoad, ShowTv, ShowPage, ShowPageError
<1>2. load' \in [Screens -> [Slots -> LoadStates]]
    <2>1. \A i \in Slots : OpenTv(x, i) \/ FollowHint(x, i) \/ ShowTv(x, i) =>
              \E to \in LoadStates : SetLoad(x, i, to)
        BY <1>0, LoadsAreTyped DEF OpenTv, FollowHint, BeginLoad, ShowTv
    <2>2. ShowPage(x) \/ ShowPageError(x) => \E to \in LoadStates : SetLoad(x, 1, to)
        BY <1>0, LoadsAreTyped DEF ShowPage, ShowPageError
    <2>3. QED
        BY <1>0, <2>1, <2>2, SetLoadTypes, Numbers
<1>3. view' \in [Screens -> Views]
    <2>1. \A i \in Slots : load[x][i].seen \in Views
        BY <1>0, LoadsAreTyped
    <2>2. QED
        BY <1>0, <2>1, Numbers
        DEF OpenTv, FollowHint, BeginLoad, ShowTv, ShowPage, ShowPageError
<1>4. /\ ui' \in [Screens -> {"Loading", "Ready", "Error", "Gone"}]
      /\ busy' \in [Screens -> BOOLEAN]
      /\ link' \in [Tvs -> {"off", "opening", "joined"}] /\ hint' \in [Tvs -> BOOLEAN]
    BY <1>0 DEF OpenTv, FollowHint, BeginLoad, ShowTv, ShowPage, ShowPageError
<1>5. cart' \in [Screens -> 0..MaxCarts] /\ key' \in [Screens -> 0..MaxCarts]
    BY <1>0, Numbers DEF OpenTv, FollowHint, BeginLoad, ShowTv, ShowPage, ShowPageError
<1>6. StayTypeOK'
    BY <1>0, <1>1, SameStayTypes
<1>7. QED
    BY <1>1, <1>2, <1>3, <1>4, <1>5, <1>6, ScreensTypesApart, ScreensTypesTogether

(* The app ends, or the page begins again.                                 *)
LEMMA LeavingTypes ==
    ASSUME ScreensTypeOK, NEW x \in Screens,
           \/ x \in Tvs /\ \E i \in Slots : Crash(x, i)
           \/ x \in Pages /\ ReloadPage(x)
    PROVE  ScreensTypeOK' /\ UNCHANGED <<orders, carts>>
<1> USE DEF stayVars, bounds
<1>0. /\ StayTypeOK
      /\ load \in [Screens -> [Slots -> LoadStates]] /\ send \in [Screens -> [Slots -> SendStates]]
      /\ ui \in [Screens -> {"Loading", "Ready", "Error", "Gone"}] /\ view \in [Screens -> Views]
      /\ cart \in [Screens -> 0..MaxCarts] /\ key \in [Screens -> 0..MaxCarts]
      /\ busy \in [Screens -> BOOLEAN] /\ Vacant \in Views /\ faults \in 0..MaxFaults
      /\ link \in [Tvs -> {"off", "opening", "joined"}] /\ hint \in [Tvs -> BOOLEAN]
    BY ScreensTypesApart, ViewsShown
<1>1. /\ UNCHANGED <<stayVars, orders, carts, keys>>
      /\ load' = [load EXCEPT ![x] = [k \in Slots |-> NoLoad]]
      /\ send' = [send EXCEPT ![x] = [k \in Slots |-> NoSend]]
      /\ \E how \in {"Gone", "Loading"} : ui' = [ui EXCEPT ![x] = how]
      /\ view' = [view EXCEPT ![x] = Vacant] /\ cart' = [cart EXCEPT ![x] = 0]
      /\ key' = [key EXCEPT ![x] = 0] /\ busy' = [busy EXCEPT ![x] = FALSE]
      /\ link' = link \/ link' = [link EXCEPT ![x] = "off"]
      /\ hint' = hint \/ hint' = [hint EXCEPT ![x] = FALSE]
      /\ faults' = faults \/ (faults < MaxFaults /\ faults' = faults + 1)
    <2>1. CASE ReloadPage(x)
        BY <2>1 DEF ReloadPage
    <2>2. ASSUME NEW i \in Slots, Crash(x, i)
          PROVE  /\ UNCHANGED <<stayVars, orders, carts, keys, faults>>
                 /\ load' = [load EXCEPT ![x] = [k \in Slots |-> NoLoad]]
                 /\ send' = [send EXCEPT ![x] = [k \in Slots |-> NoSend]]
                 /\ ui' = [ui EXCEPT ![x] = "Gone"]
                 /\ view' = [view EXCEPT ![x] = Vacant] /\ cart' = [cart EXCEPT ![x] = 0]
                 /\ key' = [key EXCEPT ![x] = 0] /\ busy' = [busy EXCEPT ![x] = FALSE]
                 /\ link' = [link EXCEPT ![x] = "off"] /\ hint' = [hint EXCEPT ![x] = FALSE]
        BY <2>2 DEF Crash
    <2>3. QED
        BY <2>1, <2>2
<1>2. /\ load' \in [Screens -> [Slots -> LoadStates]]
      /\ send' \in [Screens -> [Slots -> SendStates]]
    BY <1>0, <1>1, LoadsAreTyped, SendsAreTyped
<1>3. /\ ui' \in [Screens -> {"Loading", "Ready", "Error", "Gone"}]
      /\ view' \in [Screens -> Views] /\ busy' \in [Screens -> BOOLEAN]
      /\ link' \in [Tvs -> {"off", "opening", "joined"}] /\ hint' \in [Tvs -> BOOLEAN]
    BY <1>0, <1>1
<1>4. cart' \in [Screens -> 0..MaxCarts] /\ key' \in [Screens -> 0..MaxCarts]
    BY <1>0, <1>1, Numbers
<1>5. faults' \in 0..MaxFaults
    BY <1>0, <1>1, Numbers
<1>6. StayTypeOK'
    BY <1>0, <1>1, SameStayTypes
<1>7. QED
    BY <1>1, <1>2, <1>3, <1>4, <1>5, <1>6, ScreensTypesApart, ScreensTypesTogether

(* Carts and submissions.                                                  *)
LEMMA CartTypes ==
    ASSUME ScreensTypeOK, NEW x \in Screens, FillCart(x) \/ EmptyCart(x)
    PROVE  ScreensTypeOK' /\ UNCHANGED <<orders, send>>
<1> USE DEF stayVars, bounds
<1>0. /\ StayTypeOK /\ cart \in [Screens -> 0..MaxCarts] /\ key \in [Screens -> 0..MaxCarts]
      /\ carts \in 0..MaxCarts
    BY ScreensTypesApart
<1>1. UNCHANGED <<stayVars, orders, ui, view, busy, load, send, link, hint, keys, faults>>
    BY DEF FillCart, EmptyCart
<1>2. carts' \in 0..MaxCarts
    BY <1>0, Numbers DEF FillCart, EmptyCart, Filled
<1>3. carts + 1 \in 0..MaxCarts \/ ~FillCart(x)
    BY <1>0, Numbers DEF FillCart, Filled
<1>4. cart' \in [Screens -> 0..MaxCarts] /\ key' \in [Screens -> 0..MaxCarts]
    BY <1>0, <1>3, Numbers DEF FillCart, EmptyCart, Filled
<1>5. StayTypeOK'
    BY <1>0, <1>1, SameStayTypes
<1>6. QED
    BY <1>1, <1>2, <1>4, <1>5, ScreensTypesApart, ScreensTypesTogether

LEMMA SubmitTypes ==
    ASSUME ScreensTypeOK, NEW x \in Screens, NEW j \in Slots, Submit(x, j)
    PROVE  ScreensTypeOK' /\ UNCHANGED <<orders, carts, cart, view, ui>>
<1> USE DEF stayVars, bounds
<1>0. /\ StayTypeOK /\ cart \in [Screens -> 0..MaxCarts] /\ key \in [Screens -> 0..MaxCarts]
      /\ keys \in 0..MaxCarts /\ busy \in [Screens -> BOOLEAN]
      /\ send \in [Screens -> [Slots -> SendStates]] /\ KeyFor(x) \in 0..MaxCarts
    BY ScreensTypesApart, Numbers DEF Submit
<1>1. UNCHANGED <<stayVars, orders, ui, view, cart, load, link, hint, carts, faults>>
    BY DEF Submit
<1>2. send' \in [Screens -> [Slots -> SendStates]]
    <2>1. [at |-> "sent", key |-> KeyFor(x), cart |-> cart[x], stay |-> None] \in SendStates
        BY <1>0, SendsAreTyped
    <2>2. QED
        BY <1>0, <2>1, SetSendTypes DEF Submit
<1>3. /\ key' \in [Screens -> 0..MaxCarts] /\ busy' \in [Screens -> BOOLEAN]
      /\ keys' \in 0..MaxCarts
    BY <1>0 DEF Submit
<1>4. StayTypeOK'
    BY <1>0, <1>1, SameStayTypes
<1>5. QED
    BY <1>1, <1>2, <1>3, <1>4, ScreensTypesApart, ScreensTypesTogether

LEMMA SendingTypes ==
    ASSUME ScreensTypeOK, SendsAreWhole, NEW x \in Screens, NEW j \in Slots,
           Resolve(x, j) \/ Create(x, j) \/ Confirmed(x, j) \/ Failed(x, j) \/ LoseSend(x, j)
    PROVE  ScreensTypeOK' /\ UNCHANGED <<carts, view, ui>>
<1> USE DEF stayVars, bounds
<1>0. /\ StayTypeOK /\ cart \in [Screens -> 0..MaxCarts] /\ key \in [Screens -> 0..MaxCarts]
      /\ busy \in [Screens -> BOOLEAN] /\ faults \in 0..MaxFaults /\ orders \in [Order -> Nat]
      /\ send \in [Screens -> [Slots -> SendStates]] /\ send[x][j] \in SendStates
    BY ScreensTypesApart
<1>1. UNCHANGED <<stayVars, ui, view, load, link, hint, carts, keys>>
    BY DEF Resolve, Create, Confirmed, Failed, LoseSend
<1>2. send' \in [Screens -> [Slots -> SendStates]]
    <2>1. Now # Vacant => Now.stay \in Stays
        BY <1>0, HereIsARoom DEF Now, ViewOf, Vacant, StayTypeOK
    <2>2. \E to \in SendStates : SetSend(x, j, to)
        BY <1>0, <2>1, SendsAreTyped DEF Resolve, Create, Confirmed, Failed, LoseSend
    <2>3. QED
        BY <1>0, <2>2, SetSendTypes
<1>3. orders' \in [Order -> Nat]
    <2>1. CASE Create(x, j)
        <3>1. PICK s \in SendStates : s = send[x][j]
            BY <1>0
        <3>2. s.stay \in Stays /\ s.key \in Keys /\ s.cart \in Carts
            BY <2>1, <3>1 DEF Create, SendsAreWhole, Sendable
        <3>3. [stay |-> s.stay, key |-> s.key, cart |-> s.cart] \in Order
            BY <3>2 DEF Order
        <3>4. QED
            BY <1>0, <2>1, <3>1, <3>3 DEF Create
    <2>2. CASE Resolve(x, j) \/ Confirmed(x, j) \/ Failed(x, j) \/ LoseSend(x, j)
        BY <1>0, <2>2 DEF Resolve, Confirmed, Failed, LoseSend
    <2>3. QED
        BY <2>1, <2>2
<1>4. cart' \in [Screens -> 0..MaxCarts] /\ key' \in [Screens -> 0..MaxCarts]
    BY <1>0, Numbers DEF Resolve, Create, Confirmed, Failed, LoseSend
<1>5. busy' \in [Screens -> BOOLEAN]
    BY <1>0 DEF Resolve, Create, Confirmed, Failed, LoseSend
<1>6. faults' \in 0..MaxFaults
    BY <1>0, Numbers DEF Resolve, Create, Confirmed, Failed, LoseSend
<1>7. StayTypeOK'
    BY <1>0, <1>1, SameStayTypes
<1>8. QED
    BY <1>1, <1>2, <1>3, <1>4, <1>5, <1>6, <1>7, ScreensTypesApart, ScreensTypesTogether

(* The reception's changes leave the screens, and may send an event.       *)
LEMMA NoticedTypes ==
    ASSUME ScreensTypeOK, StayTypeOK', Noticed
    PROVE  ScreensTypeOK' /\ UNCHANGED <<orders, send, carts, cart, key, view, ui>>
<1>1. hint' \in [Tvs -> BOOLEAN]
    BY ScreensTypesApart DEF Noticed
<1>2. UNCHANGED <<orders, ui, view, cart, key, busy, load, send, link, carts, keys, faults>>
    BY DEF Noticed, bounds
<1>3. QED
    BY <1>1, <1>2, ScreensTypesApart, ScreensTypesTogether

-----------------------------------------------------------------------------
(* Carts and their ids                                                     *)

(* A submission or an order of a cart under an id.                         *)
Used(c, k) ==
    \/ \E x \in Screens, j \in Slots : /\ send[x][j].at \in {"sent", "resolved"}
                                       /\ send[x][j].cart = c /\ send[x][j].key = k
    \/ \E o \in Order : orders[o] > 0 /\ o.cart = c /\ o.key = k

(* A cart is on one screen, and all that was ever sent of it was sent      *)
(* under one id: the one the screen keeps as long as it shows the cart.    *)
CartsAreKeyed ==
    /\ \A x \in Screens : cart[x] <= carts
    /\ \A x, y \in Screens : cart[x] # 0 /\ cart[x] = cart[y] => x = y
    /\ \A c, k \in 0..MaxCarts : Used(c, k) => c <= carts /\ c # 0 /\ k # 0
    /\ \A c, k, l \in 0..MaxCarts : Used(c, k) /\ Used(c, l) => k = l
    /\ \A x \in Screens, k \in 0..MaxCarts : cart[x] # 0 /\ Used(cart[x], k) => key[x] = k
    /\ \A o \in Order : orders[o] \in {0, 1}

(* A page that shows no guest has an empty cart.                           *)
PageCarts == \A x \in Pages : ui[x] # "Ready" => cart[x] = 0

ScreensInv == ScreensTypeOK /\ SendsAreWhole /\ CartsAreKeyed /\ PageCarts

(* What CartStaysWithGuest says of a step.                                 *)
CartsStay ==
    \A x \in Screens : cart[x] # 0 /\ cart'[x] = cart[x] => view'[x].name = view[x].name

LEMMA InvInitially == ScreensInit => ScreensInv
<1> SUFFICES ASSUME ScreensInit PROVE ScreensInv
    OBVIOUS
<1>1. \A x \in Screens, j \in Slots : send[x][j].at = "none"
    BY SendsAreTyped DEF ScreensInit
<1>2. \A o \in Order : orders[o] = 0
    BY DEF ScreensInit
<1>3. \A c, k \in 0..MaxCarts : ~Used(c, k)
    BY <1>1, <1>2 DEF Used
<1>4. \A x \in Screens : cart[x] = 0 /\ carts = 0
    BY DEF ScreensInit
<1>5. CartsAreKeyed
    BY <1>2, <1>3, <1>4 DEF CartsAreKeyed
<1>6. SendsAreWhole /\ PageCarts
    BY <1>1, <1>4 DEF SendsAreWhole, Sendable, PageCarts, Screens
<1>7. QED
    BY <1>5, <1>6, ScreensInitially DEF ScreensInv

(* Steps that send nothing new and fill no cart.                           *)
LEMMA StillKeyed ==
    ASSUME ScreensInv, carts' = carts,
           \A c, k \in 0..MaxCarts : Used(c, k)' => Used(c, k),
           \A x \in Screens : cart'[x] = 0 \/ (cart'[x] = cart[x] /\ key'[x] = key[x]),
           \A o \in Order : orders'[o] \in {0, 1}
    PROVE  CartsAreKeyed'
<1>1. /\ cart \in [Screens -> 0..MaxCarts] /\ carts \in 0..MaxCarts
    BY ScreensTypesApart DEF ScreensInv
<1>2. \A x \in Screens : cart'[x] <= carts
    BY <1>1 DEF ScreensInv, CartsAreKeyed
<1>3. \A x, y \in Screens : cart'[x] # 0 /\ cart'[x] = cart'[y] => x = y
    BY DEF ScreensInv, CartsAreKeyed
<1>4. ASSUME NEW x \in Screens, NEW k \in 0..MaxCarts, cart'[x] # 0, Used(cart[x], k)'
      PROVE  key'[x] = k
    <2>1. cart'[x] = cart[x] /\ key'[x] = key[x]
        BY <1>4
    <2>2. PICK c \in 0..MaxCarts : c = cart[x]
        BY <1>1
    <2>3. c = cart'[x]
        BY <2>1, <2>2
    <2>4. Used(c, k)'
        BY <1>4, <2>3 DEF Used
    <2>5. Used(c, k)
        BY <2>4
    <2>6. QED
        BY <1>4, <2>1, <2>2, <2>5 DEF ScreensInv, CartsAreKeyed
<1>5. QED
    BY <1>2, <1>3, <1>4 DEF ScreensInv, CartsAreKeyed

LEMMA NothingNewUsed ==
    ASSUME UNCHANGED <<orders, send>>
    PROVE  /\ \A c, k \in 0..MaxCarts : Used(c, k)' <=> Used(c, k)
           /\ SendsAreWhole => SendsAreWhole'
BY DEF Used, SendsAreWhole, Sendable

LEMMA QuietScreens ==
    ASSUME ScreensInv, ScreensTypeOK', UNCHANGED <<orders, send, carts, cart, key, view>>,
           \A x \in Pages : ui'[x] # "Ready" => ui[x] # "Ready"
    PROVE  ScreensInv' /\ CartsStay
<1>1. CartsAreKeyed'
    BY NothingNewUsed, StillKeyed DEF ScreensInv, CartsAreKeyed
<1>2. QED
    BY <1>1, NothingNewUsed DEF ScreensInv, PageCarts, CartsStay

LEMMA LoadingStep ==
    ASSUME ScreensInv, NEW x \in Screens,
           \/ \E i \in Slots : \/ ReadContext(x, i) \/ ReadRest(x, i) \/ LoseLoad(x, i)
                               \/ x \in Tvs /\ ShowError(x, i)
           \/ x \in Tvs /\ (Join(x) \/ LoseLink(x))
           \/ x \in Pages /\ Focus(x)
    PROVE  ScreensInv' /\ CartsStay
<1>1. ScreensTypeOK' /\ UNCHANGED <<orders, send, carts, cart, key, view>>
    BY LoadingTypes DEF ScreensInv
<1>2. \A y \in Pages : ui'[y] = ui[y]
    <2>1. x \in Tvs \/ ui' = ui
        BY DEF ReadContext, ReadRest, LoseLoad, Join, LoseLink, Focus
    <2>2. ui' = ui \/ (x \in Tvs /\ ui' = [ui EXCEPT ![x] = "Error"])
        BY <2>1 DEF ReadContext, ReadRest, LoseLoad, ShowError, Join, LoseLink, Focus
    <2>3. QED
        BY <2>2, ScreensAreDistinct, ScreensTypesApart DEF ScreensInv, Screens
<1>3. QED
    BY <1>1, <1>2, QuietScreens

LEMMA ShowingStep ==
    ASSUME ScreensInv, NEW x \in Screens,
           \/ x \in Tvs /\ \E i \in Slots : OpenTv(x, i) \/ FollowHint(x, i) \/ ShowTv(x, i)
           \/ x \in Pages /\ (ShowPage(x) \/ ShowPageError(x))
    PROVE  ScreensInv' /\ CartsStay
<1>0. /\ cart \in [Screens -> 0..MaxCarts] /\ key \in [Screens -> 0..MaxCarts]
      /\ view \in [Screens -> Views] /\ ui \in [Screens -> {"Loading", "Ready", "Error", "Gone"}]
    BY ScreensTypesApart DEF ScreensInv
<1>1. ScreensTypeOK' /\ UNCHANGED <<orders, send, carts>>
    BY ShowingTypes DEF ScreensInv
<1>2. /\ \A y \in Screens : y # x => /\ cart'[y] = cart[y] /\ key'[y] = key[y]
                                     /\ view'[y] = view[y] /\ ui'[y] = ui[y]
      /\ \/ cart'[x] = 0
         \/ /\ x \in Pages /\ ShowPage(x) /\ ~Changes(x, load[x][1].seen)
            /\ cart'[x] = cart[x] /\ key'[x] = key[x]
    BY <1>0 DEF OpenTv, FollowHint, BeginLoad, ShowTv, ShowPage, ShowPageError, bounds
<1>3. cart'[x] # 0 => view'[x].name = view[x].name /\ ui'[x] = "Ready"
    <2>1. SUFFICES ASSUME x \in Pages, ShowPage(x), ~Changes(x, load[x][1].seen),
                          cart'[x] = cart[x], cart'[x] # 0
                   PROVE  view'[x].name = view[x].name /\ ui'[x] = "Ready"
        BY <1>2
    <2>2. ui[x] = "Ready"
        BY <2>1 DEF ScreensInv, PageCarts
    <2>3. view'[x] = load[x][1].seen /\ ui'[x] = "Ready"
        BY <1>0, <2>1 DEF ShowPage
    <2>4. QED
        BY <2>1, <2>2, <2>3 DEF Changes
<1>4. CartsAreKeyed'
    <2>1. \A y \in Screens : cart'[y] = 0 \/ (cart'[y] = cart[y] /\ key'[y] = key[y])
        BY <1>2
    <2>2. \A o \in Order : orders'[o] \in {0, 1}
        BY <1>1 DEF ScreensInv, CartsAreKeyed
    <2>3. QED
        BY <1>1, <2>1, <2>2, NothingNewUsed, StillKeyed
<1>5. PageCarts'
    BY <1>2, <1>3 DEF ScreensInv, PageCarts, Screens
<1>6. CartsStay
    BY <1>2, <1>3 DEF CartsStay
<1>7. QED
    BY <1>1, <1>4, <1>5, <1>6, NothingNewUsed DEF ScreensInv

LEMMA LeavingStep ==
    ASSUME ScreensInv, NEW x \in Screens,
           \/ x \in Tvs /\ \E i \in Slots : Crash(x, i)
           \/ x \in Pages /\ ReloadPage(x)
    PROVE  ScreensInv' /\ CartsStay
<1>0. /\ cart \in [Screens -> 0..MaxCarts] /\ key \in [Screens -> 0..MaxCarts]
      /\ view \in [Screens -> Views] /\ ui \in [Screens -> {"Loading", "Ready", "Error", "Gone"}]
      /\ send \in [Screens -> [Slots -> SendStates]]
    BY ScreensTypesApart DEF ScreensInv
<1>1. ScreensTypeOK' /\ UNCHANGED <<orders, carts>>
    BY LeavingTypes DEF ScreensInv
<1>2. /\ cart' = [cart EXCEPT ![x] = 0] /\ key' = [key EXCEPT ![x] = 0]
      /\ view' = [view EXCEPT ![x] = Vacant]
      /\ send' = [send EXCEPT ![x] = [k \in Slots |-> NoSend]]
      /\ \E how \in {"Gone", "Loading"} : ui' = [ui EXCEPT ![x] = how]
    <2>1. CASE ReloadPage(x)
        BY <2>1 DEF ReloadPage
    <2>2. ASSUME NEW i \in Slots, Crash(x, i)
          PROVE  /\ cart' = [cart EXCEPT ![x] = 0] /\ key' = [key EXCEPT ![x] = 0]
                 /\ view' = [view EXCEPT ![x] = Vacant]
                 /\ send' = [send EXCEPT ![x] = [k \in Slots |-> NoSend]]
                 /\ ui' = [ui EXCEPT ![x] = "Gone"]
        BY <2>2 DEF Crash
    <2>3. QED
        BY <2>1, <2>2
<1>3. /\ \A y \in Screens : y # x => /\ cart'[y] = cart[y] /\ key'[y] = key[y]
                                     /\ view'[y] = view[y] /\ ui'[y] = ui[y]
                                     /\ send'[y] = send[y]
      /\ cart'[x] = 0 /\ \A j \in Slots : send'[x][j].at = "none"
    BY <1>0, <1>2, SendsAreTyped
<1>4. \A c, k \in 0..MaxCarts : Used(c, k)' => Used(c, k)
    BY <1>1, <1>3 DEF Used
<1>5. SendsAreWhole'
    BY <1>3 DEF ScreensInv, SendsAreWhole, Sendable
<1>6. CartsAreKeyed'
    <2>1. \A y \in Screens : cart'[y] = 0 \/ (cart'[y] = cart[y] /\ key'[y] = key[y])
        BY <1>3
    <2>2. \A o \in Order : orders'[o] \in {0, 1}
        BY <1>1 DEF ScreensInv, CartsAreKeyed
    <2>3. QED
        BY <1>1, <1>4, <2>1, <2>2, StillKeyed
<1>7. PageCarts' /\ CartsStay
    BY <1>3 DEF ScreensInv, PageCarts, Screens, CartsStay
<1>8. QED
    BY <1>1, <1>5, <1>6, <1>7 DEF ScreensInv

(* A cart that is filled or edited is a new one, of which nothing was sent.*)
LEMMA CartStep ==
    ASSUME ScreensInv, NEW x \in Screens, FillCart(x) \/ EmptyCart(x)
    PROVE  ScreensInv' /\ CartsStay
<1>0. /\ cart \in [Screens -> 0..MaxCarts] /\ key \in [Screens -> 0..MaxCarts]
      /\ carts \in 0..MaxCarts
    BY ScreensTypesApart DEF ScreensInv
<1>1. ScreensTypeOK' /\ UNCHANGED <<orders, send>>
    BY CartTypes DEF ScreensInv
<1>2. UNCHANGED <<view, ui>> /\ ui[x] = "Ready"
    BY DEF FillCart, EmptyCart
<1>3. \A o \in Order : orders'[o] \in {0, 1}
    BY <1>1 DEF ScreensInv, CartsAreKeyed
<1>4. \A y \in Screens : y # x => cart'[y] = cart[y] /\ key'[y] = key[y]
    BY <1>0 DEF FillCart, EmptyCart, Filled
<1>5. CartsAreKeyed'
    <2>1. CASE EmptyCart(x)
        <3>1. cart'[x] = 0 /\ carts' = carts
            BY <1>0, <2>1 DEF EmptyCart, bounds
        <3>2. QED
            BY <1>1, <1>3, <1>4, <3>1, NothingNewUsed, StillKeyed
    <2>2. CASE FillCart(x)
        <3>1. /\ cart'[x] = carts + 1 /\ carts' = carts + 1 /\ key' = key
            BY <1>0, <2>2 DEF FillCart, Filled
        <3>2. \A y \in Screens : cart'[y] <= carts'
            BY <1>0, <1>4, <3>1 DEF ScreensInv, CartsAreKeyed
        <3>3. \A y, z \in Screens : cart'[y] # 0 /\ cart'[y] = cart'[z] => y = z
            <4>1. \A y \in Screens : cart[y] < carts + 1
                BY <1>0 DEF ScreensInv, CartsAreKeyed
            <4>2. \A y \in Screens : y # x => cart'[y] # cart'[x]
                BY <1>0, <1>4, <3>1, <4>1
            <4>3. QED
                BY <1>4, <4>2 DEF ScreensInv, CartsAreKeyed
        <3>4. \A c, k \in 0..MaxCarts : Used(c, k)' => c <= carts' /\ c # 0 /\ k # 0
            <4>1. \A c \in 0..MaxCarts : c <= carts => c <= carts + 1
                BY <1>0
            <4>2. QED
                BY <1>1, <3>1, <4>1, NothingNewUsed DEF ScreensInv, CartsAreKeyed
        <3>5. \A c, k, l \in 0..MaxCarts : Used(c, k)' /\ Used(c, l)' => k = l
            BY <1>1, NothingNewUsed DEF ScreensInv, CartsAreKeyed
        <3>6. ASSUME NEW y \in Screens, NEW k \in 0..MaxCarts, cart'[y] # 0, Used(cart[y], k)'
              PROVE  key'[y] = k
            <4>1. PICK c \in 0..MaxCarts : c = cart'[y]
                BY <1>1 DEF ScreensTypeOK
            <4>2. Used(c, k)'
                BY <3>6, <4>1 DEF Used
            <4>3. Used(c, k)
                BY <1>1, <4>2, NothingNewUsed
            <4>4. c <= carts
                BY <4>3 DEF ScreensInv, CartsAreKeyed
            <4>5. y # x
                BY <1>0, <3>1, <4>1, <4>4
            <4>6. c = cart[y] /\ key'[y] = key[y]
                BY <1>4, <4>1, <4>5
            <4>7. QED
                BY <3>6, <4>1, <4>3, <4>6 DEF ScreensInv, CartsAreKeyed
        <3>7. QED
            BY <1>3, <3>2, <3>3, <3>4, <3>5, <3>6 DEF CartsAreKeyed
    <2>3. QED
        BY <2>1, <2>2
<1>6. PageCarts' /\ CartsStay
    BY <1>2, <1>4 DEF ScreensInv, PageCarts, CartsStay, Screens
<1>7. QED
    BY <1>1, <1>5, <1>6, NothingNewUsed DEF ScreensInv

(* What was sent of the cart before was sent under the id the screen keeps.*)
LEMMA SubmitStep ==
    ASSUME ScreensInv, NEW x \in Screens, NEW j \in Slots, Submit(x, j)
    PROVE  ScreensInv' /\ CartsStay
<1>0. /\ cart \in [Screens -> 0..MaxCarts] /\ key \in [Screens -> 0..MaxCarts]
      /\ carts \in 0..MaxCarts /\ send \in [Screens -> [Slots -> SendStates]]
    BY ScreensTypesApart DEF ScreensInv
<1>1. ScreensTypeOK' /\ UNCHANGED <<orders, carts, cart, view, ui>>
    BY SubmitTypes DEF ScreensInv
<1>2. PICK c \in Carts, n \in Keys : c = cart[x] /\ n = KeyFor(x)
    BY <1>0 DEF Submit, Carts
<1>3. /\ send'[x][j] = [at |-> "sent", key |-> n, cart |-> c, stay |-> None]
      /\ \A y \in Screens, i \in Slots : ~(y = x /\ i = j) => send'[y][i] = send[y][i]
      /\ key'[x] = n /\ \A y \in Screens : y # x => key'[y] = key[y]
    <2>1. [at |-> "sent", key |-> n, cart |-> c, stay |-> None] \in SendStates
        BY <1>2, Numbers, SendsAreTyped
    <2>2. QED
        BY <1>0, <1>2, <2>1, SetSendTypes DEF Submit
<1>4. c \in 0..MaxCarts /\ n \in 0..MaxCarts /\ c # 0 /\ n # 0
    BY <1>2, Numbers
<1>5. \A d, k \in 0..MaxCarts : Used(d, k)' => Used(d, k) \/ (d = c /\ k = n)
    BY <1>1, <1>3 DEF Used
<1>6. \A k \in 0..MaxCarts : Used(c, k) => k = n
    BY <1>0, <1>2, <1>4 DEF ScreensInv, CartsAreKeyed, KeyFor
<1>7. CartsAreKeyed'
    <2>1. \A d, k \in 0..MaxCarts : Used(d, k)' => d <= carts' /\ d # 0 /\ k # 0
        BY <1>1, <1>2, <1>4, <1>5 DEF ScreensInv, CartsAreKeyed
    <2>2. \A d, k, l \in 0..MaxCarts : Used(d, k)' /\ Used(d, l)' => k = l
        BY <1>5, <1>6 DEF ScreensInv, CartsAreKeyed
    <2>3. ASSUME NEW y \in Screens, NEW k \in 0..MaxCarts, cart'[y] # 0, Used(cart[y], k)'
          PROVE  key'[y] = k
        <3>1. PICK d \in 0..MaxCarts : d = cart[y]
            BY <1>0
        <3>2. d = cart'[y]
            BY <1>1, <3>1
        <3>3. Used(d, k)'
            BY <2>3, <3>2 DEF Used
        <3>4. CASE y = x
            <4>1. Used(c, k) \/ k = n
                BY <1>2, <1>5, <3>1, <3>3, <3>4
            <4>2. QED
                BY <1>3, <1>6, <3>4, <4>1
        <3>5. CASE y # x
            <4>1. d # c
                BY <1>2, <1>4, <3>1, <3>5 DEF ScreensInv, CartsAreKeyed
            <4>2. Used(d, k)
                BY <1>5, <3>3, <4>1
            <4>3. QED
                BY <1>1, <1>3, <2>3, <3>1, <3>5, <4>2 DEF ScreensInv, CartsAreKeyed
        <3>6. QED
            BY <3>4, <3>5
    <2>4. QED
        BY <1>1, <2>1, <2>2, <2>3 DEF ScreensInv, CartsAreKeyed
<1>8. SendsAreWhole'
    <2>1. Sendable([at |-> "sent", key |-> n, cart |-> c, stay |-> None])
        BY DEF Sendable
    <2>2. \A y \in Screens, i \in Slots : Sendable(send'[y][i])
        BY <1>3, <2>1 DEF ScreensInv, SendsAreWhole
    <2>3. QED
        BY <2>2 DEF SendsAreWhole, Sendable
<1>9. PageCarts' /\ CartsStay
    BY <1>1 DEF ScreensInv, PageCarts, CartsStay
<1>10. QED
    BY <1>1, <1>7, <1>8, <1>9 DEF ScreensInv

LEMMA FoundStay ==
    ASSUME NEW s \in SendStates, NEW st \in Stays
    PROVE  \E found \in SendStates :
              /\ found = [s EXCEPT !.at = "resolved", !.stay = st]
              /\ found.at = "resolved" /\ found.stay = st
              /\ found.key = s.key /\ found.cart = s.cart
<1> DEFINE found == [s EXCEPT !.at = "resolved", !.stay = st]
<1>1. /\ found \in SendStates /\ found.at = "resolved" /\ found.stay = st
      /\ found.key = s.key /\ found.cart = s.cart
    BY DEF SendStates
<1>2. QED
    BY <1>1

(* What becomes of a submission has its cart and its id.                   *)
LEMMA SendingStep ==
    ASSUME ScreensInv, NEW x \in Screens, NEW j \in Slots,
           Resolve(x, j) \/ Create(x, j) \/ Confirmed(x, j) \/ Failed(x, j) \/ LoseSend(x, j)
    PROVE  ScreensInv' /\ CartsStay
<1>0. /\ cart \in [Screens -> 0..MaxCarts] /\ key \in [Screens -> 0..MaxCarts]
      /\ send \in [Screens -> [Slots -> SendStates]] /\ send[x][j] \in SendStates
      /\ orders \in [Order -> Nat] /\ StayTypeOK
    BY ScreensTypesApart DEF ScreensInv
<1>1. ScreensTypeOK' /\ UNCHANGED <<carts, view, ui>>
    BY SendingTypes DEF ScreensInv
<1>2. PICK s \in SendStates : s = send[x][j]
    BY <1>0
<1>3. Sendable(s)
    BY <1>2 DEF ScreensInv, SendsAreWhole
<1>4. PICK to \in SendStates :
         /\ SetSend(x, j, to)
         /\ \/ to.at \notin {"sent", "resolved"}
            \/ /\ s.at = "sent" /\ to.at = "resolved" /\ to.key = s.key /\ to.cart = s.cart
               /\ to.stay \in Stays
    <2>1. CASE Resolve(x, j)
        <3>1. CASE Now = Vacant
            <4>1. SetSend(x, j, Ended("failed"))
                BY <2>1, <3>1 DEF Resolve
            <4>2. QED
                BY <4>1, SendsAreTyped
        <3>2. CASE Now # Vacant
            <4>1. Now.stay \in Stays
                BY <1>0, <3>2, HereIsARoom DEF Now, ViewOf, Vacant, StayTypeOK
            <4>2. PICK st \in Stays : st = Now.stay
                BY <4>1
            <4>3. SetSend(x, j, [s EXCEPT !.at = "resolved", !.stay = st]) /\ s.at = "sent"
                BY <1>2, <2>1, <3>2, <4>2 DEF Resolve
            <4>4. PICK found \in SendStates :
                     /\ found = [s EXCEPT !.at = "resolved", !.stay = st]
                     /\ found.at = "resolved" /\ found.stay = st
                     /\ found.key = s.key /\ found.cart = s.cart
                BY FoundStay
            <4>5. QED
                BY <4>2, <4>3, <4>4
        <3>3. QED
            BY <3>1, <3>2
    <2>2. CASE Create(x, j) \/ Confirmed(x, j) \/ Failed(x, j) \/ LoseSend(x, j)
        <3>1. \E to \in {Ended("taken"), NoSend, Ended("failed")} : SetSend(x, j, to)
            BY <2>2 DEF Create, Confirmed, Failed, LoseSend
        <3>2. \A to \in {Ended("taken"), NoSend, Ended("failed")} :
                  to \in SendStates /\ to.at \notin {"sent", "resolved"}
            BY SendsAreTyped
        <3>3. QED
            BY <3>1, <3>2
    <2>3. QED
        BY <2>1, <2>2
<1>5. /\ send'[x][j] = to
      /\ \A y \in Screens, k \in Slots : ~(y = x /\ k = j) => send'[y][k] = send[y][k]
    BY <1>0, <1>4, SetSendTypes
<1>6. SendsAreWhole'
    <2>1. Sendable(to)
        BY <1>3, <1>4 DEF Sendable
    <2>2. \A y \in Screens, k \in Slots : Sendable(send'[y][k])
        BY <1>5, <2>1 DEF ScreensInv, SendsAreWhole
    <2>3. QED
        BY <2>2 DEF SendsAreWhole, Sendable
<1>7. /\ \A o \in Order : orders'[o] \in {0, 1}
      /\ \A o \in Order : orders'[o] > 0 =>
            \/ orders[o] > 0
            \/ s.at = "resolved" /\ o.cart = s.cart /\ o.key = s.key
    <2>1. CASE ~Create(x, j)
        <3>1. orders' = orders
            BY <2>1 DEF Resolve, Confirmed, Failed, LoseSend
        <3>2. QED
            BY <3>1 DEF ScreensInv, CartsAreKeyed
    <2>2. CASE Create(x, j)
        <3>1. s.at = "resolved" /\ s.stay \in Stays /\ s.key \in Keys /\ s.cart \in Carts
            BY <1>2, <1>3, <2>2 DEF Create, Sendable
        <3>2. PICK o1 \in Order : o1 = [stay |-> s.stay, key |-> s.key, cart |-> s.cart]
            BY <3>1 DEF Order
        <3>3. CASE Taken(s)
            <4>1. orders' = orders
                BY <1>2, <2>2, <3>3 DEF Create
            <4>2. QED
                BY <4>1 DEF ScreensInv, CartsAreKeyed
        <3>4. CASE ~Taken(s)
            <4>1. orders' = [orders EXCEPT ![o1] = @ + 1]
                BY <1>2, <2>2, <3>2, <3>4 DEF Create
            <4>2. ~(orders[o1] > 0)
                BY <3>2, <3>4 DEF Taken
            <4>3. orders[o1] = 0
                BY <4>2 DEF ScreensInv, CartsAreKeyed
            <4>4. orders'[o1] = 1 /\ \A o \in Order : o # o1 => orders'[o] = orders[o]
                BY <1>0, <4>1, <4>3
            <4>5. QED
                BY <3>1, <3>2, <4>4 DEF ScreensInv, CartsAreKeyed
        <3>5. QED
            BY <3>3, <3>4
    <2>3. QED
        BY <2>1, <2>2
<1>8. \A c, k \in 0..MaxCarts : Used(c, k)' => Used(c, k)
    BY <1>2, <1>4, <1>5, <1>7 DEF Used
<1>9. \A y \in Screens : cart'[y] = 0 \/ (cart'[y] = cart[y] /\ key'[y] = key[y])
    BY <1>0 DEF Resolve, Create, Confirmed, Failed, LoseSend
<1>10. CartsAreKeyed'
    BY <1>1, <1>7, <1>8, <1>9, StillKeyed
<1>11. PageCarts' /\ CartsStay
    <2>1. \A y \in Screens : cart'[y] = 0 \/ cart'[y] = cart[y]
        BY <1>9
    <2>2. QED
        BY <1>1, <2>1 DEF ScreensInv, PageCarts, CartsStay, Screens
<1>12. QED
    BY <1>1, <1>6, <1>10, <1>11 DEF ScreensInv

LEMMA ScreenStep ==
    ASSUME ScreensInv, NEW x \in Screens, ScreenSteps(x) \/ Guest(x) \/ Faults(x)
    PROVE  ScreensInv' /\ CartsStay
<1>1. CASE Loads(x)
    BY <1>1, LoadingStep, ShowingStep, LeavingStep DEF Loads
<1>2. CASE Sends(x)
    BY <1>2, SendingStep DEF Sends
<1>3. CASE Events(x)
    BY <1>3, LoadingStep, ShowingStep DEF Events
<1>4. CASE Guest(x)
    BY <1>4, CartStep, SubmitStep, ShowingStep, LoadingStep DEF Guest
<1>5. CASE Faults(x)
    BY <1>5, LoadingStep, SendingStep, LeavingStep DEF Faults
<1>6. QED
    BY <1>1, <1>2, <1>3, <1>4, <1>5 DEF ScreenSteps

LEMMA NoticedStep ==
    ASSUME ScreensInv, StayTypeOK', Noticed
    PROVE  ScreensInv' /\ CartsStay
<1>1. ScreensTypeOK' /\ UNCHANGED <<orders, send, carts, cart, key, view, ui>>
    BY NoticedTypes DEF ScreensInv
<1>2. QED
    BY <1>1, QuietScreens

LEMMA SameScreens ==
    ASSUME ScreensInv, StayTypeOK', UNCHANGED guestOnly
    PROVE  ScreensInv' /\ CartsStay
<1>1. UNCHANGED <<orders, ui, view, cart, key, busy, load, send, link, hint, carts, keys, faults>>
    BY DEF guestOnly, screenVars, bounds
<1>2. ScreensTypeOK'
    BY <1>1, ScreensTypesApart, ScreensTypesTogether DEF ScreensInv
<1>3. QED
    BY <1>1, <1>2, QuietScreens

LEMMA KeyedMeansOnce == ScreensInv => NoCartTwice
<1> SUFFICES ASSUME ScreensInv, NEW o \in Order, NEW p \in Order, orders[o] > 0, orders[p] > 0,
                    o.stay = p.stay, o.cart = p.cart
             PROVE  o = p /\ orders[o] = 1
    BY DEF NoCartTwice
<1>1. /\ o.cart \in 0..MaxCarts /\ o.key \in 0..MaxCarts /\ p.key \in 0..MaxCarts
      /\ o = [stay |-> o.stay, key |-> o.key, cart |-> o.cart]
      /\ p = [stay |-> p.stay, key |-> p.key, cart |-> p.cart]
    BY Numbers DEF Order
<1>2. Used(o.cart, o.key) /\ Used(o.cart, p.key)
    BY DEF Used
<1>3. o.key = p.key
    BY <1>1, <1>2 DEF ScreensInv, CartsAreKeyed
<1>4. QED
    BY <1>1, <1>3 DEF ScreensInv, CartsAreKeyed

-----------------------------------------------------------------------------
(* The receptionists' pages                                                *)

ReadStates == [at : {"none", "asked", "answered", "failed"}, seen : [Rooms -> Views],
               version : Nat]

CallStates == [at : {"none", "sent", "done", "refused"},
               kind : {"none", "assign", "update", "checkout"},
               room : Rooms \cup {None}, stay : Stays \cup {None}, name : Names \cup {None}]

(* A call that is under way names its room, and the guest if it has one;   *)
(* the answer of an assignment has the stay.                               *)
Callable(m) ==
    m.at \in {"sent", "done"} =>
        /\ m.room \in Rooms /\ m.kind \in {"assign", "update", "checkout"}
        /\ m.kind \in {"assign", "update"} => m.name \in Names
        /\ m.kind = "assign" /\ m.at = "done" => m.stay \in Stays

CallsAreWhole == \A d \in Desks : Callable(mutation[d])

(* No read has seen more changes than there were, and the one that counts  *)
(* has seen at least those that the page shows.                            *)
ReadsAreInOrder ==
    /\ \A d \in Desks : asOf[d] <= version
    /\ \A d \in Desks, i \in Slots2 :
          reads[d][i].at = "answered" =>
              /\ reads[d][i].version <= version
              /\ Current(d, i) => asOf[d] <= reads[d][i].version

PagesInv == PagesTypeOK /\ CallsAreWhole /\ ReadsAreInOrder

(* What LatestReadWins says of a step.                                     *)
LaterReads == \A d \in Desks : asOf'[d] >= asOf[d]

LEMMA PagesTypesApart ==
    PagesTypeOK <=>
        /\ StayTypeOK
        /\ opened \in [Desks -> BOOLEAN]
        /\ shown \in [Desks -> [Rooms -> Views]]
        /\ reads \in [Desks -> [Slots2 -> ReadStates]]
        /\ newest \in [Desks -> Slots2 \cup {0}]
        /\ timer \in [Desks -> BOOLEAN]
        /\ live \in [Desks -> BOOLEAN]
        /\ mutation \in [Desks -> CallStates]
        /\ version \in Nat
        /\ asOf \in [Desks -> Nat]
        /\ lost \in 0..MaxLost
BY DEF PagesTypeOK, ReadStates, CallStates

LEMMA PagesTypesTogether ==
    ASSUME StayTypeOK',
           opened' \in [Desks -> BOOLEAN],
           shown' \in [Desks -> [Rooms -> Views]],
           reads' \in [Desks -> [Slots2 -> ReadStates]],
           newest' \in [Desks -> Slots2 \cup {0}],
           timer' \in [Desks -> BOOLEAN],
           live' \in [Desks -> BOOLEAN],
           mutation' \in [Desks -> CallStates],
           version' \in Nat,
           asOf' \in [Desks -> Nat],
           lost' \in 0..MaxLost
    PROVE  PagesTypeOK'
BY DEF PagesTypeOK, ReadStates, CallStates

LEMMA ReadsAreTyped ==
    ASSUME StayTypeOK
    PROVE  /\ AllVacant \in [Rooms -> Views] /\ Vacant \in Views
           /\ NoRead \in ReadStates /\ NoRead.at = "none"
           /\ \A how \in {"asked", "failed"} : /\ [NoRead EXCEPT !.at = how] \in ReadStates
                                               /\ [NoRead EXCEPT !.at = how].at = how
           /\ [r \in Rooms |-> ViewOf(r)] \in [Rooms -> Views]
           /\ \A v \in Nat : [at |-> "answered", seen |-> [r \in Rooms |-> ViewOf(r)],
                              version |-> v] \in ReadStates
<1>1. AllVacant \in [Rooms -> Views] /\ Vacant \in Views
    BY ViewsShown DEF AllVacant
<1>2. [r \in Rooms |-> ViewOf(r)] \in [Rooms -> Views]
    BY ViewsShown
<1>3. QED
    BY <1>1, <1>2 DEF ReadStates, NoRead

LEMMA CallsAreTyped ==
    /\ NoCall \in CallStates /\ NoCall.at = "none"
    /\ [NoCall EXCEPT !.at = "refused"] \in CallStates
    /\ [NoCall EXCEPT !.at = "refused"].at = "refused"
BY DEF CallStates, NoCall

LEMMA SetReadTypes ==
    ASSUME reads \in [Desks -> [Slots2 -> ReadStates]], NEW d \in Desks, NEW i \in Slots2,
           NEW to \in ReadStates, SetRead(d, i, to)
    PROVE  /\ reads' \in [Desks -> [Slots2 -> ReadStates]]
           /\ reads'[d][i] = to
           /\ \A e \in Desks, k \in Slots2 :
                 ~(e = d /\ k = i) => reads'[e][k] = reads[e][k]
BY DEF SetRead

LEMMA PagesInitially == PagesInit => PagesInv
<1> SUFFICES ASSUME PagesInit PROVE PagesInv
    OBVIOUS
<1>1. StayTypeOK
    BY StaysInitially DEF PagesInit
<1>2. /\ shown \in [Desks -> [Rooms -> Views]]
      /\ reads \in [Desks -> [Slots2 -> ReadStates]] /\ mutation \in [Desks -> CallStates]
      /\ \A d \in Desks, i \in Slots2 : reads[d][i].at = "none"
      /\ \A d \in Desks : mutation[d].at = "none"
    BY <1>1, ReadsAreTyped, CallsAreTyped DEF PagesInit
<1>3. /\ opened \in [Desks -> BOOLEAN] /\ timer \in [Desks -> BOOLEAN]
      /\ live \in [Desks -> BOOLEAN] /\ newest \in [Desks -> Slots2 \cup {0}]
      /\ version \in Nat /\ asOf \in [Desks -> Nat] /\ lost \in 0..MaxLost
      /\ \A d \in Desks : asOf[d] <= version
    BY MaxLostIsNumber DEF PagesInit
<1>4. PagesTypeOK
    BY <1>1, <1>2, <1>3, PagesTypesApart
<1>5. QED
    BY <1>2, <1>3, <1>4 DEF PagesInv, CallsAreWhole, Callable, ReadsAreInOrder

(* What a read that begins does.                                           *)
LEMMA LoadRoomsTypes ==
    ASSUME PagesInv, NEW d \in Desks, LoadRooms(d)
    PROVE  /\ reads' \in [Desks -> [Slots2 -> ReadStates]]
           /\ newest' \in [Desks -> Slots2 \cup {0}]
           /\ \A e \in Desks, k \in Slots2 : reads'[e][k].at = "answered" =>
                 /\ reads'[e][k] = reads[e][k]
                 /\ newest'[e] = k => newest[e] = k
<1>0. /\ StayTypeOK /\ reads \in [Desks -> [Slots2 -> ReadStates]]
      /\ newest \in [Desks -> Slots2 \cup {0}]
    BY PagesTypesApart DEF PagesInv
<1>1. PICK to \in ReadStates : to = [NoRead EXCEPT !.at = "asked"] /\ to.at = "asked"
    BY <1>0, ReadsAreTyped
<1>2. PICK i \in Slots2 : SetRead(d, i, to) /\ newest' = [newest EXCEPT ![d] = i]
    BY <1>1 DEF LoadRooms
<1>3. newest'[d] = i /\ \A e \in Desks : e # d => newest'[e] = newest[e]
    BY <1>0, <1>2
<1>4. /\ reads' \in [Desks -> [Slots2 -> ReadStates]] /\ reads'[d][i] = to
      /\ \A e \in Desks, k \in Slots2 :
            ~(e = d /\ k = i) => reads'[e][k] = reads[e][k]
    BY <1>0, <1>2, SetReadTypes
<1>5. ASSUME NEW e \in Desks, NEW k \in Slots2, reads'[e][k].at = "answered"
      PROVE  reads'[e][k] = reads[e][k] /\ (newest'[e] = k => newest[e] = k)
    <2>1. ~(e = d /\ k = i)
        BY <1>1, <1>4, <1>5
    <2>2. QED
        BY <1>3, <1>4, <2>1
<1>6. newest' \in [Desks -> Slots2 \cup {0}]
    BY <1>0, <1>2
<1>7. QED
    BY <1>4, <1>5, <1>6

(* Reads that are those of before, or not answered yet.                    *)
LEMMA StillInOrder ==
    ASSUME PagesInv, version' \in Nat, version <= version', asOf' = asOf,
           \A e \in Desks, k \in Slots2 : reads'[e][k].at = "answered" =>
               reads'[e][k] = reads[e][k] /\ (newest'[e] = k => newest[e] = k)
    PROVE  ReadsAreInOrder' /\ LaterReads
<1>0. version \in Nat /\ asOf \in [Desks -> Nat] /\ reads \in [Desks -> [Slots2 -> ReadStates]]
    BY PagesTypesApart DEF PagesInv
<1>1. \A d \in Desks : asOf'[d] <= version' /\ asOf'[d] >= asOf[d]
    BY <1>0 DEF PagesInv, ReadsAreInOrder
<1>2. ASSUME NEW d \in Desks, NEW i \in Slots2, reads'[d][i].at = "answered"
      PROVE  /\ reads'[d][i].version <= version'
             /\ newest'[d] = i => asOf'[d] <= reads'[d][i].version
    <2>1. PICK s \in ReadStates : s = reads[d][i] /\ s = reads'[d][i] /\ s.at = "answered"
        BY <1>0, <1>2
    <2>2. s.version \in Nat /\ s.version <= version
        BY <2>1 DEF PagesInv, ReadsAreInOrder, ReadStates
    <2>3. s.version <= version'
        BY <1>0, <2>2
    <2>4. newest'[d] = i => asOf[d] <= s.version
        BY <1>2, <2>1 DEF PagesInv, ReadsAreInOrder, Current
    <2>5. QED
        BY <2>1, <2>3, <2>4
<1>3. QED
    BY <1>1, <1>2 DEF ReadsAreInOrder, Current, LaterReads

LEMMA StillWhole ==
    ASSUME PagesInv, NEW d \in Desks, NEW to \in CallStates, Callable(to),
           mutation' = [mutation EXCEPT ![d] = to]
    PROVE  mutation' \in [Desks -> CallStates] /\ CallsAreWhole'
<1>0. mutation \in [Desks -> CallStates]
    BY PagesTypesApart DEF PagesInv
<1>1. \A e \in Desks : Callable(mutation'[e])
    BY <1>0 DEF PagesInv, CallsAreWhole
<1>2. QED
    BY <1>0, <1>1 DEF CallsAreWhole, Callable

(* Steps that begin a read, and change neither the rooms nor the call.     *)
LEMMA BeginningStep ==
    ASSUME PagesInv, NEW d \in Desks,
           OpenDesk(d) \/ Connect(d) \/ TimerFires(d) \/ Poll(d)
    PROVE  PagesInv' /\ LaterReads
<1> USE DEF stayVars
<1>0. /\ StayTypeOK /\ opened \in [Desks -> BOOLEAN] /\ timer \in [Desks -> BOOLEAN]
      /\ live \in [Desks -> BOOLEAN] /\ version \in Nat
    BY PagesTypesApart DEF PagesInv
<1>1. LoadRooms(d) /\ UNCHANGED <<stayVars, shown, mutation, asOf, lost, version>>
    BY DEF OpenDesk, Connect, TimerFires, Poll
<1>2. /\ opened' \in [Desks -> BOOLEAN] /\ timer' \in [Desks -> BOOLEAN]
      /\ live' \in [Desks -> BOOLEAN]
    BY <1>0 DEF OpenDesk, Connect, TimerFires, Poll
<1>3. StayTypeOK'
    BY <1>0, <1>1, SameStayTypes
<1>4. PagesTypeOK'
    BY <1>1, <1>2, <1>3, LoadRoomsTypes, PagesTypesApart, PagesTypesTogether DEF PagesInv
<1>5. ReadsAreInOrder' /\ LaterReads
    BY <1>0, <1>1, LoadRoomsTypes, StillInOrder
<1>6. QED
    BY <1>1, <1>4, <1>5 DEF PagesInv, CallsAreWhole, Callable

(* Steps that leave the reads, and put nothing of them on the page.        *)
LEMMA ReadsLeftAlone ==
    ASSUME PagesInv, StayTypeOK', NEW d \in Desks,
           UNCHANGED <<opened, reads, newest, asOf>>,
           shown' \in [Desks -> [Rooms -> Views]], timer' \in [Desks -> BOOLEAN],
           live' \in [Desks -> BOOLEAN], mutation' \in [Desks -> CallStates],
           CallsAreWhole', lost' \in 0..MaxLost, version' = version \/ version' = version + 1
    PROVE  PagesInv' /\ LaterReads
<1>0. version \in Nat
    BY PagesTypesApart DEF PagesInv
<1>1. version' \in Nat /\ version <= version'
    BY <1>0
<1>2. PagesTypeOK'
    BY <1>1, PagesTypesApart, PagesTypesTogether DEF PagesInv
<1>3. ReadsAreInOrder' /\ LaterReads
    BY <1>1, StillInOrder
<1>4. QED
    BY <1>2, <1>3 DEF PagesInv

(* A call is made, refused, or ends.                                       *)
LEMMA CallStep ==
    ASSUME PagesInv, NEW d \in Desks,
           \/ \E r \in Rooms : \/ \E n \in Names : AssignGuest(d, r, n) \/ UpdateGuest(d, r, n)
                               \/ CheckoutGuest(d, r)
           \/ Refuse(d) \/ TakeAnswer(d) \/ TakeRefusal(d) \/ LoseCall(d)
    PROVE  PagesInv' /\ LaterReads
<1> USE DEF stayVars
<1>0. /\ StayTypeOK /\ shown \in [Desks -> [Rooms -> Views]] /\ lost \in 0..MaxLost
      /\ mutation \in [Desks -> CallStates] /\ timer \in [Desks -> BOOLEAN]
      /\ live \in [Desks -> BOOLEAN]
    BY PagesTypesApart DEF PagesInv
<1>1. UNCHANGED <<stayVars, opened, reads, newest, timer, live, asOf, version>>
    BY DEF AssignGuest, UpdateGuest, CheckoutGuest, Call, Refuse, TakeAnswer, TakeRefusal,
           LoseCall
<1>2. \E to \in CallStates : Callable(to) /\ mutation' = [mutation EXCEPT ![d] = to]
    <2>1. CASE Refuse(d) \/ TakeAnswer(d) \/ TakeRefusal(d) \/ LoseCall(d)
        <3>1. \E to \in {NoCall, [NoCall EXCEPT !.at = "refused"]} :
                  mutation' = [mutation EXCEPT ![d] = to]
            BY <2>1 DEF Refuse, TakeAnswer, TakeRefusal, LoseCall
        <3>2. \A to \in {NoCall, [NoCall EXCEPT !.at = "refused"]} :
                  to \in CallStates /\ Callable(to)
            BY CallsAreTyped DEF Callable
        <3>3. QED
            BY <3>1, <3>2
    <2>2. ASSUME NEW r \in Rooms, NEW n \in Names, AssignGuest(d, r, n) \/ UpdateGuest(d, r, n)
          PROVE  \E to \in CallStates : Callable(to) /\ mutation' = [mutation EXCEPT ![d] = to]
        <3>1. PICK kind \in {"assign", "update"}, s \in Stays \cup {None} : Call(d, kind, r, s, n)
            BY <1>0, <2>2 DEF AssignGuest, UpdateGuest, Views
        <3>2. [at |-> "sent", kind |-> kind, room |-> r, stay |-> s, name |-> n] \in CallStates
            BY DEF CallStates
        <3>3. Callable([at |-> "sent", kind |-> kind, room |-> r, stay |-> s, name |-> n])
            BY DEF Callable
        <3>4. QED
            BY <3>1, <3>2, <3>3 DEF Call
    <2>3. ASSUME NEW r \in Rooms, CheckoutGuest(d, r)
          PROVE  \E to \in CallStates : Callable(to) /\ mutation' = [mutation EXCEPT ![d] = to]
        <3>1. PICK s \in Stays \cup {None} : Call(d, "checkout", r, s, None)
            BY <1>0, <2>3 DEF CheckoutGuest, Views
        <3>2. [at |-> "sent", kind |-> "checkout", room |-> r, stay |-> s, name |-> None]
                  \in CallStates
            BY DEF CallStates
        <3>3. Callable([at |-> "sent", kind |-> "checkout", room |-> r, stay |-> s,
                        name |-> None])
            BY DEF Callable
        <3>4. QED
            BY <3>1, <3>2, <3>3 DEF Call
    <2>4. QED
        BY <2>1, <2>2, <2>3
<1>3. shown' \in [Desks -> [Rooms -> Views]]
    <2>1. CASE TakeAnswer(d)
        <3>1. PICK m \in CallStates : m = mutation[d] /\ m.at = "done" /\ Callable(m)
            BY <1>0, <2>1 DEF TakeAnswer, PagesInv, CallsAreWhole
        <3>2. m.room \in Rooms
            BY <3>1 DEF Callable
        <3>3. PICK v \in Views : v = shown[d][m.room]
            BY <1>0, <3>2
        <3>4. Replaced(v, m) \in Views
            BY <3>1, ViewsShown, <1>0, NoneIsNobody DEF Callable, Replaced, Views
        <3>5. shown' = [shown EXCEPT ![d][m.room] = Replaced(v, m)]
            BY <2>1, <3>1, <3>3 DEF TakeAnswer
        <3>6. QED
            BY <1>0, <3>2, <3>4, <3>5
    <2>2. CASE ~TakeAnswer(d)
        <3>1. shown' = shown
            BY <2>2 DEF AssignGuest, UpdateGuest, CheckoutGuest, Call, Refuse, TakeRefusal, LoseCall
        <3>2. QED
            BY <1>0, <3>1
    <2>3. QED
        BY <2>1, <2>2
<1>4. lost' \in 0..MaxLost
    <2>1. lost' = lost \/ (lost < MaxLost /\ lost' = lost + 1)
        BY DEF AssignGuest, UpdateGuest, CheckoutGuest, Call, Refuse, TakeAnswer, TakeRefusal,
               LoseCall
    <2>2. QED
        BY <1>0, <2>1, MaxLostIsNumber
<1>5. StayTypeOK'
    BY <1>0, <1>1, SameStayTypes
<1>6. mutation' \in [Desks -> CallStates] /\ CallsAreWhole'
    BY <1>2, StillWhole
<1>7. QED
    BY <1>0, <1>1, <1>3, <1>4, <1>5, <1>6, ReadsLeftAlone

LEMMA AnsweredCall ==
    ASSUME NEW m \in CallStates
    PROVE  /\ \E to \in CallStates :
                 /\ to = [m EXCEPT !.at = "done"]
                 /\ to.room = m.room /\ to.kind = m.kind /\ to.name = m.name
           /\ \A s \in Stays : \E to \in CallStates :
                 /\ to = [m EXCEPT !.at = "done", !.stay = s]
                 /\ to.room = m.room /\ to.kind = m.kind /\ to.name = m.name /\ to.stay = s
<1>1. \E to \in CallStates :
          /\ to = [m EXCEPT !.at = "done"]
          /\ to.room = m.room /\ to.kind = m.kind /\ to.name = m.name
    <2> DEFINE to == [m EXCEPT !.at = "done"]
    <2>1. /\ to \in CallStates
          /\ to.room = m.room /\ to.kind = m.kind /\ to.name = m.name
        BY DEF CallStates
    <2>2. QED
        BY <2>1
<1>2. ASSUME NEW s \in Stays
      PROVE  \E to \in CallStates :
                 /\ to = [m EXCEPT !.at = "done", !.stay = s]
                 /\ to.room = m.room /\ to.kind = m.kind /\ to.name = m.name /\ to.stay = s
    <2> DEFINE to == [m EXCEPT !.at = "done", !.stay = s]
    <2>1. /\ to \in CallStates
          /\ to.room = m.room /\ to.kind = m.kind /\ to.name = m.name /\ to.stay = s
        BY DEF CallStates
    <2>2. QED
        BY <2>1
<1>3. QED
    BY <1>1, <1>2

(* A change of the reception, by this page or by another.                  *)
LEMMA ChangeStep ==
    ASSUME PagesInv, Elsewhere \/ \E d \in Desks : Carry(d)
    PROVE  PagesInv' /\ LaterReads
<1>0. /\ StayTypeOK /\ shown \in [Desks -> [Rooms -> Views]] /\ lost \in 0..MaxLost
      /\ mutation \in [Desks -> CallStates] /\ timer \in [Desks -> BOOLEAN]
      /\ live \in [Desks -> BOOLEAN] /\ opened \in [Desks -> BOOLEAN]
    BY PagesTypesApart DEF PagesInv
<1>1. version' = version + 1 /\ timer' \in [Desks -> BOOLEAN]
    BY <1>0 DEF Elsewhere, Carry, Published
<1>2. UNCHANGED <<opened, shown, reads, newest, live, asOf, lost>>
    BY DEF Elsewhere, Carry, ownVars
<1>3. CASE Elsewhere
    <2>1. StayTypeOK' /\ mutation' = mutation
        BY <1>0, <1>3, StayTypes DEF Elsewhere, ownVars
    <2>2. CallsAreWhole'
        BY <2>1 DEF PagesInv, CallsAreWhole, Callable
    <2>3. QED
        BY <1>0, <1>1, <1>2, <2>1, <2>2, StillInOrder, PagesTypesApart, PagesTypesTogether
        DEF PagesInv
<1>4. ASSUME NEW d \in Desks, Carry(d)
      PROVE  PagesInv' /\ LaterReads
    <2>1. PICK m \in CallStates : m = mutation[d] /\ m.at = "sent" /\ Callable(m)
        BY <1>0, <1>4 DEF Carry, PagesInv, CallsAreWhole
    <2>2. m.room \in Rooms /\ (m.kind \in {"assign", "update"} => m.name \in Names)
        BY <2>1 DEF Callable
    <2>3. /\ StayTypeOK'
          /\ \E to \in CallStates : Callable(to) /\ mutation' = [mutation EXCEPT ![d] = to]
        <3>1. CASE m.kind = "assign"
            <4>1. PICK s \in Stays :
                     /\ CheckIn(m.room, s, m.name)
                     /\ mutation' = [mutation EXCEPT ![d].at = "done", ![d].stay = s]
                BY <1>4, <2>1, <3>1 DEF Carry
            <4>2. PICK to \in CallStates :
                     /\ to = [m EXCEPT !.at = "done", !.stay = s]
                     /\ to.room = m.room /\ to.kind = m.kind /\ to.name = m.name /\ to.stay = s
                BY AnsweredCall
            <4>3. Callable(to)
                BY <2>2, <3>1, <4>2 DEF Callable
            <4>4. mutation' = [mutation EXCEPT ![d] = to]
                BY <1>0, <2>1, <4>1, <4>2
            <4>5. StayTypeOK'
                BY <1>0, <2>2, <3>1, <4>1, CheckInTypes
            <4>6. QED
                BY <4>3, <4>4, <4>5
        <3>2. CASE m.kind # "assign"
            <4>1. /\ mutation' = [mutation EXCEPT ![d].at = "done"]
                  /\ \/ m.kind = "update" /\ EditGuest(m.room, m.name)
                     \/ m.kind = "checkout" /\ CheckOut(m.room)
                BY <1>4, <2>1, <3>2 DEF Carry
            <4>2. PICK to \in CallStates :
                     /\ to = [m EXCEPT !.at = "done"]
                     /\ to.room = m.room /\ to.kind = m.kind /\ to.name = m.name
                BY AnsweredCall
            <4>3. Callable(to)
                BY <2>2, <3>2, <4>1, <4>2 DEF Callable
            <4>4. mutation' = [mutation EXCEPT ![d] = to]
                BY <1>0, <2>1, <4>1, <4>2
            <4>5. StayTypeOK'
                BY <1>0, <2>2, <4>1, EditGuestTypes, CheckOutTypes
            <4>6. QED
                BY <4>3, <4>4, <4>5
        <3>3. QED
            BY <3>1, <3>2
    <2>4. mutation' \in [Desks -> CallStates] /\ CallsAreWhole'
        BY <2>3, StillWhole
    <2>5. QED
        BY <1>0, <1>1, <1>2, <2>3, <2>4, ReadsLeftAlone
<1>5. QED
    BY <1>3, <1>4

(* A read is answered, shown, thrown away or lost.                         *)
LEMMA ReadStep ==
    ASSUME PagesInv, NEW d \in Desks, NEW i \in Slots2,
           ReadRooms(d, i) \/ ShowRooms(d, i) \/ DropRead(d, i) \/ LoseRead(d, i)
    PROVE  PagesInv' /\ LaterReads
<1> USE DEF stayVars
<1>0. /\ StayTypeOK /\ reads \in [Desks -> [Slots2 -> ReadStates]] /\ version \in Nat
      /\ asOf \in [Desks -> Nat] /\ shown \in [Desks -> [Rooms -> Views]] /\ lost \in 0..MaxLost
    BY PagesTypesApart DEF PagesInv
<1>1. UNCHANGED <<stayVars, opened, newest, timer, live, mutation, version>>
    BY DEF ReadRooms, ShowRooms, DropRead, LoseRead
<1>2. PICK s \in ReadStates : s = reads[d][i]
    BY <1>0
<1>3. s.seen \in [Rooms -> Views] /\ s.version \in Nat
    BY DEF ReadStates
<1>4. PICK to \in ReadStates :
         /\ SetRead(d, i, to)
         /\ to.at = "answered" => to.version = version
    <2>1. \A v \in Nat : [at |-> "answered", seen |-> [r \in Rooms |-> ViewOf(r)],
                          version |-> v].version = v
        OBVIOUS
    <2>2. QED
        BY <1>0, <2>1, ReadsAreTyped DEF ReadRooms, ShowRooms, DropRead, LoseRead
<1>5. /\ reads' \in [Desks -> [Slots2 -> ReadStates]] /\ reads'[d][i] = to
      /\ \A e \in Desks, k \in Slots2 :
            ~(e = d /\ k = i) => reads'[e][k] = reads[e][k]
    BY <1>0, <1>4, SetReadTypes
<1>6. /\ asOf' \in [Desks -> Nat] /\ shown' \in [Desks -> [Rooms -> Views]]
      /\ \A e \in Desks : \/ asOf'[e] = asOf[e]
                          \/ e = d /\ asOf'[e] = s.version /\ ShowRooms(d, i)
    BY <1>0, <1>2, <1>3 DEF ReadRooms, ShowRooms, DropRead, LoseRead
<1>7. /\ ShowRooms(d, i) => /\ asOf[d] <= s.version /\ s.version <= version
                            /\ newest[d] = i /\ to.at = "none"
    <2>1. ShowRooms(d, i) => s.at = "answered" /\ newest[d] = i
        BY <1>2 DEF ShowRooms, Current
    <2>2. ShowRooms(d, i) => reads'[d][i].at = "none"
        BY <1>0, ReadsAreTyped, SetReadTypes DEF ShowRooms
    <2>3. QED
        BY <1>2, <1>5, <2>1, <2>2 DEF PagesInv, ReadsAreInOrder, Current
<1>8. \A e \in Desks : asOf[e] <= asOf'[e] /\ asOf'[e] <= version
    <2>1. ASSUME NEW e \in Desks
          PROVE  asOf[e] <= asOf'[e] /\ asOf'[e] <= version
        <3>1. asOf[e] \in Nat /\ asOf[e] <= version
            BY <1>0 DEF PagesInv, ReadsAreInOrder
        <3>2. QED
            BY <1>3, <1>6, <1>7, <3>1
    <2>2. QED
        BY <2>1
<1>9. ReadsAreInOrder'
    <2>1. ASSUME NEW e \in Desks, NEW k \in Slots2, reads'[e][k].at = "answered"
          PROVE  /\ reads'[e][k].version <= version
                 /\ newest[e] = k => asOf'[e] <= reads'[e][k].version
        <3>1. CASE e = d /\ k = i
            <4>1. to.version = version
                BY <1>4, <1>5, <2>1, <3>1
            <4>2. QED
                BY <1>0, <1>5, <1>8, <3>1, <4>1
        <3>2. CASE ~(e = d /\ k = i)
            <4>1. reads'[e][k] = reads[e][k]
                BY <1>5, <3>2
            <4>2. /\ reads[e][k].version <= version
                  /\ newest[e] = k => asOf[e] <= reads[e][k].version
                BY <2>1, <4>1 DEF PagesInv, ReadsAreInOrder, Current
            <4>3. newest[e] = k => asOf'[e] = asOf[e]
                BY <1>6, <1>7, <3>2
            <4>4. QED
                BY <4>1, <4>2, <4>3
        <3>3. QED
            BY <3>1, <3>2
    <2>2. QED
        BY <1>1, <1>8, <2>1 DEF ReadsAreInOrder, Current
<1>10. lost' \in 0..MaxLost
    <2>1. lost' = lost \/ (lost < MaxLost /\ lost' = lost + 1)
        BY DEF ReadRooms, ShowRooms, DropRead, LoseRead
    <2>2. QED
        BY <1>0, <2>1, MaxLostIsNumber
<1>11. StayTypeOK'
    BY <1>0, <1>1, SameStayTypes
<1>12. PagesTypeOK'
    BY <1>1, <1>5, <1>6, <1>10, <1>11, PagesTypesApart, PagesTypesTogether DEF PagesInv
<1>13. LaterReads
    <2>1. \A e \in Desks : asOf[e] \in Nat /\ asOf'[e] \in Nat
        BY <1>0, <1>6
    <2>2. QED
        BY <1>8, <2>1 DEF LaterReads
<1>14. QED
    BY <1>1, <1>9, <1>12, <1>13 DEF PagesInv, CallsAreWhole, Callable

LEMMA DisconnectStep ==
    ASSUME PagesInv, NEW d \in Desks, Disconnect(d)
    PROVE  PagesInv' /\ LaterReads
<1> USE DEF stayVars
<1>0. /\ StayTypeOK /\ timer \in [Desks -> BOOLEAN] /\ live \in [Desks -> BOOLEAN]
      /\ lost \in 0..MaxLost /\ mutation \in [Desks -> CallStates]
      /\ shown \in [Desks -> [Rooms -> Views]]
    BY PagesTypesApart DEF PagesInv
<1>1. UNCHANGED <<stayVars, opened, shown, reads, newest, mutation, asOf, version>>
    BY DEF Disconnect
<1>2. timer' \in [Desks -> BOOLEAN] /\ live' \in [Desks -> BOOLEAN] /\ lost' \in 0..MaxLost
    <2>1. lost' = lost + 1 /\ lost < MaxLost
        BY DEF Disconnect
    <2>2. \/ timer' = timer
          \/ timer' = [timer EXCEPT ![d] = FALSE]
        BY DEF Disconnect
    <2>3. live' = [live EXCEPT ![d] = FALSE]
        BY DEF Disconnect
    <2>4. timer' \in [Desks -> BOOLEAN] /\ live' \in [Desks -> BOOLEAN]
        BY <1>0, <2>2, <2>3
    <2>5. QED
        BY <1>0, <2>1, <2>4, MaxLostIsNumber
<1>3. CallsAreWhole'
    BY <1>1 DEF PagesInv, CallsAreWhole, Callable
<1>4. QED
    BY <1>0, <1>1, <1>2, <1>3, SameStayTypes, ReadsLeftAlone

LEMMA ReloadStep ==
    ASSUME PagesInv, NEW d \in Desks, ReloadDesk(d)
    PROVE  PagesInv' /\ LaterReads
<1> USE DEF stayVars
<1>0. /\ StayTypeOK /\ timer \in [Desks -> BOOLEAN] /\ live \in [Desks -> BOOLEAN]
      /\ lost \in 0..MaxLost /\ mutation \in [Desks -> CallStates] /\ version \in Nat
      /\ reads \in [Desks -> [Slots2 -> ReadStates]] /\ newest \in [Desks -> Slots2 \cup {0}]
    BY PagesTypesApart DEF PagesInv
<1>1. UNCHANGED <<stayVars, opened, shown, asOf, version>>
    BY DEF ReloadDesk
<1>2. PICK to \in ReadStates : to = [NoRead EXCEPT !.at = "asked"] /\ to.at = "asked"
    BY <1>0, ReadsAreTyped
<1>3. reads' = [reads EXCEPT ![d] = [i \in Slots2 |-> IF i = 1 THEN to ELSE NoRead]]
    BY <1>2 DEF ReloadDesk
<1>4. /\ reads' \in [Desks -> [Slots2 -> ReadStates]]
      /\ \A k \in Slots2 : reads'[d][k].at # "answered"
      /\ \A e \in Desks : e # d => reads'[e] = reads[e]
    BY <1>0, <1>2, <1>3, ReadsAreTyped
<1>5. /\ newest' \in [Desks -> Slots2 \cup {0}]
      /\ \A e \in Desks : e # d => newest'[e] = newest[e]
    BY <1>0 DEF ReloadDesk, Slots2
<1>6. /\ timer' \in [Desks -> BOOLEAN] /\ live' \in [Desks -> BOOLEAN] /\ lost' \in 0..MaxLost
    BY <1>0, MaxLostIsNumber DEF ReloadDesk
<1>7. mutation' \in [Desks -> CallStates] /\ CallsAreWhole'
    <2>1. NoCall \in CallStates /\ Callable(NoCall)
        BY CallsAreTyped DEF Callable
    <2>2. QED
        BY <2>1, StillWhole DEF ReloadDesk
<1>8. ReadsAreInOrder' /\ LaterReads
    BY <1>0, <1>1, <1>4, <1>5, StillInOrder
<1>9. PagesTypeOK'
    BY <1>0, <1>1, <1>4, <1>5, <1>6, <1>7, SameStayTypes, PagesTypesApart, PagesTypesTogether
    DEF PagesInv
<1>10. QED
    BY <1>7, <1>8, <1>9 DEF PagesInv

LEMMA DeskStep ==
    ASSUME PagesInv, NEW d \in Desks, DeskSteps(d) \/ Receptionist(d) \/ DeskFaults(d)
    PROVE  PagesInv' /\ LaterReads
<1>1. CASE DeskSteps(d)
    BY <1>1, ReadStep, CallStep, BeginningStep DEF DeskSteps, Reads, Answers
<1>2. CASE Receptionist(d)
    BY <1>2, BeginningStep, CallStep DEF Receptionist
<1>3. CASE DeskFaults(d)
    BY <1>3, ReadStep, CallStep, DisconnectStep, ReloadStep DEF DeskFaults
<1>4. QED
    BY <1>1, <1>2, <1>3

LEMMA SamePages ==
    ASSUME PagesInv, StayTypeOK', UNCHANGED pageVars
    PROVE  PagesInv' /\ LaterReads
<1>1. UNCHANGED <<opened, shown, reads, newest, timer, live, mutation, version, asOf, lost>>
    BY DEF pageVars, ownVars
<1>2. PagesTypeOK' /\ version \in Nat
    BY <1>1, PagesTypesApart, PagesTypesTogether DEF PagesInv
<1>3. ReadsAreInOrder' /\ LaterReads
    BY <1>1, <1>2, StillInOrder
<1>4. QED
    BY <1>1, <1>2, <1>3 DEF PagesInv, CallsAreWhole, Callable

-----------------------------------------------------------------------------
(* The screens, the pages, and both                                        *)

LEMMA ScreensInvariant ==
    /\ ScreensInit => ScreensInv
    /\ ScreensInv /\ [ScreensNext]_guestVars => ScreensInv' /\ [CartsStay]_guestVars
<1>1. ASSUME ScreensInv, ScreensNext PROVE ScreensInv' /\ CartsStay
    <2>1. CASE Reception
        BY <1>1, <2>1, StayTypes, NoticedStep DEF Reception, ScreensInv, ScreensTypeOK
    <2>2. CASE ~Reception
        BY <1>1, <2>2, ScreenStep DEF ScreensNext
    <2>3. QED
        BY <2>1, <2>2
<1>2. ASSUME ScreensInv, UNCHANGED guestVars PROVE ScreensInv'
    <2>1. UNCHANGED stayVars /\ UNCHANGED guestOnly
        BY <1>2 DEF guestVars, guestOnly
    <2>2. QED
        BY <1>2, <2>1, SameStayTypes, SameScreens DEF ScreensInv, ScreensTypeOK
<1>3. QED
    BY <1>1, <1>2, InvInitially

LEMMA PagesInvariant ==
    /\ PagesInit => PagesInv
    /\ PagesInv /\ [PagesNext]_deskVars => PagesInv' /\ [LaterReads]_deskVars
<1>1. ASSUME PagesInv, PagesNext PROVE PagesInv' /\ LaterReads
    BY <1>1, ChangeStep, DeskStep DEF PagesNext
<1>2. ASSUME PagesInv, UNCHANGED deskVars PROVE PagesInv'
    <2>1. UNCHANGED stayVars /\ UNCHANGED pageVars
        BY <1>2 DEF deskVars
    <2>2. QED
        BY <1>2, <2>1, SameStayTypes, SamePages DEF PagesInv, PagesTypeOK
<1>3. QED
    BY <1>1, <1>2, PagesInitially

(* What the theorems rest on, and what a step may not do.                  *)
HotelInv == ScreensInv /\ PagesInv /\ used \in Screens \cup Desks

LEMMA HotelInvariant ==
    /\ HotelInit => HotelInv
    /\ HotelInv /\ [HotelNext]_hotelVars =>
          HotelInv' /\ [CartsStay]_guestVars /\ [LaterReads]_deskVars
<1>1. HotelInit => HotelInv
    BY InvInitially, PagesInitially DEF HotelInit, HotelInv
<1>2. ASSUME HotelInv, HotelNext PROVE HotelInv' /\ CartsStay /\ LaterReads
    <2>1. CASE Change /\ UNCHANGED used
        <3>1. PagesInv' /\ LaterReads
            BY <1>2, <2>1, ChangeStep DEF Change, HotelInv
        <3>2. ScreensInv' /\ CartsStay
            BY <1>2, <2>1, <3>1, NoticedStep DEF Change, HotelInv, PagesInv, PagesTypeOK
        <3>3. QED
            BY <1>2, <2>1, <3>1, <3>2 DEF HotelInv, Screens
    <2>2. CASE ByGuest /\ UNCHANGED <<pageVars, used>>
        <3>1. ScreensInv' /\ CartsStay
            BY <1>2, <2>2, ScreenStep DEF ByGuest, HotelInv
        <3>2. PagesInv' /\ LaterReads
            BY <1>2, <2>2, <3>1, SamePages DEF HotelInv, ScreensInv, ScreensTypeOK
        <3>3. QED
            BY <1>2, <2>2, <3>1, <3>2 DEF HotelInv, Screens
    <2>3. CASE ByDesk /\ UNCHANGED <<guestOnly, used>>
        <3>1. PagesInv' /\ LaterReads
            BY <1>2, <2>3, DeskStep DEF ByDesk, HotelInv
        <3>2. ScreensInv' /\ CartsStay
            BY <1>2, <2>3, <3>1, SameScreens DEF HotelInv, PagesInv, PagesTypeOK
        <3>3. QED
            BY <1>2, <2>3, <3>1, <3>2 DEF HotelInv, Screens
    <2>4. QED
        BY <1>2, <2>1, <2>2, <2>3 DEF HotelNext
<1>3. ASSUME HotelInv, UNCHANGED hotelVars
      PROVE  HotelInv' /\ UNCHANGED guestVars /\ UNCHANGED deskVars
    <2>1. UNCHANGED <<stayVars, guestOnly, pageVars, used>>
        BY <1>3 DEF hotelVars
    <2>2. UNCHANGED guestVars /\ UNCHANGED deskVars
        BY <2>1 DEF guestVars, guestOnly, deskVars
    <2>3. ScreensInv' /\ PagesInv'
        BY <1>3, <2>2, ScreensInvariant, PagesInvariant DEF HotelInv
    <2>4. QED
        BY <1>3, <2>1, <2>2, <2>3 DEF HotelInv, Screens
<1>4. QED
    BY <1>1, <1>2, <1>3

(* The screens of the guests and the pages of the reception keep their     *)
(* types, whatever the guests, the receptionists and the faults do.        *)
THEOREM HotelTypeCorrect == HotelSpec => []HotelTypeOK
<1>1. HotelInv => HotelTypeOK
    BY DEF HotelInv, HotelTypeOK, ScreensInv, PagesInv
<1>2. QED
    BY <1>1, HotelInvariant, PTL DEF HotelSpec

(* NoCartTwice: createRequestGroup takes a cart once per stay, however     *)
(* often the answer is lost, the attempt repeated and the screen sent to   *)
(* load again; with and without the receptionists' pages beside it.        *)
THEOREM CartsAreTakenOnce ==
    /\ ScreensSpec => []NoCartTwice
    /\ HotelSpec => []NoCartTwice
<1>1. HotelInv => ScreensInv
    BY DEF HotelInv
<1>2. QED
    BY <1>1, ScreensInvariant, HotelInvariant, KeyedMeansOnce, PTL DEF ScreensSpec, HotelSpec

(* CartStaysWithGuest: the effect of App.tsx on contextIdentity and the    *)
(* loads of TvViewModel throw the cart away before another guest's name is *)
(* shown.                                                                  *)
THEOREM CartsStayWithTheirGuests ==
    /\ ScreensSpec => CartStaysWithGuest
    /\ HotelSpec => CartStaysWithGuest
<1>1. [CartsStay]_guestVars =>
          [\A x \in Screens : cart[x] # 0 /\ cart'[x] = cart[x] =>
                view'[x].name = view[x].name]_guestVars
    BY DEF CartsStay
<1>2. QED
    BY <1>1, ScreensInvariant, HotelInvariant, PTL DEF ScreensSpec, HotelSpec, CartStaysWithGuest

(* LatestReadWins: isCurrentRequest of ReceptionistWorkspace keeps the     *)
(* answer of an overtaken read from the page.                              *)
THEOREM LatestReadsWin ==
    /\ PagesSpec => LatestReadWins
    /\ HotelSpec => LatestReadWins
<1>1. [LaterReads]_deskVars => [\A d \in Desks : asOf'[d] >= asOf[d]]_deskVars
    BY DEF LaterReads
<1>2. QED
    BY <1>1, PagesInvariant, HotelInvariant, PTL DEF PagesSpec, HotelSpec, LatestReadWins

LEMMA GuestsLeaveStays ==
    ASSUME NEW x \in Screens, ScreenSteps(x) \/ Guest(x) \/ Faults(x)
    PROVE  UNCHANGED stayVars
<1>1. CASE Loads(x) \/ Events(x)
    BY <1>1 DEF Loads, Events, ReadContext, ReadRest, ShowTv, ShowError, Crash, ShowPage,
                ShowPageError, Join, FollowHint, BeginLoad
<1>2. CASE Sends(x)
    BY <1>2 DEF Sends, Resolve, Create, Confirmed, Failed
<1>3. CASE Guest(x)
    BY <1>3 DEF Guest, FillCart, EmptyCart, Submit, OpenTv, BeginLoad, Focus
<1>4. CASE Faults(x)
    BY <1>4 DEF Faults, LoseLoad, LoseSend, LoseLink, ReloadPage
<1>5. QED
    BY <1>1, <1>2, <1>3, <1>4 DEF ScreenSteps

LEMMA DesksLeaveStays ==
    ASSUME NEW d \in Desks, DeskSteps(d) \/ Receptionist(d) \/ DeskFaults(d)
    PROVE  UNCHANGED stayVars
<1>1. CASE DeskSteps(d)
    BY <1>1 DEF DeskSteps, Reads, ReadRooms, ShowRooms, DropRead, Answers, Refuse, TakeAnswer,
                TakeRefusal, TimerFires, Connect, Poll
<1>2. CASE Receptionist(d)
    BY <1>2 DEF Receptionist, OpenDesk, AssignGuest, UpdateGuest, CheckoutGuest, Call
<1>3. CASE DeskFaults(d)
    BY <1>3 DEF DeskFaults, LoseRead, LoseCall, Disconnect, ReloadDesk
<1>4. QED
    BY <1>1, <1>2, <1>3

(* A page's call changes the stays as the reception may.                   *)
LEMMA CarriesChangeStays ==
    ASSUME CallsAreWhole, Elsewhere \/ \E d \in Desks : Carry(d)
    PROVE  StayNext
<1>1. CASE Elsewhere
    BY <1>1 DEF Elsewhere
<1>2. ASSUME NEW d \in Desks, Carry(d)
      PROVE  StayNext
    <2>1. Callable(mutation[d])
        BY DEF CallsAreWhole
    <2>2. /\ mutation[d].room \in Rooms
          /\ mutation[d].kind \in {"assign", "update"} => mutation[d].name \in Names
        BY <1>2, <2>1 DEF Carry, Callable
    <2>3. QED
        BY <1>2, <2>2 DEF Carry, StayNext
<1>3. QED
    BY <1>1, <1>2

(* The hotel is the guests' screens and the reception's pages over the     *)
(* same stays: its steps are those of GuestScreens, of ReceptionPages, and *)
(* of RoomStays, which is what the calls of RoomAssignment implement.      *)
THEOREM HotelIsItsParts == HotelSpec => ScreensSpec /\ PagesSpec /\ StaySpec
<1>1. HotelInit => ScreensInit /\ PagesInit /\ StayInit
    BY DEF HotelInit, ScreensInit
<1>2. ASSUME HotelInv, [HotelNext]_hotelVars
      PROVE  [ScreensNext]_guestVars /\ [PagesNext]_deskVars /\ [StayNext]_stayVars
    <2>1. CASE Change /\ UNCHANGED used
        <3>1. StayNext
            BY <1>2, <2>1, CarriesChangeStays DEF Change, HotelInv, PagesInv
        <3>2. Reception /\ PagesNext
            BY <2>1, <3>1 DEF Change, Reception, PagesNext
        <3>3. QED
            BY <3>1, <3>2 DEF ScreensNext
    <2>2. CASE ByGuest /\ UNCHANGED <<pageVars, used>>
        <3>1. PICK x \in Screens : ScreenSteps(x) \/ Guest(x) \/ Faults(x)
            BY <2>2 DEF ByGuest
        <3>2. UNCHANGED stayVars /\ UNCHANGED deskVars
            BY <2>2, <3>1, GuestsLeaveStays DEF deskVars
        <3>3. QED
            BY <3>1, <3>2 DEF ScreensNext
    <2>3. CASE ByDesk /\ UNCHANGED <<guestOnly, used>>
        <3>1. PICK d \in Desks : DeskSteps(d) \/ Receptionist(d) \/ DeskFaults(d)
            BY <2>3 DEF ByDesk
        <3>2. UNCHANGED stayVars /\ UNCHANGED guestVars
            BY <2>3, <3>1, DesksLeaveStays DEF guestVars, guestOnly
        <3>3. QED
            BY <3>1, <3>2 DEF PagesNext
    <2>4. CASE UNCHANGED hotelVars
        BY <2>4 DEF hotelVars, guestOnly, guestVars, deskVars
    <2>5. QED
        BY <1>2, <2>1, <2>2, <2>3, <2>4 DEF HotelNext
<1>3. QED
    BY <1>1, <1>2, HotelInvariant, PTL DEF HotelSpec, ScreensSpec, PagesSpec, StaySpec

=============================================================================
