------------------------- MODULE RequestFulfilment -------------------------
(***************************************************************************)
(* The life of a guest order with Butik Indonesia stock behind it.  Three  *)
(* kinds of API calls run at once on two tables that no transaction spans: *)
(*   - GuestService submits a cart: look up the key, check availability,   *)
(*     reserve the stock, insert one order per unit, and give the stock    *)
(*     back when the insert fails;                                         *)
(*   - RequestService serves the staff: confirm, complete, cancel;         *)
(*   - the expiry worker (or its HTTP endpoint) cancels the NEW orders     *)
(*     whose 30 minutes are over.                                          *)
(* Every step below is one database statement or transaction of a call and *)
(* whatever the call computes until the next one.  The stock transactions  *)
(* are those of BoutiqueInventory.                                         *)
(***************************************************************************)
EXTENDS BoutiqueInventory

CONSTANTS
    Stays,        \* guest assignments
    Units,        \* units of the hotel
    Butik,        \* the unit whose items have stock
    Submissions,  \* what guest clients send: [stay, key, lines, others]
    None,         \* no submission, no order
    Handlers,     \* API calls that can be in flight at once
    SweepLimit,   \* orders one expiry run takes up (LIMIT 100)
    MaxAttempts,  \* bound: how often one submission is sent
    MaxFaults,    \* bound: statements that fail and commit nothing
    MaxCrashes    \* bound: restarts of the API process

NoLines == [v \in Variants |-> 0]

ASSUME ButikIsUnit == Butik \in Units
ASSUME SubmissionsAreCarts ==
    Submissions \subseteq [stay : Stays, key : Keys, lines : Lines \cup {NoLines},
                           others : SUBSET (Units \ {Butik})]
ASSUME NoneIsNothing == None \notin Submissions \cup (Stays \X Keys \X Units)
ASSUME BoundsAreNat ==
    /\ SweepLimit \in Nat \ {0}
    /\ MaxAttempts \in Nat /\ MaxFaults \in Nat /\ MaxCrashes \in Nat

VARIABLES
    orders,     \* service_requests, by what its unique index makes unique
    handlers,   \* the calls in flight, lost when the process stops
    attempts,   \* how often each submission was sent          (bounds the model)
    faults,     \* statements that failed                      (bounds the model)
    crashes,    \* restarts                                    (bounds the model)
    accepted,   \* submissions answered with success           (history variable)
    fulfilled   \* orders whose stock has been handed over     (history variable)

orderVars == <<orders, handlers, attempts, faults, crashes, accepted, fulfilled>>

vars == <<inventoryVars, orderVars>>

-----------------------------------------------------------------------------
(* Rows and locals                                                         *)

(* The index service_requests_context_client_unit_idx admits one row per   *)
(* stay, key and unit.                                                     *)
Orders == Stays \X Keys \X Units
KeyOf(o) == o[2]
UnitOf(o) == o[3]

Statuses == {"NEW", "IN_PROCESS", "COMPLETED", "CANCELLED"}

(* window is reservation_expires_at: NULL, in the future, or passed.       *)
OrderRow == [status : Statuses \cup {"none"},
             window : {"null", "open", "over"},
             lines  : Lines \cup {NoLines}]

NoOrder == [status |-> "none", window |-> "null", lines |-> NoLines]

CallStates == {"idle",
               "check", "reserve", "insert", "undoDuplicate", "undoFailure", "lookAgain",
               "fulfil", "revert",
               "cancel", "release"}

Handler == [at       : CallStates,
            sub      : Submissions \cup {None},
            reserved : BOOLEAN,
            order    : Orders \cup {None},
            seen     : {"NEW", "IN_PROCESS", "none"},
            todo     : SUBSET Orders]

Idle == [at |-> "idle", sub |-> None, reserved |-> FALSE,
         order |-> None, seen |-> "none", todo |-> {}]

TypeOK ==
    /\ InventoryTypeOK
    /\ orders \in [Orders -> OrderRow]
    /\ handlers \in [Handlers -> Handler]
    /\ attempts \in [Submissions -> 0..MaxAttempts]
    /\ faults \in 0..MaxFaults
    /\ crashes \in 0..MaxCrashes
    /\ accepted \subseteq Submissions
    /\ fulfilled \subseteq Orders

Status(o) == orders[o].status
HasStock(o) == Wanted(orders[o].lines) # {}      \* stockLines(request).length > 0
Open(o) == Status(o) \in {"NEW", "IN_PROCESS"}

(* toRequestInputs: one order per unit of the cart.                        *)
UnitsOf(sub) == sub.others \cup (IF Wanted(sub.lines) = {} THEN {} ELSE {Butik})
OrdersOf(sub) == {<<sub.stay, sub.key, u>> : u \in UnitsOf(sub)}

(* listByClientRequestId                                                   *)
KnownOrders(sub) == {o \in Orders : /\ o[1] = sub.stay /\ o[2] = sub.key
                                    /\ Status(o) # "none"}

(* Seeded error: the comparison with the clock is the wrong way round.     *)
BugDueOrders == {o \in Orders : /\ UnitOf(o) = Butik
                                /\ Status(o) = "NEW" /\ orders[o].window = "open"}

(* listExpiredReservations                                                 *)
DueOrders == {o \in Orders : /\ UnitOf(o) = Butik
                             /\ Status(o) = "NEW" /\ orders[o].window = "over"}

At(h, at) == handlers[h].at = at
Goto(h, at) == handlers' = [handlers EXCEPT ![h].at = at]
Finish(h) == handlers' = [handlers EXCEPT ![h] = Idle]

-----------------------------------------------------------------------------
(* GuestService.createRequestGroup and createRequest                       *)

(* The first lookup answers a submission whose key the stay has used.      *)
Submit(h, sub) ==
    /\ At(h, "idle")
    /\ attempts[sub] < MaxAttempts
    /\ attempts' = [attempts EXCEPT ![sub] = @ + 1]
    /\ IF KnownOrders(sub) # {}
         THEN accepted' = accepted \cup {sub} /\ UNCHANGED handlers
         ELSE /\ handlers' = [handlers EXCEPT ![h] =
                                [Idle EXCEPT !.at = "check", !.sub = sub]]
              /\ UNCHANGED accepted
    /\ UNCHANGED <<inventoryVars, orders, faults, crashes, fulfilled>>

(* resolveGuestItems reads the availability without a lock; then only      *)
(* carts with Butik items go through the reservation.                      *)
CheckItems(h) ==
    /\ At(h, "check")
    /\ LET lines == handlers[h].sub.lines IN
         IF Wanted(lines) = {} THEN Goto(h, "insert")
         ELSE IF Wanted(lines) \subseteq listed /\ CanReserve(lines)
           THEN Goto(h, "reserve")
           ELSE Finish(h)
    /\ UNCHANGED <<inventoryVars, orders, attempts, faults, crashes, accepted, fulfilled>>

(* persistRequestBatch, first half: reserved remembers whether this very   *)
(* call took the reservation.                                              *)
Reserve(h) ==
    /\ At(h, "reserve")
    /\ LET sub == handlers[h].sub
           answer == Answer("reserve", sub.key, sub.lines) IN
         \/ /\ ReserveStock(sub.key, sub.lines)
            /\ handlers' = [handlers EXCEPT ![h].at = "insert", ![h].reserved = TRUE]
         \/ /\ answer = "already" /\ Goto(h, "insert")
            /\ UNCHANGED inventoryVars
         \/ /\ answer \in {"keyConflict", "unavailable", "notFound"} /\ Finish(h)
            /\ UNCHANGED inventoryVars
    /\ UNCHANGED <<orders, attempts, faults, crashes, accepted, fulfilled>>

NewOrder(sub, o) ==
    [status |-> "NEW",
     window |-> IF UnitOf(o) = Butik THEN "open" ELSE "null",
     lines  |-> IF UnitOf(o) = Butik THEN sub.lines ELSE NoLines]

(* Seeded error: the loop over the orders returns after the first.         *)
BugInsertOrders(h) ==
    LET sub == handlers[h].sub IN
    /\ At(h, "insert")
    /\ \E o \in OrdersOf(sub) :
          /\ Status(o) = "none"
          /\ orders' = [orders EXCEPT ![o] = NewOrder(sub, o)]
    /\ accepted' = accepted \cup {sub}
    /\ Finish(h)
    /\ UNCHANGED <<inventoryVars, attempts, faults, crashes, fulfilled>>

(* createBatch inserts all orders of the cart in one transaction or, when  *)
(* the unique index refuses one of them, none.                             *)
InsertOrders(h) ==
    LET sub == handlers[h].sub IN
    /\ At(h, "insert")
    /\ \A o \in OrdersOf(sub) : Status(o) = "none"
    /\ orders' = [o \in Orders |-> IF o \in OrdersOf(sub) THEN NewOrder(sub, o) ELSE orders[o]]
    /\ accepted' = accepted \cup {sub}
    /\ Finish(h)
    /\ UNCHANGED <<inventoryVars, attempts, faults, crashes, fulfilled>>

InsertRefused(h) ==
    /\ At(h, "insert")
    /\ \E o \in OrdersOf(handlers[h].sub) : Status(o) # "none"
    /\ Goto(h, IF handlers[h].reserved THEN "undoDuplicate" ELSE "lookAgain")
    /\ UNCHANGED <<inventoryVars, orders, attempts, faults, crashes, accepted, fulfilled>>

(* The catch of persistRequestBatch.  An error of its own replaces the one *)
(* it handles, so that the duplicate is then reported as that error.       *)
UndoReservation(h) ==
    /\ handlers[h].at \in {"undoDuplicate", "undoFailure"}
    /\ LET sub == handlers[h].sub
           answer == Answer("release", sub.key, sub.lines) IN
         /\ ReleaseStock(sub.key, sub.lines) \/ (answer # "done" /\ UNCHANGED inventoryVars)
         /\ IF At(h, "undoDuplicate") /\ answer \in {"done", "already"}
              THEN Goto(h, "lookAgain")
              ELSE Finish(h)
    /\ UNCHANGED <<orders, attempts, faults, crashes, accepted, fulfilled>>

(* After a duplicate the orders of the other call are the answer.          *)
LookAgain(h) ==
    /\ At(h, "lookAgain")
    /\ accepted' = IF KnownOrders(handlers[h].sub) # {}
                     THEN accepted \cup {handlers[h].sub} ELSE accepted
    /\ Finish(h)
    /\ UNCHANGED <<inventoryVars, orders, attempts, faults, crashes, fulfilled>>

-----------------------------------------------------------------------------
(* RequestService: confirm and complete                                    *)

(* Seeded error: the UPDATE does not compare the status.                   *)
BugTransition(o, expected, next) ==
    /\ Status(o) # "none"
    /\ orders' = [orders EXCEPT
          ![o].status = next,
          ![o].window = IF next \in {"IN_PROCESS", "CANCELLED"} THEN "null" ELSE @]

(* RequestRepository.transition is one conditional UPDATE: the caller that *)
(* finds the status it expects wins.                                       *)
Transition(o, expected, next) ==
    /\ Status(o) = expected
    /\ orders' = [orders EXCEPT
          ![o].status = next,
          ![o].window = IF next \in {"IN_PROCESS", "CANCELLED"} THEN "null" ELSE @]

Confirm(o) ==
    /\ Transition(o, "NEW", "IN_PROCESS")
    /\ UNCHANGED <<inventoryVars, handlers, attempts, faults, crashes, accepted, fulfilled>>

(* Completion claims the terminal state before it touches the stock.       *)
ClaimCompletion(h, o) ==
    /\ At(h, "idle")
    /\ Transition(o, "IN_PROCESS", "COMPLETED")
    /\ handlers' = IF HasStock(o)
                     THEN [handlers EXCEPT ![h] = [Idle EXCEPT !.at = "fulfil", !.order = o]]
                     ELSE handlers
    /\ UNCHANGED <<inventoryVars, attempts, faults, crashes, accepted, fulfilled>>

Fulfil(h) ==
    /\ At(h, "fulfil")
    /\ LET o == handlers[h].order IN
         \/ /\ FulfilStock(KeyOf(o), orders[o].lines)
            /\ fulfilled' = fulfilled \cup {o}
            /\ Finish(h)
         \/ /\ Answer("fulfil", KeyOf(o), orders[o].lines) # "done"
            /\ Goto(h, "revert")
            /\ UNCHANGED <<inventoryVars, fulfilled>>
    /\ UNCHANGED <<orders, attempts, faults, crashes, accepted>>

(* revertCompletion, then the error of the failed delivery is rethrown.    *)
RevertCompletion(h) ==
    /\ At(h, "revert")
    /\ LET o == handlers[h].order IN
         IF Status(o) = "COMPLETED"
           THEN orders' = [orders EXCEPT ![o].status = "IN_PROCESS", ![o].window = "null"]
           ELSE UNCHANGED orders
    /\ Finish(h)
    /\ UNCHANGED <<inventoryVars, attempts, faults, crashes, accepted, fulfilled>>

-----------------------------------------------------------------------------
(* RequestService: cancel, by staff or by the expiry worker                *)

(* The staff call reads the order and later claims it with the status it   *)
(* read.                                                                   *)
ReadForCancel(h, o) ==
    /\ At(h, "idle")
    /\ Open(o)
    /\ handlers' = [handlers EXCEPT ![h] =
          [Idle EXCEPT !.at = "cancel", !.seen = Status(o), !.todo = {o}]]
    /\ UNCHANGED <<inventoryVars, orders, attempts, faults, crashes, accepted, fulfilled>>

(* The worker lists the due orders and works the list off; the model takes *)
(* them in any order.                                                      *)
StartSweep(h) ==
    /\ At(h, "idle")
    /\ \E batch \in (SUBSET DueOrders) \ {{}} :
          /\ \/ Cardinality(batch) = SweepLimit
             \/ Cardinality(batch) < SweepLimit /\ batch = DueOrders
          /\ handlers' = [handlers EXCEPT ![h] =
                [Idle EXCEPT !.at = "cancel", !.seen = "NEW", !.todo = batch]]
    /\ UNCHANGED <<inventoryVars, orders, attempts, faults, crashes, accepted, fulfilled>>

(* The rest of the worker's list; a staff call has none.                   *)
Continue(h, rest) ==
    handlers' = [handlers EXCEPT ![h] =
        IF rest = {} THEN Idle
        ELSE [Idle EXCEPT !.at = "cancel", !.seen = handlers[h].seen, !.todo = rest]]

(* Seeded error: only the stock of an order nobody confirmed is released.  *)
BugClaimCancellation(h, o) ==
    /\ At(h, "cancel") /\ o \in handlers[h].todo
    /\ Transition(o, handlers[h].seen, "CANCELLED")
    /\ IF HasStock(o) /\ handlers[h].seen = "NEW"
         THEN handlers' = [handlers EXCEPT ![h].at = "release", ![h].order = o,
                                           ![h].todo = @ \ {o}]
         ELSE Continue(h, handlers[h].todo \ {o})
    /\ UNCHANGED <<inventoryVars, attempts, faults, crashes, accepted, fulfilled>>

ClaimCancellation(h, o) ==
    /\ At(h, "cancel") /\ o \in handlers[h].todo
    /\ Transition(o, handlers[h].seen, "CANCELLED")
    /\ IF HasStock(o)
         THEN handlers' = [handlers EXCEPT ![h].at = "release", ![h].order = o,
                                           ![h].todo = @ \ {o}]
         ELSE Continue(h, handlers[h].todo \ {o})
    /\ UNCHANGED <<inventoryVars, attempts, faults, crashes, accepted, fulfilled>>

(* Seeded error: a caller that lost the claim releases all the same.       *)
BugLoseCancellation(h, o) ==
    /\ At(h, "cancel") /\ o \in handlers[h].todo
    /\ Status(o) # handlers[h].seen
    /\ handlers' = [handlers EXCEPT ![h].at = "release", ![h].order = o,
                                    ![h].todo = @ \ {o}]
    /\ UNCHANGED <<inventoryVars, orders, attempts, faults, crashes, accepted, fulfilled>>

(* A lost claim is a 409, which the worker's loop swallows.                *)
LoseCancellation(h, o) ==
    /\ At(h, "cancel") /\ o \in handlers[h].todo
    /\ Status(o) # handlers[h].seen
    /\ Continue(h, handlers[h].todo \ {o})
    /\ UNCHANGED <<inventoryVars, orders, attempts, faults, crashes, accepted, fulfilled>>

(* Only the caller that won the claim releases; the loop swallows every    *)
(* 409 of the release too and stops at a 404.                              *)
Release(h) ==
    /\ At(h, "release")
    /\ LET o == handlers[h].order
           answer == Answer("release", KeyOf(o), orders[o].lines) IN
         /\ \/ ReleaseStock(KeyOf(o), orders[o].lines)
            \/ answer # "done" /\ UNCHANGED inventoryVars
         /\ Continue(h, IF answer = "notFound" THEN {} ELSE handlers[h].todo)
    /\ UNCHANGED <<orders, attempts, faults, crashes, accepted, fulfilled>>

-----------------------------------------------------------------------------
(* The environment                                                         *)

(* 30 minutes have passed since the order was placed.                      *)
WindowPasses(o) ==
    /\ orders[o].window = "open"
    /\ orders' = [orders EXCEPT ![o].window = "over"]
    /\ UNCHANGED <<inventoryVars, handlers, attempts, faults, crashes, accepted, fulfilled>>

(* Seeded error: a delivery that fails is not taken back.                  *)
BugAfterFault(call) ==
    IF call.at = "insert" /\ call.reserved THEN [call EXCEPT !.at = "undoFailure"]
    ELSE Idle

(* What a call goes on with when its statement fails: the catch clauses of *)
(* persistRequestBatch and of the completion, else the error leaves the    *)
(* call (and ends the worker's loop).                                      *)
AfterFault(call) ==
    IF call.at = "insert" /\ call.reserved THEN [call EXCEPT !.at = "undoFailure"]
    ELSE IF call.at = "fulfil"              THEN [call EXCEPT !.at = "revert"]
    ELSE Idle

StatementFails(h) ==
    /\ ~At(h, "idle")
    /\ faults < MaxFaults
    /\ faults' = faults + 1
    /\ handlers' = [handlers EXCEPT ![h] = AfterFault(handlers[h])]
    /\ UNCHANGED <<inventoryVars, orders, attempts, crashes, accepted, fulfilled>>

(* The API process stops; the database keeps what was committed.           *)
Crash ==
    /\ crashes < MaxCrashes
    /\ crashes' = crashes + 1
    /\ handlers' = [h \in Handlers |-> Idle]
    /\ UNCHANGED <<inventoryVars, orders, attempts, faults, accepted, fulfilled>>

(* Staff correct and withdraw stock while guests order it.                 *)
ManageStock ==
    /\ \E v \in Variants :
          \/ \E delta \in Deltas : AdjustStock(v, delta)
          \/ \E value \in BOOLEAN : SetVariantActive(v, value)
    /\ UNCHANGED orderVars

-----------------------------------------------------------------------------

(* The catalogue is complete and on sale.                                  *)
Init ==
    /\ InventoryInit
    /\ listed = Variants
    /\ active = [v \in Variants |-> TRUE]
    /\ orders = [o \in Orders |-> NoOrder]
    /\ handlers = [h \in Handlers |-> Idle]
    /\ attempts = [sub \in Submissions |-> 0]
    /\ faults = 0 /\ crashes = 0
    /\ accepted = {} /\ fulfilled = {}

Proceed(h) ==
    \/ CheckItems(h) \/ Reserve(h) \/ InsertOrders(h) \/ InsertRefused(h)
    \/ UndoReservation(h) \/ LookAgain(h)
    \/ Fulfil(h) \/ RevertCompletion(h)
    \/ \E o \in Orders : ClaimCancellation(h, o) \/ LoseCancellation(h, o)
    \/ Release(h)

Next ==
    \/ \E h \in Handlers :
          \/ \E sub \in Submissions : Submit(h, sub)
          \/ \E o \in Orders : ClaimCompletion(h, o) \/ ReadForCancel(h, o)
          \/ StartSweep(h)
          \/ Proceed(h)
          \/ StatementFails(h)
    \/ \E o \in Orders : Confirm(o) \/ WindowPasses(o)
    \/ Crash
    \/ ManageStock

Spec == Init /\ [][Next]_vars

(* A call that has started is run on by the event loop; time passes; and   *)
(* the worker's interval fires again and again.  The sweep is strongly     *)
(* fair because it needs one of the model's few handlers, a limit the API  *)
(* does not have.  Guests and staff owe nothing.                           *)
FairSpec ==
    /\ Spec
    /\ \A h \in Handlers : WF_vars(Proceed(h))
    /\ \A o \in Orders : WF_vars(WindowPasses(o))
    /\ SF_vars(\E h \in Handlers : StartSweep(h))

-----------------------------------------------------------------------------
(* Properties                                                              *)

Completing(h) == handlers[h].at \in {"fulfil", "revert"}
Releasing(h) == handlers[h].at = "release"

(* A call that moves stock owns the terminal status it claimed: while it   *)
(* delivers or reverts, its order is COMPLETED and not delivered yet;      *)
(* while it releases, its order is CANCELLED; and no other call does the   *)
(* same for that order.  Staff completing, staff cancelling and the worker *)
(* expiring the order race for it.                                         *)
ClaimsExclusive ==
    \A h \in Handlers :
        /\ Completing(h) => /\ Status(handlers[h].order) = "COMPLETED"
                            /\ handlers[h].order \notin fulfilled
        /\ Releasing(h) => Status(handlers[h].order) = "CANCELLED"
        /\ \A g \in Handlers \ {h} :
              (Completing(h) /\ Completing(g)) \/ (Releasing(h) /\ Releasing(g))
                  => handlers[h].order # handlers[g].order

(* Goods that left the shelf for an order leave it COMPLETED for ever: no  *)
(* late cancellation, expiry or revert takes the order back.               *)
FulfilledStaysCompleted == \A o \in fulfilled : Status(o) = "COMPLETED"

(* An order that staff can still confirm or complete has exactly its lines *)
(* reserved under its key.                                                 *)
OpenOrderHoldsReservation ==
    \A o \in Orders : Open(o) /\ HasStock(o) => Matches(KeyOf(o), orders[o].lines)

(* Only who won the cancellation of an order gives its stock back: as long *)
(* as an order stays open, nothing takes from what its key holds.          *)
OpenOrderKeepsReservation ==
    [][\A o \in Orders :
          Open(o) /\ Open(o)' /\ HasStock(o) =>
              \A v \in Wanted(orders[o].lines) :
                  ledger'[KeyOf(o)][v] >= ledger[KeyOf(o)][v]]_vars

(* A guest who was told "ordered" has an order of every unit of the cart   *)
(* with the lines that were sent, also when the answer came from another   *)
(* attempt with the same key.                                              *)
AcceptedIsStored ==
    \A sub \in accepted : \A o \in OrdersOf(sub) :
        Status(o) # "none" /\ orders[o].lines = NewOrder(sub, o).lines

AtRest == \A h \in Handlers : At(h, "idle")

(* When no call is in flight and none was cut short, exactly the open      *)
(* orders hold stock: no reservation without an order is left behind, and  *)
(* none of a cancelled one.                                                *)
RestReconciles ==
    AtRest /\ faults = 0 /\ crashes = 0 =>
        \A v \in Variants :
            reserved[v] = MapThenSumSet(LAMBDA o : IF Open(o) THEN orders[o].lines[v] ELSE 0,
                                        Orders)

(* A COMPLETED order that no call works on has been delivered.             *)
CompletedIsFulfilled ==
    \A o \in Orders :
        Status(o) = "COMPLETED" /\ HasStock(o) /\ o \notin fulfilled =>
            \E h \in Handlers : Completing(h) /\ handlers[h].order = o

(* A delivery that fails puts the order back: as long as the statement     *)
(* that puts it back does not fail as well and nothing restarts, no order  *)
(* is left COMPLETED with its goods still on the shelf.                    *)
FailedDeliveryIsReverted == crashes = 0 /\ faults <= 1 => CompletedIsFulfilled

(* A CANCELLED order that no call works on holds no stock.                 *)
CancelledHoldsNothing ==
    \A o \in Orders :
        Status(o) = "CANCELLED" /\ HasStock(o) /\ Held(KeyOf(o)) # {} =>
            \E h \in Handlers : Releasing(h) /\ handlers[h].order = o

(* A Butik order never waits for ever: staff take it up or it expires,     *)
(* also when expiry runs overlap, fail or are cut by a restart.            *)
NoOrderWaitsForever ==
    \A o \in Orders :
        (Status(o) = "NEW" /\ UnitOf(o) = Butik) ~> Status(o) # "NEW"

(* The stock of a cancelled or expired order becomes available again,      *)
(* unless a failing statement or a restart cut a call short.               *)
CancelledGivesBack ==
    \A o \in Orders :
        (Status(o) = "CANCELLED" /\ HasStock(o))
            ~> (Held(KeyOf(o)) = {} \/ faults > 0 \/ crashes > 0)

=============================================================================
