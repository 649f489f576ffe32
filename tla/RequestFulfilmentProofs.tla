---------------------- MODULE RequestFulfilmentProofs ----------------------
(***************************************************************************)
(* What holds of RequestFulfilment for every number of handlers, orders,   *)
(* attempts, failing statements and restarts.                              *)
(***************************************************************************)
EXTENDS RequestFulfilment, BoutiqueInventoryProofs

-----------------------------------------------------------------------------
(* The inductive invariant                                                 *)

CountersTypeOK ==
    /\ attempts \in [Submissions -> 0..MaxAttempts]
    /\ faults \in 0..MaxFaults
    /\ crashes \in 0..MaxCrashes
    /\ accepted \subseteq Submissions

Submitting(h) == handlers[h].at \in {"check", "reserve", "insert",
                                     "undoDuplicate", "undoFailure", "lookAgain"}

(* The submission of this call has stock lines to reserve or give back.    *)
HoldsLines(h) ==
    \/ handlers[h].at \in {"reserve", "undoDuplicate", "undoFailure"}
    \/ handlers[h].at = "insert" /\ handlers[h].reserved

Cancelling(h) == handlers[h].at \in {"cancel", "release"}

Claims(h) == Completing(h) \/ Releasing(h)

(* What a call in flight knows about the tables.  ClaimsExclusive alone is *)
(* not inductive: that the order of a claim has lines, that a submission   *)
(* that undoes a reservation has lines, and that a cancellation expects an *)
(* open status is needed to follow the calls from step to step.            *)
CallKnows(h) ==
    /\ Submitting(h) => handlers[h].sub \in Submissions
    /\ handlers[h].at \in {"check", "reserve"} => ~handlers[h].reserved
    /\ HoldsLines(h) => Wanted(handlers[h].sub.lines) # {}
    /\ Cancelling(h) => handlers[h].seen # "none"
    /\ Claims(h) => handlers[h].order \in Orders /\ HasStock(handlers[h].order)
    /\ Completing(h) => /\ Status(handlers[h].order) = "COMPLETED"
                        /\ handlers[h].order \notin fulfilled
    /\ Releasing(h) => Status(handlers[h].order) = "CANCELLED"

Apart(g, h) ==
    (Completing(h) /\ Completing(g)) \/ (Releasing(h) /\ Releasing(g))
        => handlers[h].order # handlers[g].order

IInv ==
    /\ InventoryIInv
    /\ TypeOK
    /\ \A h \in Handlers : CallKnows(h)
    /\ \A g, h \in Handlers : g # h => Apart(g, h)
    /\ FulfilledStaysCompleted

-----------------------------------------------------------------------------
(* The shape of every step: one call h moves on, the orders others have    *)
(* claimed stay as they are.                                               *)

SameOrder(o) == Status(o)' = Status(o) /\ orders'[o].lines = orders[o].lines

OthersUntouched(h) ==
    \A g \in Handlers \ {h} :
        /\ handlers'[g] = handlers[g]
        /\ Claims(g) => /\ SameOrder(handlers[g].order)
                        /\ handlers[g].order \notin fulfilled
                             => handlers[g].order \notin fulfilled'

LEMMA CallStep ==
    ASSUME IInv, InventoryIInv', CountersTypeOK',
           orders' \in [Orders -> OrderRow], handlers' \in [Handlers -> Handler],
           fulfilled' \subseteq Orders,
           NEW h \in Handlers, OthersUntouched(h), CallKnows(h)',
           \A g \in Handlers \ {h} : Apart(g, h)',
           FulfilledStaysCompleted'
    PROVE  IInv'
<1>1. TypeOK'
  BY DEF TypeOK, CountersTypeOK, InventoryIInv
<1>2. ASSUME NEW g \in Handlers
      PROVE  CallKnows(g)'
  <2>1. CASE g = h
    BY <2>1
  <2>2. CASE g # h
    BY <2>2 DEF IInv, OthersUntouched, CallKnows, Submitting, HoldsLines, Cancelling,
                Claims, Completing, Releasing, Status, HasStock, Wanted, SameOrder
  <2>. QED  BY <2>1, <2>2
<1>3. ASSUME NEW g \in Handlers, NEW k \in Handlers, g # k
      PROVE  Apart(g, k)'
  <2>1. CASE k = h
    BY <1>3, <2>1
  <2>2. CASE g = h
    BY <1>3, <2>2 DEF Apart
  <2>3. CASE g # h /\ k # h
    BY <1>3, <2>3 DEF IInv, OthersUntouched, Apart, Completing, Releasing
  <2>. QED  BY <2>1, <2>2, <2>3
<1>. QED  BY <1>1, <1>2, <1>3 DEF IInv

(* A step that leaves orders alone and claims nothing new.                 *)
LEMMA LocalStep ==
    ASSUME IInv, InventoryIInv', CountersTypeOK',
           UNCHANGED <<orders, fulfilled>>,
           NEW h \in Handlers, handlers' \in [Handlers -> Handler],
           \A g \in Handlers \ {h} : handlers'[g] = handlers[g],
           CallKnows(h)',
           Completing(h)' => Completing(h) /\ handlers'[h].order = handlers[h].order,
           ~Releasing(h)'
    PROVE  IInv'
<1>1. orders' \in [Orders -> OrderRow] /\ fulfilled' \subseteq Orders
  BY DEF IInv, TypeOK
<1>2. OthersUntouched(h)
  BY DEF OthersUntouched, SameOrder, Status
<1>3. \A g \in Handlers \ {h} : Apart(g, h)'
  BY DEF IInv, Apart, Completing, Releasing
<1>4. FulfilledStaysCompleted'
  BY DEF IInv, FulfilledStaysCompleted, Status
<1>. QED  BY <1>1, <1>2, <1>3, <1>4, CallStep

(* Orders that are neither COMPLETED nor CANCELLED are nobody's claim and  *)
(* have not been delivered, so they may change.                            *)
LEMMA UnclaimedMayChange ==
    ASSUME IInv, NEW S \in SUBSET Orders,
           \A o \in S : Status(o) \notin {"COMPLETED", "CANCELLED"},
           \A o \in Orders \ S : SameOrder(o),
           UNCHANGED fulfilled
    PROVE  /\ FulfilledStaysCompleted'
           /\ \A g \in Handlers : Claims(g) => SameOrder(handlers[g].order)
<1>1. fulfilled \subseteq Orders \ S
  BY DEF IInv, TypeOK, FulfilledStaysCompleted
<1>2. FulfilledStaysCompleted'
  BY <1>1 DEF IInv, FulfilledStaysCompleted, SameOrder
<1>3. ASSUME NEW g \in Handlers, Claims(g)
      PROVE  SameOrder(handlers[g].order)
  BY <1>3 DEF IInv, CallKnows, Claims
<1>. QED  BY <1>2, <1>3

(* A step of the tables alone.                                             *)
LEMMA TableStep ==
    ASSUME IInv, InventoryIInv', CountersTypeOK', UNCHANGED <<handlers, fulfilled>>,
           orders' \in [Orders -> OrderRow], FulfilledStaysCompleted',
           \A g \in Handlers : Claims(g) => SameOrder(handlers[g].order)
    PROVE  IInv'
<1>1. TypeOK'
  BY DEF IInv, TypeOK, CountersTypeOK, InventoryIInv
<1>2. ASSUME NEW g \in Handlers
      PROVE  CallKnows(g)'
  BY <1>2 DEF IInv, CallKnows, Submitting, HoldsLines, Cancelling,
         Claims, Completing, Releasing, Status, HasStock, Wanted, SameOrder
<1>3. \A g, h \in Handlers : g # h => Apart(g, h)'
  BY DEF IInv, Apart, Completing, Releasing
<1>. QED  BY <1>1, <1>2, <1>3 DEF IInv

LEMMA IdleIsHandler == Idle \in Handler
BY DEF Idle, Handler, CallStates

(* A call that ends knows nothing and claims nothing.                      *)
LEMMA FinishStep ==
    ASSUME handlers \in [Handlers -> Handler], NEW h \in Handlers, Finish(h)
    PROVE  /\ handlers' \in [Handlers -> Handler]
           /\ \A g \in Handlers \ {h} : handlers'[g] = handlers[g]
           /\ CallKnows(h)' /\ ~Completing(h)' /\ ~Releasing(h)'
<1>1. handlers'[h] = Idle
  BY DEF Finish
<1>2. CallKnows(h)' /\ ~Completing(h)' /\ ~Releasing(h)'
  BY <1>1 DEF Idle, CallKnows, Submitting, HoldsLines, Cancelling, Claims,
              Completing, Releasing
<1>. QED  BY <1>1, <1>2, IdleIsHandler DEF Finish

LEMMA GotoStep ==
    ASSUME handlers \in [Handlers -> Handler], NEW h \in Handlers,
           NEW at \in CallStates, Goto(h, at)
    PROVE  /\ handlers' \in [Handlers -> Handler]
           /\ \A g \in Handlers \ {h} : handlers'[g] = handlers[g]
           /\ handlers'[h].at = at
           /\ handlers'[h].sub = handlers[h].sub
           /\ handlers'[h].order = handlers[h].order
           /\ handlers'[h].reserved = handlers[h].reserved
           /\ handlers'[h].seen = handlers[h].seen
BY DEF Goto, Handler

LEMMA Unmoved ==
    ASSUME IInv, UNCHANGED inventoryVars
    PROVE  InventoryIInv'
BY InventoryInductive DEF IInv

LEMMA CountersUnmoved ==
    ASSUME IInv, UNCHANGED <<attempts, faults, crashes, accepted>>
    PROVE  CountersTypeOK'
BY DEF IInv, TypeOK, CountersTypeOK

(* The lines of a submission that has any are a line list.                 *)
LEMMA SubmissionLines ==
    ASSUME NEW sub \in Submissions, Wanted(sub.lines) # {}
    PROVE  sub.key \in Keys /\ sub.lines \in Lines
BY SubmissionsAreCarts DEF Wanted, NoLines

-----------------------------------------------------------------------------
(* The guest's submission                                                  *)

LEMMA CheckItemsPreserves ==
    ASSUME IInv, NEW h \in Handlers, CheckItems(h)
    PROVE  IInv'
<1>1. handlers \in [Handlers -> Handler] /\ CallKnows(h)
  BY DEF IInv, TypeOK
<1>2. InventoryIInv' /\ CountersTypeOK'
  BY Unmoved, CountersUnmoved DEF CheckItems
<1>3. CASE Finish(h)
  BY <1>1, <1>2, <1>3, FinishStep, LocalStep DEF CheckItems
<1>4. ASSUME NEW at \in {"insert", "reserve"}, Goto(h, at),
             at = "reserve" => Wanted(handlers[h].sub.lines) # {}
      PROVE  IInv'
  <2>. USE <1>4, <1>1 DEF CheckItems, At
  <2>1. at \in CallStates
    BY DEF CallStates
  <2>2. handlers[h].sub \in Submissions
    BY DEF CallKnows, Submitting
  <2>. QED
    BY <1>2, <2>1, <2>2, GotoStep, LocalStep
    DEF CallKnows, Submitting, HoldsLines, Cancelling, Claims, Completing, Releasing
<1>. QED  BY <1>3, <1>4 DEF CheckItems

LEMMA StockCallStep ==
    ASSUME NEW key \in Keys, NEW lines \in Lines,
           \/ ReserveStock(key, lines) \/ ReleaseStock(key, lines)
           \/ FulfilStock(key, lines) \/ UNCHANGED inventoryVars
    PROVE  [InventoryNext]_inventoryVars
BY DEF InventoryNext

LEMMA ReserveIsStockStep ==
    ASSUME IInv, NEW h \in Handlers, Reserve(h)
    PROVE  [InventoryNext]_inventoryVars
<1>1. handlers[h].sub \in Submissions /\ Wanted(handlers[h].sub.lines) # {}
  BY DEF IInv, CallKnows, Submitting, HoldsLines, Reserve, At
<1>. QED  BY <1>1, SubmissionLines, StockCallStep DEF Reserve

LEMMA ReservePreservesCalls ==
    ASSUME IInv, NEW h \in Handlers, Reserve(h)
    PROVE  IInv'
<1>1. handlers \in [Handlers -> Handler] /\ CallKnows(h)
  BY DEF IInv, TypeOK
<1>2. InventoryIInv'
  BY ReserveIsStockStep, InventoryInductive DEF IInv
<1>3. CountersTypeOK'
  BY CountersUnmoved DEF Reserve
<1>4. CASE Finish(h)
  BY <1>1, <1>2, <1>3, <1>4, FinishStep, LocalStep DEF Reserve
<1>5. handlers[h].sub \in Submissions /\ Wanted(handlers[h].sub.lines) # {}
  BY <1>1 DEF CallKnows, Submitting, HoldsLines, Reserve, At
<1>6. CASE Goto(h, "insert")
  <2>1. handlers'[h].reserved = FALSE
    BY <1>1, <1>6, GotoStep DEF CallKnows, CallStates, Reserve, At
  <2>. QED
    BY <1>1, <1>2, <1>3, <1>5, <1>6, <2>1, GotoStep, LocalStep
    DEF Reserve, At, CallStates, CallKnows, Submitting, HoldsLines, Cancelling, Claims,
        Completing, Releasing
<1>7. CASE handlers' = [handlers EXCEPT ![h].at = "insert", ![h].reserved = TRUE]
  <2>1. /\ handlers' \in [Handlers -> Handler]
        /\ \A g \in Handlers \ {h} : handlers'[g] = handlers[g]
        /\ handlers'[h].at = "insert" /\ handlers'[h].sub = handlers[h].sub
    BY <1>1, <1>7 DEF Handler, CallStates
  <2>. QED
    BY <1>2, <1>3, <1>5, <2>1, LocalStep
    DEF Reserve, CallKnows, Submitting, HoldsLines, Cancelling, Claims,
        Completing, Releasing
<1>. QED  BY <1>4, <1>6, <1>7 DEF Reserve

LEMMA InsertRefusedPreserves ==
    ASSUME IInv, NEW h \in Handlers, InsertRefused(h)
    PROVE  IInv'
<1>1. handlers \in [Handlers -> Handler] /\ CallKnows(h)
  BY DEF IInv, TypeOK
<1>2. InventoryIInv' /\ CountersTypeOK'
  BY Unmoved, CountersUnmoved DEF InsertRefused
<1>3. ASSUME NEW at \in {"undoDuplicate", "lookAgain"}, Goto(h, at),
             at = "undoDuplicate" => handlers[h].reserved
      PROVE  IInv'
  BY <1>1, <1>2, <1>3, GotoStep, LocalStep
  DEF InsertRefused, At, CallStates, CallKnows, Submitting, HoldsLines, Cancelling,
      Claims, Completing, Releasing
<1>. QED  BY <1>3 DEF InsertRefused

LEMMA UndoIsStockStep ==
    ASSUME IInv, NEW h \in Handlers, UndoReservation(h)
    PROVE  [InventoryNext]_inventoryVars
<1>1. handlers[h].sub \in Submissions /\ Wanted(handlers[h].sub.lines) # {}
  BY DEF IInv, CallKnows, Submitting, HoldsLines, UndoReservation
<1>. QED  BY <1>1, SubmissionLines, StockCallStep DEF UndoReservation

LEMMA UndoPreserves ==
    ASSUME IInv, NEW h \in Handlers, UndoReservation(h)
    PROVE  IInv'
<1>1. handlers \in [Handlers -> Handler] /\ CallKnows(h)
  BY DEF IInv, TypeOK
<1>2. InventoryIInv'
  BY UndoIsStockStep, InventoryInductive DEF IInv
<1>3. CountersTypeOK'
  BY CountersUnmoved DEF UndoReservation
<1>4. CASE Finish(h)
  BY <1>1, <1>2, <1>3, <1>4, FinishStep, LocalStep DEF UndoReservation
<1>5. CASE Goto(h, "lookAgain")
  BY <1>1, <1>2, <1>3, <1>5, GotoStep, LocalStep
  DEF UndoReservation, At, CallStates, CallKnows, Submitting, HoldsLines, Cancelling,
      Claims, Completing, Releasing
<1>. QED  BY <1>4, <1>5 DEF UndoReservation

LEMMA LookAgainPreserves ==
    ASSUME IInv, NEW h \in Handlers, LookAgain(h)
    PROVE  IInv'
<1>1. handlers \in [Handlers -> Handler] /\ CallKnows(h)
  BY DEF IInv, TypeOK
<1>2. InventoryIInv'
  BY Unmoved DEF LookAgain
<1>3. CountersTypeOK'
  BY <1>1 DEF IInv, TypeOK, CountersTypeOK, LookAgain, CallKnows, Submitting, At
<1>. QED  BY <1>1, <1>2, <1>3, FinishStep, LocalStep DEF LookAgain

LEMMA SubmitPreserves ==
    ASSUME IInv, NEW h \in Handlers, NEW sub \in Submissions, Submit(h, sub)
    PROVE  IInv'
<1>1. handlers \in [Handlers -> Handler] /\ CallKnows(h)
  BY DEF IInv, TypeOK
<1>2. InventoryIInv'
  BY Unmoved DEF Submit
<1>3. CountersTypeOK'
  BY BoundsAreNat DEF IInv, TypeOK, CountersTypeOK, Submit
<1>4. CASE UNCHANGED handlers
  BY <1>1, <1>2, <1>3, <1>4, LocalStep
  DEF Submit, At, CallKnows, Submitting, HoldsLines, Cancelling, Claims,
      Completing, Releasing, Status, HasStock
<1>5. CASE handlers' = [handlers EXCEPT ![h] = [Idle EXCEPT !.at = "check", !.sub = sub]]
  <2>1. [Idle EXCEPT !.at = "check", !.sub = sub] \in Handler
    BY IdleIsHandler DEF Handler, CallStates
  <2>2. handlers'[h].at = "check" /\ handlers'[h].sub = sub /\ handlers'[h].reserved = FALSE
    BY <1>1, <1>5 DEF Idle
  <2>. QED
    BY <1>1, <1>2, <1>3, <1>5, <2>1, <2>2, LocalStep
    DEF Submit, CallKnows, Submitting, HoldsLines, Cancelling, Claims,
        Completing, Releasing
<1>. QED  BY <1>4, <1>5 DEF Submit

LEMMA InsertOrdersPreserves ==
    ASSUME IInv, NEW h \in Handlers, InsertOrders(h)
    PROVE  IInv'
<1>. DEFINE sub == handlers[h].sub
<1>1. handlers \in [Handlers -> Handler] /\ CallKnows(h) /\ sub \in Submissions
  BY DEF IInv, TypeOK, CallKnows, Submitting, InsertOrders, At
<1>2. InventoryIInv' /\ CountersTypeOK'
  BY <1>1, Unmoved DEF InsertOrders, IInv, TypeOK, CountersTypeOK
<1>3. OrdersOf(sub) \subseteq Orders
  BY <1>1, SubmissionsAreCarts, ButikIsUnit DEF OrdersOf, UnitsOf, Orders
<1>4. \A o \in Orders : NewOrder(sub, o) \in OrderRow
  BY <1>1, SubmissionsAreCarts DEF NewOrder, OrderRow, Statuses
<1>5. orders' \in [Orders -> OrderRow]
  BY <1>4 DEF InsertOrders, IInv, TypeOK
<1>6. /\ FulfilledStaysCompleted'
      /\ \A g \in Handlers : Claims(g) => SameOrder(handlers[g].order)
  <2>1. \A o \in OrdersOf(sub) : Status(o) \notin {"COMPLETED", "CANCELLED"}
    BY DEF InsertOrders
  <2>2. \A o \in Orders \ OrdersOf(sub) : SameOrder(o)
    BY DEF InsertOrders, SameOrder, Status
  <2>. QED  BY <1>3, <2>1, <2>2, UnclaimedMayChange DEF InsertOrders
<1>7. OthersUntouched(h) /\ FulfilledStaysCompleted'
  BY <1>1, <1>6, FinishStep DEF InsertOrders, OthersUntouched
<1>8. \A g \in Handlers \ {h} : Apart(g, h)'
  BY <1>1, FinishStep DEF InsertOrders, Apart
<1>9. fulfilled' \subseteq Orders
  BY DEF InsertOrders, IInv, TypeOK
<1>. QED
  BY <1>1, <1>2, <1>5, <1>7, <1>8, <1>9, FinishStep, CallStep DEF InsertOrders

-----------------------------------------------------------------------------
(* The staff                                                               *)

LEMMA TransitionStep ==
    ASSUME IInv, NEW o \in Orders, NEW expected, NEW next \in Statuses,
           expected \notin {"COMPLETED", "CANCELLED"},
           Transition(o, expected, next), UNCHANGED fulfilled
    PROVE  /\ orders' \in [Orders -> OrderRow]
           /\ Status(o)' = next /\ orders'[o].lines = orders[o].lines
           /\ FulfilledStaysCompleted'
           /\ \A g \in Handlers : Claims(g) => SameOrder(handlers[g].order)
           /\ o \notin fulfilled
           /\ \A g \in Handlers : Claims(g) => handlers[g].order # o
<1>1. orders \in [Orders -> OrderRow]
  BY DEF IInv, TypeOK
<1>2. orders' \in [Orders -> OrderRow] /\ Status(o)' = next
      /\ orders'[o].lines = orders[o].lines
  BY <1>1 DEF Transition, OrderRow, Status
<1>3. \A p \in Orders \ {o} : SameOrder(p)
  BY <1>1 DEF Transition, SameOrder, Status
<1>4. Status(o) \notin {"COMPLETED", "CANCELLED"}
  BY DEF Transition
<1>5. /\ FulfilledStaysCompleted'
      /\ \A g \in Handlers : Claims(g) => SameOrder(handlers[g].order)
  BY <1>3, <1>4, UnclaimedMayChange
<1>6. o \notin fulfilled /\ \A g \in Handlers : Claims(g) => handlers[g].order # o
  BY <1>4 DEF IInv, FulfilledStaysCompleted, CallKnows, Claims
<1>. QED  BY <1>2, <1>5, <1>6

LEMMA ConfirmPreserves ==
    ASSUME IInv, NEW o \in Orders, Confirm(o)
    PROVE  IInv'
<1>1. InventoryIInv' /\ CountersTypeOK'
  BY Unmoved, CountersUnmoved DEF Confirm
<1>. QED
  BY <1>1, TransitionStep, TableStep DEF Confirm, Statuses

LEMMA ClaimCompletionPreserves ==
    ASSUME IInv, NEW h \in Handlers, NEW o \in Orders, ClaimCompletion(h, o)
    PROVE  IInv'
<1>1. handlers \in [Handlers -> Handler] /\ CallKnows(h)
  BY DEF IInv, TypeOK
<1>2. InventoryIInv' /\ CountersTypeOK'
  BY Unmoved, CountersUnmoved DEF ClaimCompletion
<1>3. /\ orders' \in [Orders -> OrderRow]
      /\ Status(o)' = "COMPLETED" /\ orders'[o].lines = orders[o].lines
      /\ FulfilledStaysCompleted'
      /\ \A g \in Handlers : Claims(g) => SameOrder(handlers[g].order)
      /\ o \notin fulfilled
      /\ \A g \in Handlers : Claims(g) => handlers[g].order # o
  BY TransitionStep DEF ClaimCompletion, Statuses
<1>4. CASE ~HasStock(o)
  BY <1>2, <1>3, <1>4, TableStep DEF ClaimCompletion
<1>5. CASE HasStock(o)
  <2>1. handlers' = [handlers EXCEPT ![h] = [Idle EXCEPT !.at = "fulfil", !.order = o]]
    BY <1>5 DEF ClaimCompletion
  <2>2. [Idle EXCEPT !.at = "fulfil", !.order = o] \in Handler
    BY IdleIsHandler DEF Handler, CallStates
  <2>3. handlers'[h].at = "fulfil" /\ handlers'[h].order = o
    BY <1>1, <2>1 DEF Idle
  <2>4. handlers' \in [Handlers -> Handler] /\ OthersUntouched(h)
    BY <1>1, <1>3, <2>1, <2>2 DEF OthersUntouched, ClaimCompletion
  <2>5. CallKnows(h)'
    BY <1>3, <1>5, <2>3
    DEF CallKnows, Submitting, HoldsLines, Cancelling, Claims, Completing, Releasing,
        HasStock, Wanted, ClaimCompletion
  <2>6. \A g \in Handlers \ {h} : Apart(g, h)'
    BY <1>3, <2>3, <2>4 DEF Apart, Claims, Completing, Releasing, OthersUntouched
  <2>7. fulfilled' \subseteq Orders
    BY DEF ClaimCompletion, IInv, TypeOK
  <2>. QED  BY <1>2, <1>3, <2>4, <2>5, <2>6, <2>7, CallStep
<1>. QED  BY <1>4, <1>5

(* The lines of an order that has stock are a line list.                   *)
LEMMA OrderLines ==
    ASSUME IInv, NEW o \in Orders, HasStock(o)
    PROVE  KeyOf(o) \in Keys /\ orders[o].lines \in Lines
BY DEF IInv, TypeOK, OrderRow, HasStock, Wanted, NoLines, Orders, KeyOf

LEMMA FulfilIsStockStep ==
    ASSUME IInv, NEW h \in Handlers, Fulfil(h)
    PROVE  [InventoryNext]_inventoryVars
<1>1. handlers[h].order \in Orders /\ HasStock(handlers[h].order)
  BY DEF IInv, CallKnows, Claims, Completing, Fulfil, At
<1>. QED  BY <1>1, OrderLines, StockCallStep DEF Fulfil

LEMMA FulfilPreservesCalls ==
    ASSUME IInv, NEW h \in Handlers, Fulfil(h)
    PROVE  IInv'
<1>1. handlers \in [Handlers -> Handler] /\ CallKnows(h) /\ Completing(h)
  BY DEF IInv, TypeOK, Fulfil, At, Completing
<1>2. InventoryIInv'
  BY FulfilIsStockStep, InventoryInductive DEF IInv
<1>3. CountersTypeOK'
  BY CountersUnmoved DEF Fulfil
<1>4. CASE Goto(h, "revert") /\ UNCHANGED fulfilled
  BY <1>1, <1>2, <1>3, <1>4, GotoStep, LocalStep
  DEF Fulfil, At, CallStates, CallKnows, Submitting, HoldsLines, Cancelling,
      Claims, Completing, Releasing, Status, HasStock
<1>5. CASE Finish(h) /\ fulfilled' = fulfilled \cup {handlers[h].order}
  <2>1. \A g \in Handlers \ {h} : Completing(g) => handlers[g].order # handlers[h].order
    BY <1>1 DEF IInv, Apart
  <2>2. \A g \in Handlers \ {h} : Claims(g) => handlers[g].order # handlers[h].order
    BY <1>1, <2>1 DEF IInv, CallKnows, Claims
  <2>3. OthersUntouched(h)
    BY <1>1, <1>5, <2>2, FinishStep DEF Fulfil, OthersUntouched, SameOrder, Status
  <2>4. FulfilledStaysCompleted'
    BY <1>1, <1>5 DEF Fulfil, IInv, FulfilledStaysCompleted, CallKnows, Status
  <2>5. \A g \in Handlers \ {h} : Apart(g, h)'
    BY <1>1, <1>5, FinishStep DEF Apart
  <2>6. orders' \in [Orders -> OrderRow] /\ fulfilled' \subseteq Orders
    BY <1>1, <1>5 DEF Fulfil, IInv, TypeOK, CallKnows, Claims
  <2>. QED
    BY <1>1, <1>2, <1>3, <1>5, <2>3, <2>4, <2>5, <2>6, FinishStep, CallStep
<1>. QED  BY <1>4, <1>5 DEF Fulfil

LEMMA RevertPreserves ==
    ASSUME IInv, NEW h \in Handlers, RevertCompletion(h)
    PROVE  IInv'
<1>. DEFINE o == handlers[h].order
<1>1. /\ handlers \in [Handlers -> Handler] /\ orders \in [Orders -> OrderRow]
      /\ CallKnows(h) /\ Completing(h) /\ o \in Orders /\ o \notin fulfilled
  BY DEF IInv, TypeOK, RevertCompletion, At, Completing, CallKnows, Claims
<1>2. InventoryIInv' /\ CountersTypeOK'
  BY Unmoved, CountersUnmoved DEF RevertCompletion
<1>3. orders' = [orders EXCEPT ![o].status = "IN_PROCESS", ![o].window = "null"]
  BY <1>1 DEF RevertCompletion, CallKnows
<1>4. \A p \in Orders \ {o} : SameOrder(p)
  BY <1>1, <1>3 DEF SameOrder, Status
<1>5. orders' \in [Orders -> OrderRow]
  BY <1>1, <1>3 DEF OrderRow, Statuses
<1>6. \A g \in Handlers \ {h} : Claims(g) => handlers[g].order \in Orders \ {o}
  BY <1>1 DEF IInv, Apart, Claims, CallKnows
<1>7. OthersUntouched(h)
  BY <1>1, <1>4, <1>6, FinishStep DEF RevertCompletion, OthersUntouched
<1>8. FulfilledStaysCompleted' /\ fulfilled' \subseteq Orders
  <2>1. fulfilled \subseteq Orders \ {o}
    BY <1>1 DEF IInv, TypeOK
  <2>. QED
    BY <1>4, <2>1 DEF IInv, FulfilledStaysCompleted, RevertCompletion, SameOrder
<1>9. \A g \in Handlers \ {h} : Apart(g, h)'
  BY <1>1, FinishStep DEF Apart, RevertCompletion
<1>. QED
  BY <1>1, <1>2, <1>5, <1>7, <1>8, <1>9, FinishStep, CallStep DEF RevertCompletion

-----------------------------------------------------------------------------
(* Cancellation and expiry                                                 *)

LEMMA CancelCallStep ==
    ASSUME handlers \in [Handlers -> Handler], NEW h \in Handlers,
           NEW seen \in {"NEW", "IN_PROCESS"}, NEW todo \in SUBSET Orders,
           handlers' = [handlers EXCEPT ![h] =
               [Idle EXCEPT !.at = "cancel", !.seen = seen, !.todo = todo]]
    PROVE  /\ handlers' \in [Handlers -> Handler]
           /\ \A g \in Handlers \ {h} : handlers'[g] = handlers[g]
           /\ CallKnows(h)' /\ ~Completing(h)' /\ ~Releasing(h)'
<1>1. [Idle EXCEPT !.at = "cancel", !.seen = seen, !.todo = todo] \in Handler
  BY IdleIsHandler DEF Handler, CallStates
<1>2. handlers'[h].at = "cancel" /\ handlers'[h].seen = seen
  BY DEF Idle
<1>3. CallKnows(h)' /\ ~Completing(h)' /\ ~Releasing(h)'
  BY <1>2 DEF CallKnows, Submitting, HoldsLines, Cancelling, Claims, Completing, Releasing
<1>. QED  BY <1>1, <1>3

LEMMA ReadForCancelPreserves ==
    ASSUME IInv, NEW h \in Handlers, NEW o \in Orders, ReadForCancel(h, o)
    PROVE  IInv'
<1>1. handlers \in [Handlers -> Handler]
  BY DEF IInv, TypeOK
<1>2. InventoryIInv' /\ CountersTypeOK'
  BY Unmoved, CountersUnmoved DEF ReadForCancel
<1>3. /\ handlers' \in [Handlers -> Handler]
      /\ \A g \in Handlers \ {h} : handlers'[g] = handlers[g]
      /\ CallKnows(h)' /\ ~Completing(h)' /\ ~Releasing(h)'
  <2>1. Status(o) \in {"NEW", "IN_PROCESS"} /\ {o} \in SUBSET Orders
    BY DEF ReadForCancel, Open
  <2>. QED  BY <1>1, <2>1, CancelCallStep DEF ReadForCancel
<1>. QED
  BY <1>2, <1>3, LocalStep DEF ReadForCancel

LEMMA StartSweepPreserves ==
    ASSUME IInv, NEW h \in Handlers, StartSweep(h)
    PROVE  IInv'
<1>1. handlers \in [Handlers -> Handler]
  BY DEF IInv, TypeOK
<1>2. InventoryIInv' /\ CountersTypeOK'
  BY Unmoved, CountersUnmoved DEF StartSweep
<1>3. PICK batch \in SUBSET Orders :
          handlers' = [handlers EXCEPT ![h] =
                [Idle EXCEPT !.at = "cancel", !.seen = "NEW", !.todo = batch]]
  BY DEF StartSweep, DueOrders
<1>. QED
  BY <1>1, <1>2, <1>3, CancelCallStep, LocalStep DEF StartSweep

LEMMA ContinueStep ==
    ASSUME handlers \in [Handlers -> Handler], NEW h \in Handlers,
           CallKnows(h), Cancelling(h),
           NEW rest \in SUBSET Orders, Continue(h, rest)
    PROVE  /\ handlers' \in [Handlers -> Handler]
           /\ \A g \in Handlers \ {h} : handlers'[g] = handlers[g]
           /\ CallKnows(h)' /\ ~Completing(h)' /\ ~Releasing(h)'
<1>1. handlers[h].seen \in {"NEW", "IN_PROCESS"}
  BY DEF CallKnows, Handler
<1>2. CASE rest = {}
  BY <1>2, FinishStep DEF Continue, Finish
<1>3. CASE rest # {}
  BY <1>1, <1>3, CancelCallStep DEF Continue
<1>. QED  BY <1>2, <1>3

LEMMA LoseCancellationPreserves ==
    ASSUME IInv, NEW h \in Handlers, NEW o \in Orders, LoseCancellation(h, o)
    PROVE  IInv'
<1>1. /\ handlers \in [Handlers -> Handler] /\ CallKnows(h) /\ Cancelling(h)
      /\ handlers[h].todo \ {o} \in SUBSET Orders
  BY DEF IInv, TypeOK, LoseCancellation, At, Cancelling, Handler
<1>2. InventoryIInv' /\ CountersTypeOK'
  BY Unmoved, CountersUnmoved DEF LoseCancellation
<1>. QED
  BY <1>1, <1>2, ContinueStep, LocalStep DEF LoseCancellation

LEMMA ClaimCancellationPreserves ==
    ASSUME IInv, NEW h \in Handlers, NEW o \in Orders, ClaimCancellation(h, o)
    PROVE  IInv'
<1>1. /\ handlers \in [Handlers -> Handler] /\ CallKnows(h) /\ Cancelling(h)
      /\ handlers[h].todo \ {o} \in SUBSET Orders
      /\ handlers[h].seen \in {"NEW", "IN_PROCESS"}
  BY DEF IInv, TypeOK, ClaimCancellation, At, Cancelling, CallKnows, Handler
<1>2. InventoryIInv' /\ CountersTypeOK'
  BY Unmoved, CountersUnmoved DEF ClaimCancellation
<1>3. /\ orders' \in [Orders -> OrderRow]
      /\ Status(o)' = "CANCELLED" /\ orders'[o].lines = orders[o].lines
      /\ FulfilledStaysCompleted'
      /\ \A g \in Handlers : Claims(g) => SameOrder(handlers[g].order)
      /\ \A g \in Handlers : Claims(g) => handlers[g].order # o
  BY <1>1, TransitionStep DEF ClaimCancellation, Statuses
<1>4. fulfilled' = fulfilled /\ fulfilled' \subseteq Orders
  BY DEF ClaimCancellation, IInv, TypeOK
<1>5. CASE Continue(h, handlers[h].todo \ {o})
  <2>1. /\ handlers' \in [Handlers -> Handler]
        /\ \A g \in Handlers \ {h} : handlers'[g] = handlers[g]
        /\ CallKnows(h)' /\ ~Completing(h)' /\ ~Releasing(h)'
    BY <1>1, <1>5, ContinueStep
  <2>2. OthersUntouched(h)
    BY <1>3, <1>4, <2>1 DEF OthersUntouched
  <2>3. \A g \in Handlers \ {h} : Apart(g, h)'
    BY <2>1 DEF Apart
  <2>. QED  BY <1>2, <1>3, <1>4, <2>1, <2>2, <2>3, CallStep
<1>6. CASE HasStock(o) /\ handlers' = [handlers EXCEPT
              ![h].at = "release", ![h].order = o, ![h].todo = @ \ {o}]
  <2>1. /\ handlers' \in [Handlers -> Handler]
        /\ \A g \in Handlers \ {h} : handlers'[g] = handlers[g]
        /\ handlers'[h].at = "release" /\ handlers'[h].order = o
        /\ handlers'[h].seen = handlers[h].seen
    <3>. DEFINE new == [handlers[h] EXCEPT !.at = "release", !.order = o,
                                           !.todo = handlers[h].todo \ {o}]
    <3>1. handlers[h] \in Handler
      BY <1>1
    <3>2. new \in Handler /\ new.at = "release" /\ new.order = o
          /\ new.seen = handlers[h].seen
      BY <1>1, <3>1 DEF Handler, CallStates
    <3>3. handlers' = [handlers EXCEPT ![h] = new]
      BY <1>1, <1>6, <3>1 DEF Handler
    <3>. HIDE DEF new
    <3>. QED  BY <1>1, <3>2, <3>3
  <2>2. OthersUntouched(h)
    BY <1>3, <1>4, <2>1 DEF OthersUntouched
  <2>3. CallKnows(h)'
    BY <1>1, <1>3, <1>6, <2>1
    DEF CallKnows, Submitting, HoldsLines, Cancelling, Claims, Completing, Releasing,
        HasStock, Wanted
  <2>4. \A g \in Handlers \ {h} : Apart(g, h)'
    BY <1>3, <2>1 DEF Apart, Claims, Completing, Releasing
  <2>. QED  BY <1>2, <1>3, <1>4, <2>1, <2>2, <2>3, <2>4, CallStep
<1>. QED  BY <1>5, <1>6 DEF ClaimCancellation

LEMMA ReleaseIsStockStep ==
    ASSUME IInv, NEW h \in Handlers, Release(h)
    PROVE  [InventoryNext]_inventoryVars
<1>1. handlers[h].order \in Orders /\ HasStock(handlers[h].order)
  BY DEF IInv, CallKnows, Claims, Releasing, Release, At
<1>. QED  BY <1>1, OrderLines, StockCallStep DEF Release

LEMMA ReleasePreservesCalls ==
    ASSUME IInv, NEW h \in Handlers, Release(h)
    PROVE  IInv'
<1>1. /\ handlers \in [Handlers -> Handler] /\ CallKnows(h) /\ Cancelling(h)
      /\ handlers[h].todo \in SUBSET Orders
  BY DEF IInv, TypeOK, Release, At, Cancelling, Handler
<1>2. InventoryIInv'
  BY ReleaseIsStockStep, InventoryInductive DEF IInv
<1>3. CountersTypeOK'
  BY CountersUnmoved DEF Release
<1>4. PICK rest \in SUBSET Orders : Continue(h, rest)
  BY <1>1 DEF Release
<1>. QED
  BY <1>1, <1>2, <1>3, <1>4, ContinueStep, LocalStep DEF Release

-----------------------------------------------------------------------------
(* The environment                                                         *)

LEMMA WindowPassesPreserves ==
    ASSUME IInv, NEW o \in Orders, WindowPasses(o)
    PROVE  IInv'
<1>1. InventoryIInv' /\ CountersTypeOK'
  BY Unmoved, CountersUnmoved DEF WindowPasses
<1>2. orders \in [Orders -> OrderRow]
  BY DEF IInv, TypeOK
<1>3. orders' \in [Orders -> OrderRow] /\ \A p \in Orders : SameOrder(p)
  BY <1>2 DEF WindowPasses, OrderRow, SameOrder, Status
<1>4. /\ FulfilledStaysCompleted'
      /\ \A g \in Handlers : Claims(g) => SameOrder(handlers[g].order)
  <2>1. \A p \in Orders \ {} : SameOrder(p)
    BY <1>3
  <2>2. {} \in SUBSET Orders /\ \A p \in {} : Status(p) \notin {"COMPLETED", "CANCELLED"}
    OBVIOUS
  <2>3. UNCHANGED fulfilled
    BY DEF WindowPasses
  <2>. QED  BY <2>1, <2>2, <2>3, UnclaimedMayChange
<1>. QED
  BY <1>1, <1>3, <1>4, TableStep DEF WindowPasses

LEMMA StatementFailsPreserves ==
    ASSUME IInv, NEW h \in Handlers, StatementFails(h)
    PROVE  IInv'
<1>. DEFINE next == AfterFault(handlers[h])
<1>1. handlers \in [Handlers -> Handler] /\ CallKnows(h)
  BY DEF IInv, TypeOK
<1>2. InventoryIInv'
  BY Unmoved DEF StatementFails
<1>3. CountersTypeOK'
  BY BoundsAreNat DEF IInv, TypeOK, CountersTypeOK, StatementFails
<1>4. next \in Handler
  BY <1>1, IdleIsHandler DEF AfterFault, Handler, CallStates
<1>5. /\ handlers' \in [Handlers -> Handler] /\ handlers'[h] = next
      /\ \A g \in Handlers \ {h} : handlers'[g] = handlers[g]
  BY <1>1, <1>4 DEF StatementFails
<1>6. CASE handlers[h].at = "insert" /\ handlers[h].reserved
  <2>1. next.at = "undoFailure" /\ next.sub = handlers[h].sub
    BY <1>1, <1>6 DEF AfterFault, Handler
  <2>. QED
    BY <1>1, <1>2, <1>3, <1>5, <1>6, <2>1, LocalStep
    DEF StatementFails, CallKnows, Submitting, HoldsLines, Cancelling, Claims,
        Completing, Releasing
<1>7. CASE handlers[h].at = "fulfil"
  <2>1. next.at = "revert" /\ next.order = handlers[h].order
    BY <1>1, <1>7 DEF AfterFault, Handler
  <2>. QED
    BY <1>1, <1>2, <1>3, <1>5, <1>7, <2>1, LocalStep
    DEF StatementFails, CallKnows, Submitting, HoldsLines, Cancelling, Claims,
        Completing, Releasing, Status, HasStock
<1>8. CASE next = Idle
  BY <1>1, <1>2, <1>3, <1>5, <1>8, FinishStep, LocalStep DEF StatementFails, Finish
<1>. QED  BY <1>6, <1>7, <1>8 DEF AfterFault

LEMMA CrashPreserves ==
    ASSUME IInv, Crash
    PROVE  IInv'
<1>1. InventoryIInv'
  BY Unmoved DEF Crash
<1>2. handlers' \in [Handlers -> Handler]
  BY IdleIsHandler DEF Crash
<1>3. TypeOK'
  BY <1>1, <1>2, BoundsAreNat DEF IInv, TypeOK, Crash, InventoryIInv
<1>4. \A h \in Handlers : handlers'[h].at = "idle"
  BY DEF Crash, Idle
<1>5. \A h \in Handlers : CallKnows(h)'
  BY <1>4 DEF CallKnows, Submitting, HoldsLines, Cancelling, Claims, Completing, Releasing
<1>6. \A g, h \in Handlers : Apart(g, h)'
  BY <1>4 DEF Apart, Completing, Releasing
<1>7. FulfilledStaysCompleted'
  BY DEF IInv, FulfilledStaysCompleted, Status, Crash
<1>. QED  BY <1>1, <1>3, <1>5, <1>6, <1>7 DEF IInv

LEMMA ManageStockPreserves ==
    ASSUME IInv, ManageStock
    PROVE  [InventoryNext]_inventoryVars /\ IInv'
<1>1. [InventoryNext]_inventoryVars
  BY DEF ManageStock, InventoryNext
<1>2. InventoryIInv' /\ CountersTypeOK'
  BY <1>1, InventoryInductive, CountersUnmoved DEF IInv, ManageStock, orderVars
<1>3. orders' \in [Orders -> OrderRow] /\ FulfilledStaysCompleted'
      /\ \A g \in Handlers : Claims(g) => SameOrder(handlers[g].order)
  BY DEF IInv, TypeOK, FulfilledStaysCompleted, SameOrder, Status, ManageStock, orderVars
<1>. QED
  BY <1>1, <1>2, <1>3, TableStep DEF ManageStock, orderVars

-----------------------------------------------------------------------------
(* The whole specification                                                 *)

LEMMA InitIsGood ==
    ASSUME Init
    PROVE  IInv
<1>1. InventoryIInv
  BY InventoryInitial DEF Init
<1>2. orders \in [Orders -> OrderRow]
  BY DEF Init, NoOrder, OrderRow
<1>3. handlers \in [Handlers -> Handler] /\ \A h \in Handlers : handlers[h].at = "idle"
  BY IdleIsHandler DEF Init, Idle
<1>4. TypeOK
  BY <1>1, <1>2, <1>3, BoundsAreNat DEF Init, TypeOK, InventoryIInv
<1>5. \A h \in Handlers : CallKnows(h)
  BY <1>3 DEF CallKnows, Submitting, HoldsLines, Cancelling, Claims, Completing, Releasing
<1>6. \A g, h \in Handlers : Apart(g, h)
  BY <1>3 DEF Apart, Completing, Releasing
<1>7. FulfilledStaysCompleted
  BY DEF Init, FulfilledStaysCompleted
<1>. QED  BY <1>1, <1>4, <1>5, <1>6, <1>7 DEF IInv

LEMMA ProceedPreserves ==
    ASSUME IInv, NEW h \in Handlers, Proceed(h)
    PROVE  IInv'
BY CheckItemsPreserves, ReservePreservesCalls, InsertOrdersPreserves,
   InsertRefusedPreserves, UndoPreserves, LookAgainPreserves,
   FulfilPreservesCalls, RevertPreserves, ClaimCancellationPreserves,
   LoseCancellationPreserves, ReleasePreservesCalls DEF Proceed

LEMMA StutterPreserves ==
    ASSUME IInv, UNCHANGED vars
    PROVE  IInv'
<1>1. InventoryIInv' /\ CountersTypeOK'
  BY Unmoved, CountersUnmoved DEF vars, orderVars
<1>2. orders' \in [Orders -> OrderRow] /\ FulfilledStaysCompleted'
      /\ \A g \in Handlers : Claims(g) => SameOrder(handlers[g].order)
  BY DEF IInv, TypeOK, FulfilledStaysCompleted, SameOrder, Status, vars, orderVars
<1>. QED
  BY <1>1, <1>2, TableStep DEF vars, orderVars

LEMMA NextPreserves ==
    ASSUME IInv, [Next]_vars
    PROVE  IInv'
<1>1. ASSUME NEW h \in Handlers, NEW sub \in Submissions, Submit(h, sub)
      PROVE  IInv'
  BY <1>1, SubmitPreserves
<1>2. ASSUME NEW h \in Handlers, NEW o \in Orders,
             ClaimCompletion(h, o) \/ ReadForCancel(h, o)
      PROVE  IInv'
  BY <1>2, ClaimCompletionPreserves, ReadForCancelPreserves
<1>3. ASSUME NEW h \in Handlers, StartSweep(h) \/ Proceed(h) \/ StatementFails(h)
      PROVE  IInv'
  BY <1>3, StartSweepPreserves, ProceedPreserves, StatementFailsPreserves
<1>4. ASSUME NEW o \in Orders, Confirm(o) \/ WindowPasses(o)
      PROVE  IInv'
  BY <1>4, ConfirmPreserves, WindowPassesPreserves
<1>5. CASE Crash \/ ManageStock
  BY <1>5, CrashPreserves, ManageStockPreserves
<1>. QED
  BY <1>1, <1>2, <1>3, <1>4, <1>5, StutterPreserves DEF Next

(* The refinement: a step of a call is one step of the stock tables or     *)
(* leaves them alone.                                                      *)
LEMMA NextIsStockStep ==
    ASSUME IInv, [Next]_vars
    PROVE  [InventoryNext]_inventoryVars
<1>1. ASSUME NEW h \in Handlers, Proceed(h)
      PROVE  [InventoryNext]_inventoryVars
  <2>1. CASE UNCHANGED inventoryVars
    BY <2>1
  <2>2. CASE Reserve(h) \/ UndoReservation(h) \/ Fulfil(h) \/ Release(h)
    BY <2>2, ReserveIsStockStep, UndoIsStockStep, FulfilIsStockStep, ReleaseIsStockStep
  <2>. QED
    BY <1>1, <2>1, <2>2
    DEF Proceed, CheckItems, InsertOrders, InsertRefused, LookAgain, RevertCompletion,
        ClaimCancellation, LoseCancellation
<1>2. CASE ManageStock
  BY <1>2, ManageStockPreserves
<1>3. ASSUME NEW h \in Handlers,
             \/ \E sub \in Submissions : Submit(h, sub)
             \/ \E o \in Orders : ClaimCompletion(h, o) \/ ReadForCancel(h, o)
             \/ StartSweep(h) \/ StatementFails(h)
      PROVE  UNCHANGED inventoryVars
  BY <1>3 DEF Submit, ClaimCompletion, ReadForCancel, StartSweep, StatementFails
<1>4. CASE Crash \/ \E o \in Orders : Confirm(o) \/ WindowPasses(o)
  BY <1>4 DEF Crash, Confirm, WindowPasses
<1>5. CASE UNCHANGED vars
  BY <1>5 DEF vars
<1>. QED
  BY <1>1, <1>2, <1>3, <1>4, <1>5 DEF Next

LEMMA AlwaysIInv == Spec => []IInv
<1>1. Init => IInv
  BY InitIsGood
<1>2. IInv /\ [Next]_vars => IInv'
  BY NextPreserves
<1>. QED  BY <1>1, <1>2, PTL DEF Spec

(* Every variable keeps its type, whatever fails, restarts or races.       *)
THEOREM TypeCorrect == Spec => []TypeOK
<1>1. IInv => TypeOK
  BY DEF IInv
<1>. QED  BY <1>1, AlwaysIInv, PTL

(* Completing, cancelling and expiring an order exclude each other: a call *)
(* that delivers, reverts or releases owns the status it claimed, for any  *)
(* number of calls at once (RequestService.transition).                    *)
THEOREM ClaimsAreExclusive == Spec => []ClaimsExclusive
<1>1. IInv => ClaimsExclusive
  BY DEF IInv, ClaimsExclusive, CallKnows, Apart
<1>. QED  BY <1>1, AlwaysIInv, PTL

(* An order whose goods were handed over stays COMPLETED for ever.         *)
THEOREM DeliveredOrdersStay == Spec => []FulfilledStaysCompleted
<1>1. IInv => FulfilledStaysCompleted
  BY DEF IInv
<1>. QED  BY <1>1, AlwaysIInv, PTL

(* However the calls interleave, fail or are cut short, nothing is         *)
(* reserved that is not on the shelf.                                      *)
THEOREM OrdersNeverOverpromise == Spec => []StockCovered
<1>1. IInv => StockCovered
  BY DEF IInv, InventoryIInv
<1>. QED  BY <1>1, AlwaysIInv, PTL

(* The calls of GuestService and RequestService are written with the       *)
(* actions of BoutiqueInventory, so what is proved of it holds for them.   *)
LEMMA UsesTheInventory == Spec => InventorySpec
<1>1. Init => InventoryInit
  BY DEF Init
<1>2. IInv /\ [Next]_vars => [InventoryNext]_inventoryVars
  BY NextIsStockStep
<1>. QED  BY <1>1, <1>2, AlwaysIInv, PTL DEF Spec, InventorySpec

-----------------------------------------------------------------------------
(* Sums of the stock tables, seen from the orders                          *)

(* The movement table explains the reserved counters also when the calls   *)
(* of guests, staff and the worker interleave, fail and are cut short.     *)
THEOREM OrdersLeaveLedgerTrue ==
    ASSUME IsFiniteSet(Keys)
    PROVE  Spec => []LedgerAgrees
BY UsesTheInventory, MovementsExplainReserved, PTL

-----------------------------------------------------------------------------
(* What a guest was told                                                   *)

(* The row of an order keeps its lines and is never deleted.               *)
Kept(o) == /\ orders'[o].lines = orders[o].lines
           /\ Status(o)' = "none" <=> Status(o) = "none"

LEMMA TransitionKeeps ==
    ASSUME IInv, NEW o \in Orders, NEW expected, NEW next \in Statuses,
           expected # "none", Transition(o, expected, next), NEW p \in Orders
    PROVE  Kept(p)
BY DEF IInv, TypeOK, OrderRow, Transition, Status, Statuses, Kept

LEMMA RowsAreKept ==
    ASSUME IInv, [Next]_vars, \A h \in Handlers : ~InsertOrders(h), NEW p \in Orders
    PROVE  Kept(p)
<1>0. orders \in [Orders -> OrderRow] /\ "none" \notin Statuses
  BY DEF IInv, TypeOK, Statuses
<1>1. CASE UNCHANGED orders
  BY <1>1 DEF Kept, Status
<1>2. ASSUME NEW o \in Orders, Confirm(o)
      PROVE  Kept(p)
  BY <1>2, TransitionKeeps DEF Confirm, Statuses
<1>3. ASSUME NEW h \in Handlers, NEW o \in Orders, ClaimCompletion(h, o)
      PROVE  Kept(p)
  BY <1>3, TransitionKeeps DEF ClaimCompletion, Statuses
<1>4. ASSUME NEW h \in Handlers, NEW o \in Orders, ClaimCancellation(h, o)
      PROVE  Kept(p)
  <2>1. handlers[h].seen # "none"
    BY <1>4 DEF IInv, CallKnows, Cancelling, ClaimCancellation, At
  <2>. QED  BY <1>4, <2>1, TransitionKeeps DEF ClaimCancellation, Statuses
<1>5. ASSUME NEW h \in Handlers, RevertCompletion(h)
      PROVE  Kept(p)
  BY <1>0, <1>1, <1>5 DEF RevertCompletion, OrderRow, Kept, Status
<1>6. ASSUME NEW o \in Orders, WindowPasses(o)
      PROVE  Kept(p)
  BY <1>0, <1>6 DEF WindowPasses, OrderRow, Kept, Status
<1>. QED
  BY <1>1, <1>2, <1>3, <1>4, <1>5, <1>6
  DEF Next, Proceed, vars, orderVars, Submit, CheckItems, Reserve, InsertRefused,
      UndoReservation, LookAgain, Fulfil, ReadForCancel, StartSweep, LoseCancellation,
      Release, StatementFails, Crash, ManageStock

(* Each stay sends every key with one cart.                                *)
OneCartPerStay ==
    \A s, t \in Submissions : s.stay = t.stay /\ s.key = t.key => s = t

(* AcceptedIsStored alone is not inductive: the answer also relies on what *)
(* earlier calls stored.                                                   *)
StoredWhole ==
    \A sub \in Submissions : KnownOrders(sub) # {} =>
        \A o \in OrdersOf(sub) :
            Status(o) # "none" /\ orders[o].lines = NewOrder(sub, o).lines

LEMMA OrdersOfCart ==
    ASSUME NEW sub \in Submissions
    PROVE  /\ OrdersOf(sub) \subseteq Orders
           /\ \A o \in OrdersOf(sub) : o[1] = sub.stay /\ o[2] = sub.key
BY SubmissionsAreCarts, ButikIsUnit DEF OrdersOf, UnitsOf, Orders

LEMMA InsertStoresWhole ==
    ASSUME OneCartPerStay, IInv, StoredWhole, AcceptedIsStored,
           NEW h \in Handlers, InsertOrders(h)
    PROVE  StoredWhole' /\ AcceptedIsStored'
<1>. DEFINE cart == handlers[h].sub
<1>1. cart \in Submissions
  BY DEF IInv, CallKnows, Submitting, InsertOrders, At
<1>2. \A o \in Orders : orders'[o] = IF o \in OrdersOf(cart) THEN NewOrder(cart, o) ELSE orders[o]
  BY DEF InsertOrders
<1>3. \A o \in OrdersOf(cart) : Status(o)' # "none" /\ orders'[o].lines = NewOrder(cart, o).lines
  <2>1. \A o \in OrdersOf(cart) : orders'[o] = NewOrder(cart, o)
    BY <1>1, <1>2, OrdersOfCart
  <2>2. \A o \in OrdersOf(cart) : NewOrder(cart, o).status = "NEW"
    BY DEF NewOrder
  <2>. QED  BY <2>1, <2>2 DEF Status
<1>4. \A sub \in Submissions \ {cart} : \A o \in Orders :
          o[1] = sub.stay /\ o[2] = sub.key => orders'[o] = orders[o]
  BY <1>1, <1>2, OrdersOfCart DEF OneCartPerStay
<1>5. ASSUME NEW sub \in Submissions \ {cart}
      PROVE  /\ KnownOrders(sub)' = KnownOrders(sub)
             /\ \A o \in OrdersOf(sub) : orders'[o] = orders[o]
  BY <1>4, OrdersOfCart DEF KnownOrders, Status
<1>6. StoredWhole'
  BY <1>3, <1>5 DEF StoredWhole, Status
<1>7. accepted' = accepted \cup {cart} /\ accepted \subseteq Submissions
  BY DEF InsertOrders, IInv, TypeOK
<1>8. AcceptedIsStored'
  BY <1>3, <1>5, <1>7 DEF AcceptedIsStored, Status
<1>. QED  BY <1>6, <1>8

LEMMA AnswersAreStored ==
    ASSUME OneCartPerStay, IInv, StoredWhole, AcceptedIsStored, [Next]_vars
    PROVE  StoredWhole' /\ AcceptedIsStored'
<1>1. ASSUME NEW h \in Handlers, InsertOrders(h)
      PROVE  StoredWhole' /\ AcceptedIsStored'
  BY <1>1, InsertStoresWhole
<1>2. ASSUME \A h \in Handlers : ~InsertOrders(h)
      PROVE  StoredWhole' /\ AcceptedIsStored'
  <2>1. \A o \in Orders : Kept(o)
    BY <1>2, RowsAreKept
  <2>2. \A sub \in Submissions : KnownOrders(sub)' = KnownOrders(sub)
    BY <2>1 DEF KnownOrders, Kept
  <2>3. StoredWhole'
    BY <2>1, <2>2, OrdersOfCart DEF StoredWhole, Kept
  <2>4. \A sub \in accepted' :
          \/ sub \in accepted
          \/ sub \in Submissions /\ KnownOrders(sub) # {}
    <3>1. ASSUME NEW h \in Handlers, LookAgain(h)
          PROVE  handlers[h].sub \in Submissions
      BY <3>1 DEF IInv, CallKnows, Submitting, LookAgain, At
    <3>. QED
      BY <1>2, <3>1
      DEF Next, Proceed, vars, orderVars, Submit, CheckItems, Reserve, InsertRefused,
          UndoReservation, LookAgain, Fulfil, RevertCompletion, Confirm, ClaimCompletion,
          ReadForCancel, StartSweep, ClaimCancellation, LoseCancellation,
          Release, WindowPasses, StatementFails, Crash, ManageStock
  <2>5. accepted \subseteq Submissions
    BY DEF IInv, TypeOK
  <2>6. AcceptedIsStored'
    BY <2>1, <2>4, <2>5, OrdersOfCart DEF AcceptedIsStored, StoredWhole, Kept
  <2>. QED  BY <2>3, <2>6
<1>. QED  BY <1>1, <1>2

(* A guest whose stay sends every key with one cart and who was told       *)
(* "ordered" has an order of every unit of that cart with its lines,       *)
(* however often the cart was sent, whichever attempt answered, and        *)
(* whatever failed or restarted in between.                                *)
THEOREM AcceptedOrdersExist ==
    ASSUME OneCartPerStay
    PROVE  Spec => []AcceptedIsStored
<1>1. Init => StoredWhole /\ AcceptedIsStored
  BY DEF Init, StoredWhole, AcceptedIsStored, KnownOrders, Status, NoOrder
<1>2. IInv /\ StoredWhole /\ AcceptedIsStored /\ [Next]_vars => (StoredWhole /\ AcceptedIsStored)'
  BY AnswersAreStored
<1>. QED  BY <1>1, <1>2, AlwaysIInv, PTL DEF Spec

-----------------------------------------------------------------------------
(* Carts that are sent once                                                *)

(* Every key is sent with one cart, the carts of other stays included.     *)
OneCartPerKey == \A s, t \in Submissions : s.key = t.key => s = t

(* Nothing has been ordered under the key; the key holds no stock; the key *)
(* holds exactly these lines.                                              *)
NoOrders(k) == \A o \in Orders : KeyOf(o) = k => Status(o) = "none"
HoldsNothing(k) == \A v \in Variants : ledger[k][v] = 0
Exactly(k, lines) == \A v \in Variants : ledger[k][v] = lines[v]

SubmitsUnder(h, k) == Submitting(h) /\ handlers[h].sub.key = k
ClaimsUnder(h, k) == Claims(h) /\ KeyOf(handlers[h].order) = k
WorksOn(h, k) == SubmitsUnder(h, k) \/ ClaimsUnder(h, k)

WithoutStock(h) == handlers[h].at = "insert" /\ ~handlers[h].reserved

(* What a submission knows when no other attempt ever ran: the key is      *)
(* untouched until its own reservation, and the insert meets no order.     *)
SubmitKnows(h) ==
    LET sub == handlers[h].sub IN
    /\ handlers[h].at \notin {"undoDuplicate", "lookAgain"}
    /\ NoOrders(sub.key)
    /\ handlers[h].at \in {"check", "reserve"} \/ WithoutStock(h)
          => HoldsNothing(sub.key) /\ sub.key \notin history
    /\ WithoutStock(h) => Wanted(sub.lines) = {}
    /\ HoldsLines(h) /\ handlers[h].at # "reserve" => Exactly(sub.key, sub.lines)
    /\ handlers[h].at = "undoFailure" => faults # 0

ClaimHolds(h) ==
    /\ Exactly(KeyOf(handlers[h].order), orders[handlers[h].order].lines)
    /\ handlers[h].at = "revert" => faults # 0

Unsent(k) ==
    \A sub \in Submissions : sub.key = k /\ attempts[sub] = 0
        => NoOrders(k) /\ HoldsNothing(k) /\ k \notin history

Stored(o) ==
    \E sub \in Submissions :
        o \in OrdersOf(sub) /\ orders[o].lines = NewOrder(sub, o).lines

StoredUnder(k) == \A o \in Orders : KeyOf(o) = k /\ Status(o) # "none" => Stored(o)

OpenHolds(k) ==
    \A o \in Orders : KeyOf(o) = k /\ Open(o) /\ HasStock(o) => Exactly(k, orders[o].lines)

(* Stock a key holds has an owner: an open order or a call.                *)
HasOwner(k) ==
    \/ HoldsNothing(k)
    \/ \E o \in Orders : KeyOf(o) = k /\ Open(o) /\ HasStock(o)
    \/ \E h \in Handlers : WorksOn(h, k)

CompletedUnder(k) ==
    \A o \in Orders :
        KeyOf(o) = k /\ Status(o) = "COMPLETED" /\ HasStock(o) /\ o \notin fulfilled =>
            \E h \in Handlers : Completing(h) /\ handlers[h].order = o

KeyOK(k) ==
    /\ \A v \in Variants : ledger[k][v] >= 0
    /\ Unsent(k)
    /\ \A h \in Handlers : SubmitsUnder(h, k) => SubmitKnows(h) /\ attempts[handlers[h].sub] # 0
    /\ \A g, h \in Handlers : SubmitsUnder(g, k) /\ SubmitsUnder(h, k) => g = h
    /\ StoredUnder(k)
    /\ OpenHolds(k)
    /\ \A h \in Handlers : ClaimsUnder(h, k) => ClaimHolds(h)
    /\ faults = 0 /\ crashes = 0 => HasOwner(k)
    /\ faults <= 1 /\ crashes = 0 => CompletedUnder(k)

OnceInv ==
    /\ IInv
    /\ LedgerIInv
    /\ listed = Variants
    /\ \A k \in Keys : KeyOK(k)

LEMMA OnceTypes ==
    ASSUME IInv
    PROVE  /\ ledger \in [Keys -> [Variants -> Int]]
           /\ orders \in [Orders -> OrderRow]
           /\ handlers \in [Handlers -> Handler]
           /\ attempts \in [Submissions -> 0..MaxAttempts]
           /\ faults \in Nat /\ crashes \in Nat
           /\ \A o \in Orders : KeyOf(o) \in Keys
           /\ \A sub \in Submissions : sub.key \in Keys
BY SubmissionsAreCarts, BoundsAreNat DEF IInv, TypeOK, InventoryTypeOK, Orders, KeyOf

-----------------------------------------------------------------------------
(* One key, one order with stock, one call                                 *)

LEMMA StockOrder ==
    ASSUME NEW o \in Orders, Stored(o), HasStock(o)
    PROVE  \E sub \in Submissions : /\ o = <<sub.stay, sub.key, Butik>>
                                    /\ orders[o].lines = sub.lines
<1>1. PICK sub \in Submissions :
          o \in OrdersOf(sub) /\ orders[o].lines = NewOrder(sub, o).lines
  BY DEF Stored
<1>2. UnitOf(o) = Butik
  BY <1>1 DEF NewOrder, HasStock, Wanted, NoLines
<1>. QED  BY <1>1, <1>2 DEF OrdersOf, UnitOf, NewOrder

LEMMA OneStockOrder ==
    ASSUME OneCartPerKey, OnceInv, NEW o \in Orders, NEW p \in Orders, KeyOf(o) = KeyOf(p),
           Status(o) # "none", Status(p) # "none", HasStock(o), HasStock(p)
    PROVE  o = p
<1>1. Stored(o) /\ Stored(p)
  BY OnceTypes DEF OnceInv, KeyOK, StoredUnder
<1>2. PICK s \in Submissions : o = <<s.stay, s.key, Butik>>
  BY <1>1, StockOrder
<1>3. PICK t \in Submissions : p = <<t.stay, t.key, Butik>>
  BY <1>1, StockOrder
<1>. QED  BY <1>2, <1>3 DEF OneCartPerKey, KeyOf

LEMMA ClaimIsKnown ==
    ASSUME IInv, NEW h \in Handlers, Claims(h)
    PROVE  LET o == handlers[h].order IN
           /\ o \in Orders /\ KeyOf(o) \in Keys /\ HasStock(o) /\ orders[o].lines \in Lines
           /\ Status(o) \in {"COMPLETED", "CANCELLED"}
BY OrderLines DEF IInv, CallKnows, Claims

LEMMA SubmitterAlone ==
    ASSUME OnceInv, NEW k \in Keys, NEW h \in Handlers, SubmitsUnder(h, k)
    PROVE  /\ SubmitKnows(h) /\ NoOrders(k) /\ handlers[h].sub \in Submissions
           /\ \A g \in Handlers \ {h} : ~WorksOn(g, k)
<1>1. SubmitKnows(h) /\ NoOrders(k)
  BY DEF OnceInv, KeyOK, SubmitsUnder, SubmitKnows
<1>2. \A g \in Handlers \ {h} : ~SubmitsUnder(g, k)
  BY DEF OnceInv, KeyOK
<1>3. \A g \in Handlers : ~ClaimsUnder(g, k)
  BY <1>1, ClaimIsKnown DEF OnceInv, ClaimsUnder, NoOrders
<1>4. handlers[h].sub \in Submissions
  BY DEF OnceInv, IInv, CallKnows, SubmitsUnder
<1>. QED  BY <1>1, <1>2, <1>3, <1>4 DEF WorksOn

(* While an order with stock is open or claimed, no other call works on    *)
(* its key.                                                                *)
LEMMA StockOrderAlone ==
    ASSUME OneCartPerKey, OnceInv, NEW o \in Orders, HasStock(o), Status(o) # "none"
    PROVE  /\ KeyOf(o) \in Keys /\ orders[o].lines \in Lines
           /\ \A g \in Handlers : ~SubmitsUnder(g, KeyOf(o))
           /\ \A g \in Handlers : ClaimsUnder(g, KeyOf(o)) => handlers[g].order = o
           /\ \A sub \in Submissions : sub.key = KeyOf(o) => attempts[sub] # 0
<1>1. KeyOf(o) \in Keys /\ orders[o].lines \in Lines
  BY OrderLines DEF OnceInv
<1>2. \A g \in Handlers : ~SubmitsUnder(g, KeyOf(o))
  BY <1>1, SubmitterAlone DEF NoOrders
<1>3. \A g \in Handlers : ClaimsUnder(g, KeyOf(o)) => handlers[g].order = o
  BY ClaimIsKnown, OneStockOrder DEF OnceInv, ClaimsUnder
<1>4. \A sub \in Submissions : sub.key = KeyOf(o) => attempts[sub] # 0
  BY <1>1 DEF OnceInv, KeyOK, Unsent, NoOrders
<1>. QED  BY <1>1, <1>2, <1>3, <1>4

LEMMA OpenAlone ==
    ASSUME OneCartPerKey, OnceInv, NEW o \in Orders, HasStock(o), Open(o)
    PROVE  /\ \A g \in Handlers : ~WorksOn(g, KeyOf(o))
           /\ Exactly(KeyOf(o), orders[o].lines)
<1>1. \A g \in Handlers : ~WorksOn(g, KeyOf(o))
  BY StockOrderAlone, ClaimIsKnown DEF Open, WorksOn, ClaimsUnder, OnceInv
<1>2. Exactly(KeyOf(o), orders[o].lines)
  BY OnceTypes DEF OnceInv, KeyOK, OpenHolds
<1>. QED  BY <1>1, <1>2

LEMMA ClaimerAlone ==
    ASSUME OneCartPerKey, OnceInv, NEW h \in Handlers, Claims(h)
    PROVE  LET o == handlers[h].order IN
           /\ ClaimHolds(h) /\ Exactly(KeyOf(o), orders[o].lines)
           /\ \A g \in Handlers \ {h} : ~WorksOn(g, KeyOf(o))
<1>. DEFINE o == handlers[h].order
<1>1. o \in Orders /\ KeyOf(o) \in Keys /\ HasStock(o) /\ Status(o) # "none"
  BY ClaimIsKnown DEF OnceInv
<1>2. ClaimHolds(h) /\ Exactly(KeyOf(o), orders[o].lines)
  BY <1>1 DEF OnceInv, KeyOK, ClaimsUnder, ClaimHolds
<1>3. ASSUME NEW g \in Handlers \ {h}, WorksOn(g, KeyOf(o))
      PROVE  FALSE
  <2>1. Claims(g) /\ handlers[g].order = o
    BY <1>1, <1>3, StockOrderAlone DEF WorksOn, ClaimsUnder
  <2>2. Apart(g, h)
    BY DEF OnceInv, IInv
  <2>. QED
    BY <2>1, <2>2 DEF Apart, Claims, OnceInv, IInv, CallKnows
<1>. QED  BY <1>2, <1>3

-----------------------------------------------------------------------------
(* Steps, key by key                                                       *)

(* Nothing the invariant says of this order changes.                       *)
Calm(o) ==
    /\ Kept(o)
    /\ HasStock(o) => /\ Open(o)' = Open(o)
                      /\ Status(o)' = "COMPLETED" <=> Status(o) = "COMPLETED"
    /\ o \in fulfilled' <=> o \in fulfilled

SameTables(k) ==
    /\ \A v \in Variants : ledger'[k][v] = ledger[k][v]
    /\ k \in history' <=> k \in history
    /\ \A o \in Orders : KeyOf(o) = k => Calm(o)
    /\ \A sub \in Submissions : sub.key = k => attempts'[sub] = attempts[sub]

SameCalls(k) ==
    \A h \in Handlers :
        handlers'[h] = handlers[h] \/ (~WorksOn(h, k) /\ ~WorksOn(h, k)')

FaultsRemain == faults <= faults' /\ crashes <= crashes'

LEMMA CalmKeepsStock ==
    ASSUME NEW o, Calm(o)
    PROVE  HasStock(o)' <=> HasStock(o)
BY DEF Calm, Kept, HasStock, Wanted

LEMMA SameKeyOK ==
    ASSUME OnceInv, IInv', NEW k \in Keys, SameTables(k), SameCalls(k), FaultsRemain
    PROVE  KeyOK(k)'
<1>0. /\ faults \in Nat /\ faults' \in Nat /\ crashes \in Nat /\ crashes' \in Nat
      /\ faults <= faults' /\ crashes <= crashes'
  BY OnceTypes DEF OnceInv, IInv, TypeOK, FaultsRemain
<1>1. KeyOK(k)
  BY DEF OnceInv
<1>2. NoOrders(k)' <=> NoOrders(k)
  BY DEF NoOrders, SameTables, Calm, Kept
<1>3. HoldsNothing(k)' <=> HoldsNothing(k)
  BY DEF HoldsNothing, SameTables
<1>4. \A lines : Exactly(k, lines)' <=> Exactly(k, lines)
  BY DEF Exactly, SameTables
<1>5. (\A v \in Variants : ledger[k][v] >= 0)'
  BY <1>1 DEF KeyOK, SameTables
<1>6. Unsent(k)'
  BY <1>1, <1>2, <1>3 DEF KeyOK, Unsent, SameTables
<1>7. \A h \in Handlers : WorksOn(h, k)' => handlers'[h] = handlers[h]
  BY DEF SameCalls
<1>8. ASSUME NEW h \in Handlers, SubmitsUnder(h, k)'
      PROVE  SubmitsUnder(h, k) /\ SubmitKnows(h)' /\ attempts'[handlers'[h].sub] # 0
  <2>1. handlers'[h] = handlers[h] /\ SubmitsUnder(h, k)
    BY <1>7, <1>8 DEF WorksOn, SubmitsUnder, Submitting
  <2>2. SubmitKnows(h) /\ handlers[h].sub \in Submissions /\ handlers[h].sub.key = k
        /\ attempts[handlers[h].sub] # 0
    BY <1>1, <2>1, SubmitterAlone DEF SubmitsUnder, KeyOK
  <2>3. SubmitKnows(h)'
    BY <1>0, <1>2, <1>3, <1>4, <2>1, <2>2 DEF SubmitKnows, WithoutStock, HoldsLines, SameTables, Wanted
  <2>. QED  BY <2>1, <2>2, <2>3 DEF SameTables
<1>9. (\A g, h \in Handlers : SubmitsUnder(g, k) /\ SubmitsUnder(h, k) => g = h)'
  BY <1>1, <1>8 DEF KeyOK
<1>10. StoredUnder(k)'
  BY <1>1 DEF KeyOK, StoredUnder, SameTables, Calm, Kept, Stored, Status, NewOrder
<1>11. \A o \in Orders : KeyOf(o) = k =>
          /\ HasStock(o)' <=> HasStock(o)
          /\ HasStock(o) => Open(o)' = Open(o)
          /\ orders'[o].lines = orders[o].lines
          /\ HasStock(o) => (Status(o)' = "COMPLETED" <=> Status(o) = "COMPLETED")
          /\ o \in fulfilled' <=> o \in fulfilled
  BY CalmKeepsStock DEF SameTables, Calm, Kept
<1>12. OpenHolds(k)'
  BY <1>1, <1>4, <1>11 DEF KeyOK, OpenHolds
<1>13. ASSUME NEW h \in Handlers, ClaimsUnder(h, k)'
       PROVE  ClaimHolds(h)'
  <2>1. handlers'[h] = handlers[h] /\ ClaimsUnder(h, k)
    BY <1>7, <1>13 DEF WorksOn, ClaimsUnder, Claims, Completing, Releasing
  <2>2. ClaimHolds(h) /\ handlers[h].order \in Orders /\ KeyOf(handlers[h].order) = k
    BY <1>1, <2>1, ClaimIsKnown DEF KeyOK, ClaimsUnder, OnceInv
  <2>. QED  BY <1>0, <1>4, <1>11, <2>1, <2>2 DEF ClaimHolds
<1>14. (faults = 0 /\ crashes = 0 => HasOwner(k))'
  <2>. SUFFICES ASSUME faults' = 0, crashes' = 0
                PROVE  HasOwner(k)'
    OBVIOUS
  <2>1. HasOwner(k)
    BY <1>0, <1>1 DEF KeyOK
  <2>2. ASSUME NEW h \in Handlers, WorksOn(h, k)
        PROVE  WorksOn(h, k)'
    BY <2>2 DEF SameCalls, WorksOn, SubmitsUnder, ClaimsUnder, Submitting, Claims,
                Completing, Releasing
  <2>. QED  BY <1>3, <1>11, <2>1, <2>2 DEF HasOwner
<1>15. (faults <= 1 /\ crashes = 0 => CompletedUnder(k))'
  <2>. SUFFICES ASSUME faults' <= 1, crashes' = 0
                PROVE  CompletedUnder(k)'
    OBVIOUS
  <2>1. CompletedUnder(k)
    BY <1>0, <1>1 DEF KeyOK
  <2>2. ASSUME NEW h \in Handlers, Completing(h), KeyOf(handlers[h].order) = k
        PROVE  Completing(h)' /\ handlers'[h].order = handlers[h].order
    BY <2>2 DEF SameCalls, WorksOn, ClaimsUnder, Claims, Completing, Releasing
  <2>. QED  BY <1>11, <2>1, <2>2 DEF CompletedUnder
<1>. QED
  BY <1>5, <1>6, <1>8, <1>9, <1>10, <1>12, <1>13, <1>14, <1>15 DEF KeyOK

LEMMA OnceTables ==
    ASSUME IsFiniteSet(Keys), OnceInv, [Next]_vars
    PROVE  IInv' /\ LedgerIInv' /\ listed' = Variants
<1>1. [InventoryNext]_inventoryVars
  BY NextIsStockStep DEF OnceInv
<1>2. IInv' /\ LedgerIInv'
  BY <1>1, NextPreserves, LedgerInductive DEF OnceInv
<1>3. listed' = Variants
  BY <1>1
  DEF OnceInv, InventoryNext, ReserveStock, ReleaseStock, FulfilStock, AdjustStock,
      CreateVariant, SetVariantActive, inventoryVars
<1>. QED  BY <1>2, <1>3

(* A step that concerns no key.                                            *)
LEMMA NoKeyStep ==
    ASSUME IsFiniteSet(Keys), OnceInv, [Next]_vars, FaultsRemain,
           \A k \in Keys : SameTables(k) /\ SameCalls(k)
    PROVE  OnceInv'
BY OnceTables, SameKeyOK DEF OnceInv

(* A step of the one call that works on a key, or begins to.               *)
LEMMA KeyStep ==
    ASSUME IsFiniteSet(Keys), OnceInv, [Next]_vars, FaultsRemain,
           NEW k \in Keys, NEW h \in Handlers,
           \A g \in Handlers \ {h} : handlers'[g] = handlers[g] /\ ~WorksOn(g, k),
           \A j \in Keys \ {k} : SameTables(j) /\ ~WorksOn(h, j) /\ ~WorksOn(h, j)',
           \A v \in Variants : ledger'[k][v] >= 0,
           \A sub \in Submissions : sub.key = k => attempts'[sub] # 0,
           SubmitsUnder(h, k)' => SubmitKnows(h)',
           StoredUnder(k)', OpenHolds(k)',
           ClaimsUnder(h, k)' => ClaimHolds(h)',
           faults' = 0 /\ crashes' = 0 => HasOwner(k)',
           faults' <= 1 /\ crashes' = 0 => CompletedUnder(k)'
    PROVE  OnceInv'
<1>1. IInv' /\ LedgerIInv' /\ listed' = Variants
  BY OnceTables
<1>2. \A j \in Keys \ {k} : KeyOK(j)'
  BY <1>1, SameKeyOK DEF SameCalls
<1>3. \A g \in Handlers : WorksOn(g, k)' => g = h
  BY DEF WorksOn, SubmitsUnder, ClaimsUnder, Submitting, Claims, Completing, Releasing
<1>4. \A g \in Handlers : SubmitsUnder(g, k)' => handlers'[g].sub \in Submissions
  BY <1>1 DEF IInv, CallKnows, SubmitsUnder
<1>5. KeyOK(k)'
  <2>1. Unsent(k)'
    BY DEF Unsent
  <2>2. (\A g \in Handlers : SubmitsUnder(g, k) =>
            SubmitKnows(g) /\ attempts[handlers[g].sub] # 0)'
    BY <1>3, <1>4 DEF WorksOn, SubmitsUnder
  <2>3. (\A f, g \in Handlers : SubmitsUnder(f, k) /\ SubmitsUnder(g, k) => f = g)'
    BY <1>3 DEF WorksOn
  <2>4. (\A g \in Handlers : ClaimsUnder(g, k) => ClaimHolds(g))'
    BY <1>3 DEF WorksOn
  <2>. QED  BY <2>1, <2>2, <2>3, <2>4 DEF KeyOK
<1>. QED  BY <1>1, <1>2, <1>5 DEF OnceInv

-----------------------------------------------------------------------------
(* What a key holds is there                                               *)

LEMMA HeldIsReserved ==
    ASSUME IsFiniteSet(Keys), OnceInv, NEW k \in Keys, NEW v \in Variants
    PROVE  ledger[k][v] <= reserved[v]
<1>1. /\ ledger \in [Keys -> [Variants -> Int]] /\ reserved[v] = HeldBy(ledger, v)
      /\ \A j \in Keys : ledger[j][v] \in Nat
  BY OnceTypes DEF OnceInv, LedgerIInv, KeyOK
<1>2. PICK T : Adds(T, Keys, Column(ledger, v)) /\ HeldBy(ledger, v) = T[Keys]
  BY <1>1, LedgerSums
<1>3. \A j \in Keys : Column(ledger, v)[j] = ledger[j][v]
  BY DEF Column
<1>4. Column(ledger, v)[k] <= T[Keys]
  BY <1>1, <1>2, <1>3, SumCovers
<1>. QED  BY <1>1, <1>2, <1>3, <1>4

(* So a delivery or a release of exactly what the key holds succeeds.      *)
LEMMA OwnStockMoves ==
    ASSUME IsFiniteSet(Keys), OnceInv, NEW op \in {"release", "fulfil"},
           NEW k \in Keys, NEW lines \in Lines, Exactly(k, lines)
    PROVE  Answer(op, k, lines) = "done"
<1>1. lines \in [Variants -> Nat] /\ Wanted(lines) \subseteq listed /\ Wanted(lines) # {}
  BY LinesAreOrders DEF OnceInv, Wanted
<1>2. \A v \in Variants : reserved[v] >= lines[v] /\ stock[v] >= lines[v]
  <2>. TAKE v \in Variants
  <2>1. /\ lines[v] \in Nat /\ reserved[v] \in Nat /\ stock[v] \in Nat
        /\ reserved[v] <= stock[v] /\ ledger[k][v] = lines[v]
    BY <1>1 DEF OnceInv, IInv, InventoryIInv, InventoryTypeOK, StockCovered, Exactly
  <2>. QED  BY <2>1, HeldIsReserved
<1>3. RowsAllow(op, lines)
  BY <1>2 DEF RowsAllow, CanRelease, CanFulfil, Wanted
<1>4. Held(k) = Wanted(lines) /\ Matches(k, lines)
  BY DEF Exactly, Held, Wanted, Matches
<1>5. KeyVerdict(op, k, lines) = "proceed"
  BY <1>1, <1>4 DEF KeyVerdict
<1>. QED  BY <1>1, <1>3, <1>5 DEF Answer

(* The first reservation of a key moves its lines or nothing.              *)
LEMMA FirstReservation ==
    ASSUME OnceInv, NEW k, NEW lines, k \notin history
    PROVE  Answer("reserve", k, lines) \in {"done", "unavailable", "notFound"}
BY DEF Answer, KeyVerdict

LEMMA MovementOfKey ==
    ASSUME OnceInv, NEW k \in Keys, NEW change \in [Variants -> Int],
           InsertMovements(k, change)
    PROVE  /\ \A v \in Variants : ledger'[k][v] = ledger[k][v] + change[v]
           /\ \A j \in Keys \ {k} : ledger'[j] = ledger[j] /\ (j \in history' <=> j \in history)
BY OnceTypes DEF OnceInv, InsertMovements

LEMMA GivenBack ==
    ASSUME OnceInv, NEW k \in Keys, NEW lines \in Lines, Exactly(k, lines),
           InsertMovements(k, Negated(lines))
    PROVE  HoldsNothing(k)' /\ \A v \in Variants : ledger'[k][v] >= 0
<1>1. lines \in [Variants -> Nat] /\ Negated(lines) \in [Variants -> Int]
  BY LinesAreOrders DEF Negated
<1>2. \A v \in Variants : ledger'[k][v] = lines[v] + (-lines[v])
  BY <1>1, MovementOfKey DEF Exactly, Negated
<1>3. \A v \in Variants : ledger'[k][v] = 0
  BY <1>1, <1>2
<1>. QED  BY <1>3 DEF HoldsNothing

LEMMA SameRowIsCalm ==
    ASSUME NEW o, orders'[o] = orders[o], o \in fulfilled' <=> o \in fulfilled
    PROVE  Calm(o)
BY DEF Calm, Kept, Status, Open

LEMMA StoredIsKept ==
    ASSUME OnceInv, NEW k \in Keys, \A o \in Orders : Kept(o)
    PROVE  StoredUnder(k)'
BY DEF OnceInv, KeyOK, StoredUnder, Stored, Kept, Status, NewOrder

-----------------------------------------------------------------------------
(* The submission                                                          *)

(* A submission leaves the orders alone until it inserts them.             *)
LEMMA SubmissionStep ==
    ASSUME OneCartPerKey, IsFiniteSet(Keys), OnceInv, [Next]_vars, FaultsRemain,
           NEW k \in Keys, NEW h \in Handlers, SubmitsUnder(h, k),
           UNCHANGED <<orders, fulfilled, attempts>>,
           \A g \in Handlers \ {h} : handlers'[g] = handlers[g],
           \A j \in Keys \ {k} : ledger'[j] = ledger[j] /\ (j \in history' <=> j \in history),
           \A v \in Variants : ledger'[k][v] >= 0,
           ~Claims(h)', Submitting(h)' => SubmitsUnder(h, k)' /\ SubmitKnows(h)',
           HoldsNothing(k)' \/ Submitting(h)' \/ faults' # 0
    PROVE  OnceInv'
<1>1. /\ SubmitKnows(h) /\ NoOrders(k) /\ handlers[h].sub \in Submissions
      /\ \A g \in Handlers \ {h} : ~WorksOn(g, k)
  BY SubmitterAlone
<1>2. \A j \in Keys \ {k} : ~WorksOn(h, j) /\ ~WorksOn(h, j)'
  BY DEF WorksOn, SubmitsUnder, ClaimsUnder, Submitting, Claims, Completing, Releasing
<1>3. \A j \in Keys \ {k} : SameTables(j)
  BY SameRowIsCalm DEF SameTables
<1>4. \A sub \in Submissions : sub.key = k => attempts'[sub] # 0
  BY <1>1 DEF OneCartPerKey, OnceInv, KeyOK, SubmitsUnder
<1>5. NoOrders(k)'
  BY <1>1 DEF NoOrders, Status
<1>6. StoredUnder(k)' /\ OpenHolds(k)' /\ CompletedUnder(k)'
  BY <1>5 DEF NoOrders, StoredUnder, OpenHolds, CompletedUnder, Open
<1>7. HoldsNothing(k)' \/ SubmitsUnder(h, k)' => HasOwner(k)'
  BY DEF HasOwner, WorksOn
<1>. QED
  BY <1>1, <1>2, <1>3, <1>4, <1>6, <1>7, KeyStep DEF SubmitsUnder, ClaimsUnder

LEMMA NoFaults ==
    ASSUME IInv, UNCHANGED <<faults, crashes>>
    PROVE  FaultsRemain
BY OnceTypes DEF FaultsRemain

(* The calls of a submission under its own key.                            *)
LEMMA SubmitterKey ==
    ASSUME OnceInv, NEW h \in Handlers, Submitting(h)
    PROVE  LET k == handlers[h].sub.key IN
           /\ k \in Keys /\ SubmitsUnder(h, k) /\ SubmitKnows(h)
           /\ handlers[h].sub \in Submissions /\ NoOrders(k)
           /\ \A v \in Variants : ledger[k][v] >= 0 /\ ledger[k][v] \in Int
<1>1. handlers[h].sub \in Submissions
  BY DEF OnceInv, IInv, CallKnows
<1>2. handlers[h].sub.key \in Keys /\ SubmitsUnder(h, handlers[h].sub.key)
  BY <1>1, OnceTypes DEF OnceInv, SubmitsUnder
<1>. QED  BY <1>1, <1>2, SubmitterAlone, OnceTypes DEF OnceInv, KeyOK

LEMMA CheckOnce ==
    ASSUME OneCartPerKey, IsFiniteSet(Keys), OnceInv, [Next]_vars,
           NEW h \in Handlers, CheckItems(h)
    PROVE  OnceInv'
<1>0. handlers \in [Handlers -> Handler] /\ FaultsRemain /\ Submitting(h)
  BY OnceTypes, NoFaults DEF OnceInv, CheckItems, At, Submitting
<1>1. PICK sub \in Submissions, k \in Keys :
          /\ handlers[h].sub = sub /\ sub.key = k
          /\ SubmitsUnder(h, k) /\ SubmitKnows(h) /\ NoOrders(k)
          /\ \A v \in Variants : ledger[k][v] >= 0
  BY <1>0, SubmitterKey
<1>2. HoldsNothing(k) /\ k \notin history /\ handlers[h].at = "check" /\ ~handlers[h].reserved
  BY <1>1 DEF SubmitKnows, CheckItems, At, OnceInv, IInv, CallKnows
<1>3. UNCHANGED <<ledger, history, orders, fulfilled, attempts>>
  BY DEF CheckItems, inventoryVars
<1>4. HoldsNothing(k)' /\ NoOrders(k)'
  BY <1>1, <1>2, <1>3 DEF HoldsNothing, NoOrders, Status
<1>5. CASE Finish(h)
  <2>1. /\ \A g \in Handlers \ {h} : handlers'[g] = handlers[g]
        /\ ~Submitting(h)' /\ ~Claims(h)'
    BY <1>0, <1>5, FinishStep DEF Claims, Finish, Idle, Submitting
  <2>. QED  BY <1>0, <1>1, <1>3, <1>4, <2>1, SubmissionStep
<1>6. ASSUME NEW at \in {"insert", "reserve"}, Goto(h, at),
             at = "insert" => Wanted(handlers[h].sub.lines) = {}
      PROVE  OnceInv'
  <2>1. /\ \A g \in Handlers \ {h} : handlers'[g] = handlers[g]
        /\ handlers'[h].at = at /\ handlers'[h].sub = sub
        /\ handlers'[h].reserved = handlers[h].reserved
    BY <1>0, <1>1, <1>6, GotoStep DEF CallStates
  <2>2. ~Claims(h)' /\ SubmitsUnder(h, k)'
    BY <1>1, <2>1 DEF Claims, Completing, Releasing, SubmitsUnder, Submitting
  <2>3. history' = history /\ Wanted(sub.lines)' = Wanted(sub.lines)
    BY <1>3 DEF Wanted
  <2>4. SubmitKnows(h)'
    BY <1>1, <1>2, <1>4, <1>6, <2>1, <2>3 DEF SubmitKnows, WithoutStock, HoldsLines
  <2>. QED  BY <1>0, <1>1, <1>3, <1>4, <2>1, <2>2, <2>4, SubmissionStep
<1>. QED  BY <1>5, <1>6 DEF CheckItems

LEMMA ReserveOnce ==
    ASSUME OneCartPerKey, IsFiniteSet(Keys), OnceInv, [Next]_vars,
           NEW h \in Handlers, Reserve(h)
    PROVE  OnceInv'
<1>0. handlers \in [Handlers -> Handler] /\ FaultsRemain /\ Submitting(h)
  BY OnceTypes, NoFaults DEF OnceInv, Reserve, At, Submitting
<1>1. PICK sub \in Submissions, k \in Keys :
          /\ handlers[h].sub = sub /\ sub.key = k
          /\ SubmitsUnder(h, k) /\ SubmitKnows(h) /\ NoOrders(k)
          /\ \A v \in Variants : ledger[k][v] >= 0
  BY <1>0, SubmitterKey
<1>2. HoldsNothing(k) /\ k \notin history /\ handlers[h].at = "reserve"
      /\ sub.lines \in Lines
  BY <1>1, SubmissionLines
  DEF SubmitKnows, Reserve, At, OnceInv, IInv, CallKnows, HoldsLines
<1>3. UNCHANGED <<orders, fulfilled, attempts>> /\ NoOrders(k)'
  BY <1>1 DEF Reserve, NoOrders, Status
<1>4. CASE UNCHANGED inventoryVars /\ Finish(h)
  <2>1. /\ \A g \in Handlers \ {h} : handlers'[g] = handlers[g]
        /\ ~Submitting(h)' /\ ~Claims(h)'
    BY <1>0, <1>4, FinishStep DEF Claims, Finish, Idle, Submitting
  <2>2. ledger' = ledger /\ history' = history /\ HoldsNothing(k)'
    BY <1>2, <1>4 DEF inventoryVars, HoldsNothing
  <2>. QED  BY <1>0, <1>1, <1>3, <2>1, <2>2, SubmissionStep
<1>5. CASE /\ ReserveStock(k, sub.lines)
           /\ handlers' = [handlers EXCEPT ![h].at = "insert", ![h].reserved = TRUE]
  <2>1. /\ \A g \in Handlers \ {h} : handlers'[g] = handlers[g]
        /\ handlers'[h].at = "insert" /\ handlers'[h].sub = sub
        /\ handlers'[h].reserved = TRUE
    BY <1>0, <1>1, <1>5 DEF Handler
  <2>2. sub.lines \in [Variants -> Int] /\ \A v \in Variants : sub.lines[v] \in Nat
    BY <1>2, LinesAreQuantities
  <2>3. /\ \A v \in Variants : ledger'[k][v] = ledger[k][v] + sub.lines[v]
        /\ \A j \in Keys \ {k} : ledger'[j] = ledger[j] /\ (j \in history' <=> j \in history)
    BY <1>1, <1>5, <2>2, MovementOfKey DEF ReserveStock
  <2>4. Exactly(k, sub.lines)' /\ \A v \in Variants : ledger'[k][v] >= 0
    <3>1. \A v \in Variants : ledger'[k][v] = sub.lines[v]
      BY <1>2, <2>2, <2>3 DEF HoldsNothing
    <3>. QED  BY <2>2, <3>1 DEF Exactly
  <2>5. ~Claims(h)' /\ Submitting(h)' /\ SubmitsUnder(h, k)' /\ SubmitKnows(h)'
    BY <1>1, <1>3, <2>1, <2>4
    DEF Claims, Completing, Releasing, SubmitsUnder, Submitting, SubmitKnows,
        WithoutStock, HoldsLines
  <2>. QED  BY <1>0, <1>1, <1>3, <2>1, <2>3, <2>4, <2>5, SubmissionStep
<1>. QED
  BY <1>1, <1>2, <1>4, <1>5, FirstReservation DEF Reserve

LEMMA UndoOnce ==
    ASSUME OneCartPerKey, IsFiniteSet(Keys), OnceInv, [Next]_vars,
           NEW h \in Handlers, UndoReservation(h)
    PROVE  OnceInv'
<1>0. handlers \in [Handlers -> Handler] /\ FaultsRemain /\ Submitting(h)
  BY OnceTypes, NoFaults DEF OnceInv, UndoReservation, Submitting
<1>1. PICK sub \in Submissions, k \in Keys :
          /\ handlers[h].sub = sub /\ sub.key = k
          /\ SubmitsUnder(h, k) /\ SubmitKnows(h) /\ NoOrders(k)
          /\ \A v \in Variants : ledger[k][v] >= 0
  BY <1>0, SubmitterKey
<1>2. handlers[h].at = "undoFailure" /\ Exactly(k, sub.lines) /\ faults # 0
  BY <1>1 DEF SubmitKnows, UndoReservation, HoldsLines
<1>3. sub.lines \in Lines
  BY <1>1, <1>2, SubmissionLines DEF OnceInv, IInv, CallKnows, HoldsLines
<1>4. UNCHANGED <<orders, fulfilled, attempts, faults>> /\ Finish(h)
  BY <1>2 DEF UndoReservation, At
<1>5. /\ \A g \in Handlers \ {h} : handlers'[g] = handlers[g]
      /\ ~Submitting(h)' /\ ~Claims(h)'
  BY <1>0, <1>4, FinishStep DEF Claims, Finish, Idle, Submitting
<1>6. /\ \A j \in Keys \ {k} : ledger'[j] = ledger[j] /\ (j \in history' <=> j \in history)
      /\ \A v \in Variants : ledger'[k][v] >= 0
  <2>1. CASE UNCHANGED inventoryVars
    BY <1>1, <2>1 DEF inventoryVars
  <2>2. CASE ReleaseStock(k, sub.lines)
    <3>1. Negated(sub.lines) \in [Variants -> Int]
      BY <1>3, LinesAreQuantities DEF Negated
    <3>. QED  BY <1>1, <1>2, <1>3, <2>2, <3>1, MovementOfKey, GivenBack DEF ReleaseStock
  <2>. QED  BY <1>1, <2>1, <2>2 DEF UndoReservation
<1>. QED  BY <1>0, <1>1, <1>2, <1>4, <1>5, <1>6, SubmissionStep

LEMMA SubmitOnce ==
    ASSUME OneCartPerKey, MaxAttempts <= 1, IsFiniteSet(Keys), OnceInv, [Next]_vars,
           NEW h \in Handlers, NEW sub \in Submissions, Submit(h, sub)
    PROVE  OnceInv'
<1>0. handlers \in [Handlers -> Handler] /\ FaultsRemain /\ attempts[sub] = 0
      /\ attempts'[sub] # 0
  <2>1. attempts \in [Submissions -> 0..MaxAttempts] /\ MaxAttempts \in Nat
    BY OnceTypes, BoundsAreNat DEF OnceInv
  <2>2. handlers \in [Handlers -> Handler] /\ FaultsRemain
    BY OnceTypes, NoFaults DEF OnceInv, Submit
  <2>3. attempts[sub] = 0 /\ attempts'[sub] = 1
    BY <2>1 DEF Submit
  <2>. QED  BY <2>2, <2>3
<1>1. PICK k \in Keys : sub.key = k
  BY OnceTypes DEF OnceInv
<1>2. NoOrders(k) /\ HoldsNothing(k) /\ k \notin history
      /\ \A v \in Variants : ledger[k][v] >= 0
  BY <1>0, <1>1 DEF OnceInv, KeyOK, Unsent
<1>3. UNCHANGED <<ledger, history, orders, fulfilled>>
      /\ handlers' = [handlers EXCEPT ![h] = [Idle EXCEPT !.at = "check", !.sub = sub]]
  BY <1>1, <1>2 DEF Submit, inventoryVars, KnownOrders, NoOrders, KeyOf
<1>4. NoOrders(k)' /\ HoldsNothing(k)'
  BY <1>2, <1>3 DEF NoOrders, HoldsNothing, Status
<1>5. /\ handlers'[h].at = "check" /\ handlers'[h].sub = sub
      /\ \A g \in Handlers \ {h} : handlers'[g] = handlers[g]
  BY <1>0, <1>3 DEF Idle
<1>6. \A s \in Submissions : s.key = k => s = sub
  BY <1>1 DEF OneCartPerKey
<1>7. \A g \in Handlers : ~WorksOn(g, k)
  <2>1. \A g \in Handlers : ~SubmitsUnder(g, k)
    BY <1>0, <1>6, SubmitterAlone DEF OnceInv, KeyOK, SubmitsUnder
  <2>2. \A g \in Handlers : ~ClaimsUnder(g, k)
    BY <1>2, ClaimIsKnown DEF OnceInv, ClaimsUnder, NoOrders
  <2>. QED  BY <2>1, <2>2 DEF WorksOn
<1>8. \A j \in Keys \ {k} : ~WorksOn(h, j) /\ ~WorksOn(h, j)'
  BY <1>1, <1>5
  DEF Submit, At, WorksOn, SubmitsUnder, ClaimsUnder, Submitting, Claims, Completing, Releasing
<1>9. \A j \in Keys \ {k} : SameTables(j)
  <2>1. \A s \in Submissions \ {sub} : attempts'[s] = attempts[s]
    BY OnceTypes DEF OnceInv, Submit
  <2>. QED  BY <1>1, <1>3, <2>1, SameRowIsCalm DEF SameTables
<1>10. SubmitsUnder(h, k)' /\ ~ClaimsUnder(h, k)' /\ SubmitKnows(h)'
  BY <1>1, <1>2, <1>3, <1>4, <1>5
  DEF SubmitsUnder, ClaimsUnder, Submitting, Claims, Completing, Releasing, SubmitKnows,
      WithoutStock, HoldsLines
<1>11. StoredUnder(k)' /\ OpenHolds(k)' /\ CompletedUnder(k)' /\ HasOwner(k)'
  BY <1>4 DEF NoOrders, StoredUnder, OpenHolds, CompletedUnder, Open, HasOwner
<1>12. \A v \in Variants : ledger'[k][v] >= 0
  BY <1>2, <1>3
<1>13. \A s \in Submissions : s.key = k => attempts'[s] # 0
  BY <1>0, <1>6
<1>. QED
  BY <1>0, <1>5, <1>7, <1>8, <1>9, <1>10, <1>11, <1>12, <1>13, KeyStep

LEMMA InsertOnce ==
    ASSUME OneCartPerKey, IsFiniteSet(Keys), OnceInv, [Next]_vars,
           NEW h \in Handlers, InsertOrders(h)
    PROVE  OnceInv'
<1>0. handlers \in [Handlers -> Handler] /\ FaultsRemain /\ Submitting(h)
  BY OnceTypes, NoFaults DEF OnceInv, InsertOrders, At, Submitting
<1>1. PICK sub \in Submissions, k \in Keys :
          /\ handlers[h].sub = sub /\ sub.key = k
          /\ SubmitsUnder(h, k) /\ SubmitKnows(h) /\ NoOrders(k)
          /\ \A v \in Variants : ledger[k][v] >= 0
  BY <1>0, SubmitterKey
<1>2. UNCHANGED <<ledger, history, fulfilled, attempts>> /\ handlers[h].at = "insert"
      /\ Finish(h)
  BY DEF InsertOrders, inventoryVars, At
<1>3. /\ \A g \in Handlers \ {h} : handlers'[g] = handlers[g]
      /\ ~Submitting(h)' /\ ~Claims(h)'
  BY <1>0, <1>2, FinishStep DEF Claims, Finish, Idle, Submitting
<1>4. \A o \in Orders : orders'[o] = IF o \in OrdersOf(sub) THEN NewOrder(sub, o) ELSE orders[o]
  BY <1>1 DEF InsertOrders
<1>5. OrdersOf(sub) \subseteq Orders /\ \A o \in OrdersOf(sub) : KeyOf(o) = k
  BY <1>1, OrdersOfCart DEF KeyOf
<1>6. \A o \in Orders : KeyOf(o) = k /\ Status(o)' # "none"
          => o \in OrdersOf(sub) /\ orders'[o] = NewOrder(sub, o)
  BY <1>1, <1>4 DEF NoOrders, Status
<1>7. StoredUnder(k)'
  BY <1>6 DEF StoredUnder, Stored, NewOrder
<1>8. \A o \in Orders : NewOrder(sub, o).status = "NEW"
          /\ NewOrder(sub, o).lines = IF UnitOf(o) = Butik THEN sub.lines ELSE NoLines
  BY DEF NewOrder
<1>9. CompletedUnder(k)'
  BY <1>6, <1>8 DEF CompletedUnder, Status
<1>10. ASSUME WithoutStock(h) PROVE OpenHolds(k)' /\ HasOwner(k)'
  <2>1. Wanted(sub.lines) = {} /\ HoldsNothing(k)
    BY <1>1, <1>10 DEF SubmitKnows
  <2>2. \A o \in Orders : KeyOf(o) = k /\ Status(o)' # "none" => ~HasStock(o)'
    BY <1>6, <1>8, <2>1 DEF HasStock, Wanted, NoLines
  <2>3. OpenHolds(k)' /\ HasOwner(k)'
    BY <1>2, <2>1, <2>2 DEF OpenHolds, HasOwner, HoldsNothing, Open
  <2>. QED  BY <2>3
<1>11. ASSUME ~WithoutStock(h) PROVE OpenHolds(k)' /\ HasOwner(k)'
  <2>1. Exactly(k, sub.lines) /\ Wanted(sub.lines) # {}
    BY <1>1, <1>2, <1>11
    DEF SubmitKnows, WithoutStock, HoldsLines, OnceInv, IInv, CallKnows
  <2>2. OpenHolds(k)'
    <3>. SUFFICES ASSUME NEW o \in Orders, KeyOf(o) = k, Open(o)', HasStock(o)'
                  PROVE  Exactly(k, orders[o].lines)'
      BY DEF OpenHolds
    <3>1. orders'[o].lines = sub.lines
      BY <1>6, <1>8 DEF Open, HasStock, Wanted, NoLines
    <3>. QED  BY <1>2, <2>1, <3>1 DEF Exactly
  <2>3. HasOwner(k)'
    <3>. DEFINE b == <<sub.stay, sub.key, Butik>>
    <3>1. b \in OrdersOf(sub) /\ UnitOf(b) = Butik
      BY <2>1 DEF OrdersOf, UnitsOf, UnitOf
    <3>2. b \in Orders /\ KeyOf(b) = k /\ orders'[b] = NewOrder(sub, b)
      BY <1>4, <1>5, <3>1
    <3>3. Open(b)' /\ HasStock(b)'
      BY <1>8, <2>1, <3>1, <3>2 DEF Open, Status, HasStock, Wanted
    <3>. QED  BY <3>2, <3>3 DEF HasOwner
  <2>. QED  BY <2>2, <2>3
<1>12. OpenHolds(k)' /\ HasOwner(k)'
  BY <1>10, <1>11
<1>13. \A j \in Keys \ {k} : SameTables(j) /\ ~WorksOn(h, j) /\ ~WorksOn(h, j)'
  <2>1. \A j \in Keys \ {k} : ~WorksOn(h, j) /\ ~WorksOn(h, j)'
    BY <1>1, <1>2, <1>3
    DEF WorksOn, SubmitsUnder, ClaimsUnder, Claims, Completing, Releasing
  <2>2. \A o \in Orders : KeyOf(o) # k => orders'[o] = orders[o]
    BY <1>4, <1>5
  <2>3. \A o \in Orders : KeyOf(o) # k => Calm(o)
    BY <1>2, <2>2, SameRowIsCalm
  <2>. QED  BY <1>2, <2>1, <2>3 DEF SameTables
<1>14. \A s \in Submissions : s.key = k => attempts'[s] # 0
  BY <1>1, <1>2 DEF OneCartPerKey, OnceInv, KeyOK, SubmitsUnder
<1>15. ~SubmitsUnder(h, k)' /\ ~ClaimsUnder(h, k)'
       /\ \A g \in Handlers \ {h} : ~WorksOn(g, k)
  BY <1>1, <1>3, SubmitterAlone DEF SubmitsUnder, ClaimsUnder
<1>16. \A v \in Variants : ledger'[k][v] >= 0
  BY <1>1, <1>2
<1>. QED
  BY <1>0, <1>3, <1>7, <1>9, <1>12, <1>13, <1>14, <1>15, <1>16, KeyStep

LEMMA InsertIsNeverRefused ==
    ASSUME OnceInv, NEW h \in Handlers
    PROVE  ~InsertRefused(h) /\ ~LookAgain(h)
<1>1. ASSUME LookAgain(h) PROVE FALSE
  BY <1>1, SubmitterKey DEF LookAgain, At, Submitting, SubmitKnows
<1>2. ASSUME InsertRefused(h) PROVE FALSE
  <2>1. Submitting(h)
    BY <1>2 DEF InsertRefused, At, Submitting
  <2>2. handlers[h].sub \in Submissions /\ NoOrders(handlers[h].sub.key)
    BY <2>1, SubmitterKey
  <2>3. \A o \in OrdersOf(handlers[h].sub) : o \in Orders /\ KeyOf(o) = handlers[h].sub.key
    BY <2>2, OrdersOfCart DEF KeyOf
  <2>. QED  BY <1>2, <2>2, <2>3 DEF InsertRefused, NoOrders
<1>. QED  BY <1>1, <1>2

-----------------------------------------------------------------------------
(* The staff and the worker                                                *)

(* A step of the one call that works on an order with stock.               *)
LEMMA StockOrderStep ==
    ASSUME OneCartPerKey, IsFiniteSet(Keys), OnceInv, [Next]_vars, FaultsRemain,
           NEW o \in Orders, HasStock(o), Status(o) # "none",
           NEW k \in Keys, k = KeyOf(o), NEW h \in Handlers,
           \A g \in Handlers \ {h} : handlers'[g] = handlers[g] /\ ~WorksOn(g, k),
           ~Submitting(h), ~Submitting(h)', Claims(h) => handlers[h].order = o,
           Claims(h)' => handlers'[h].order = o /\ ClaimHolds(h)',
           UNCHANGED attempts,
           \A p \in Orders \ {o} : orders'[p] = orders[p] /\ (p \in fulfilled' <=> p \in fulfilled),
           orders'[o].lines = orders[o].lines, Status(o)' # "none",
           \A j \in Keys \ {k} : ledger'[j] = ledger[j] /\ (j \in history' <=> j \in history),
           \A v \in Variants : ledger'[k][v] >= 0,
           Open(o)' => Exactly(k, orders[o].lines)',
           HoldsNothing(k)' \/ Open(o)' \/ Claims(h)' \/ faults' # 0,
           Status(o)' = "COMPLETED" => o \in fulfilled' \/ Completing(h)' \/ faults' > 1
    PROVE  OnceInv'
<1>1. \A sub \in Submissions : sub.key = k => attempts'[sub] # 0
  BY StockOrderAlone
<1>2. \A j \in Keys \ {k} : ~WorksOn(h, j) /\ ~WorksOn(h, j)'
  BY DEF WorksOn, SubmitsUnder, ClaimsUnder
<1>3. \A j \in Keys \ {k} : SameTables(j)
  BY SameRowIsCalm DEF SameTables
<1>4. StoredUnder(k)'
  <2>1. \A p \in Orders : Kept(p)
    BY DEF Kept, Status
  <2>. QED  BY <2>1, StoredIsKept
<1>5. HasStock(o)' /\ ~SubmitsUnder(h, k)'
  BY DEF HasStock, Wanted, SubmitsUnder
<1>6. ASSUME NEW p \in Orders, KeyOf(p) = k, HasStock(p)', Status(p)' # "none"
      PROVE  p = o
  <2>. SUFFICES ASSUME p # o PROVE FALSE
    OBVIOUS
  <2>1. HasStock(p) /\ Status(p) # "none"
    BY <1>6 DEF HasStock, Wanted, Status
  <2>. QED  BY <1>6, <2>1, OneStockOrder
<1>7. OpenHolds(k)'
  <2>. SUFFICES ASSUME NEW p \in Orders, KeyOf(p) = k, Open(p)', HasStock(p)'
                PROVE  Exactly(k, orders[p].lines)'
    BY DEF OpenHolds
  <2>1. p = o
    BY <1>6 DEF Open
  <2>. QED  BY <2>1 DEF Exactly
<1>8. faults' = 0 /\ crashes' = 0 => HasOwner(k)'
  BY <1>5 DEF HasOwner, WorksOn, ClaimsUnder
<1>9. faults' <= 1 /\ crashes' = 0 => CompletedUnder(k)'
  <2>. SUFFICES ASSUME faults' <= 1, NEW p \in Orders, KeyOf(p) = k, HasStock(p)',
                       Status(p)' = "COMPLETED", p \notin fulfilled'
                PROVE  Completing(h)' /\ handlers'[h].order = p
    BY DEF CompletedUnder
  <2>1. p = o
    BY <1>6
  <2>2. faults' \in Nat
    BY OnceTables DEF IInv, TypeOK
  <2>. QED  BY <2>1, <2>2 DEF Claims
<1>. QED
  BY <1>1, <1>2, <1>3, <1>4, <1>5, <1>7, <1>8, <1>9, KeyStep DEF ClaimsUnder

(* Only the row of o changes, and keeps its lines.                         *)
LEMMA TransitionRows ==
    ASSUME IInv, NEW o \in Orders, NEW expected, NEW next, Transition(o, expected, next)
    PROVE  /\ \A p \in Orders \ {o} : orders'[p] = orders[p]
           /\ orders'[o].lines = orders[o].lines /\ Status(o)' = next /\ Status(o) = expected
BY OnceTypes DEF Transition, OrderRow, Status

(* The invariant does not ask about an order without stock, nor whether an *)
(* open one has been confirmed.                                            *)
LEMMA CalmTransition ==
    ASSUME IInv, NEW o \in Orders, NEW expected, NEW next \in Statuses,
           expected # "none", Transition(o, expected, next), UNCHANGED fulfilled,
           HasStock(o) => expected = "NEW" /\ next = "IN_PROCESS"
    PROVE  \A p \in Orders : Calm(p)
<1>1. \A p \in Orders \ {o} : Calm(p)
  BY TransitionRows, SameRowIsCalm
<1>2. Calm(o)
  BY TransitionRows, TransitionKeeps DEF Calm, Open
<1>. QED  BY <1>1, <1>2

LEMMA CalmStep ==
    ASSUME IsFiniteSet(Keys), OnceInv, [Next]_vars, FaultsRemain,
           UNCHANGED <<ledger, history, attempts>>, \A o \in Orders : Calm(o),
           \A h \in Handlers : \/ handlers'[h] = handlers[h]
                               \/ ~Submitting(h) /\ ~Claims(h) /\ ~Submitting(h)' /\ ~Claims(h)'
    PROVE  OnceInv'
BY NoKeyStep DEF SameTables, SameCalls, WorksOn, SubmitsUnder, ClaimsUnder

LEMMA ConfirmOnce ==
    ASSUME IsFiniteSet(Keys), OnceInv, [Next]_vars, NEW o \in Orders, Confirm(o)
    PROVE  OnceInv'
<1>1. IInv /\ FaultsRemain /\ UNCHANGED <<ledger, history, attempts, handlers>>
  BY NoFaults DEF OnceInv, Confirm, inventoryVars
<1>2. \A p \in Orders : Calm(p)
  BY <1>1, CalmTransition DEF Confirm, Statuses
<1>. QED  BY <1>1, <1>2, CalmStep

LEMMA ClaimCompletionOnce ==
    ASSUME OneCartPerKey, IsFiniteSet(Keys), OnceInv, [Next]_vars,
           NEW h \in Handlers, NEW o \in Orders, ClaimCompletion(h, o)
    PROVE  OnceInv'
<1>1. /\ IInv /\ FaultsRemain /\ UNCHANGED <<ledger, history, attempts, fulfilled>>
      /\ Transition(o, "IN_PROCESS", "COMPLETED") /\ handlers \in [Handlers -> Handler]
  BY NoFaults, OnceTypes DEF OnceInv, ClaimCompletion, inventoryVars
<1>2. CASE ~HasStock(o)
  <2>1. \A p \in Orders : Calm(p)
    BY <1>1, <1>2, CalmTransition DEF Statuses
  <2>2. UNCHANGED handlers
    BY <1>2 DEF ClaimCompletion
  <2>. QED  BY <1>1, <2>1, <2>2, CalmStep
<1>3. CASE HasStock(o)
  <2>1. handlers' = [handlers EXCEPT ![h] = [Idle EXCEPT !.at = "fulfil", !.order = o]]
    BY <1>3 DEF ClaimCompletion
  <2>2. /\ handlers'[h].at = "fulfil" /\ handlers'[h].order = o
        /\ \A g \in Handlers \ {h} : handlers'[g] = handlers[g]
    BY <1>1, <2>1 DEF Idle
  <2>3. PICK k \in Keys : k = KeyOf(o)
    BY <1>1, OnceTypes
  <2>4. Open(o) /\ Status(o)' = "COMPLETED" /\ orders'[o].lines = orders[o].lines
        /\ \A p \in Orders \ {o} : orders'[p] = orders[p]
    BY <1>1, TransitionRows DEF Open
  <2>5. Exactly(k, orders[o].lines) /\ \A g \in Handlers : ~WorksOn(g, k)
    BY <1>3, <2>3, <2>4, OpenAlone
  <2>6. Completing(h)' /\ Claims(h)' /\ ~Submitting(h)' /\ ~Submitting(h) /\ ~Claims(h)
    BY <2>2 DEF ClaimCompletion, At, Submitting, Claims, Completing, Releasing
  <2>7. ClaimHolds(h)'
    BY <1>1, <2>2, <2>3, <2>4, <2>5 DEF ClaimHolds, Exactly
  <2>8. \A v \in Variants : ledger'[k][v] >= 0
    BY <1>1 DEF OnceInv, KeyOK
  <2>9. ~Open(o)' /\ Status(o) # "none"
    BY <2>4 DEF Open
  <2>. QED
    BY <1>1, <1>3, <2>2, <2>3, <2>4, <2>5, <2>6, <2>7, <2>8, <2>9, StockOrderStep
<1>. QED  BY <1>2, <1>3

(* The order of a claim, with what its call relies on.                     *)
LEMMA ClaimedOrder ==
    ASSUME OneCartPerKey, OnceInv, NEW h \in Handlers, Claims(h)
    PROVE  \E o \in Orders, k \in Keys :
              /\ handlers[h].order = o /\ KeyOf(o) = k
              /\ HasStock(o) /\ orders[o].lines \in Lines
              /\ Status(o) \in {"COMPLETED", "CANCELLED"}
              /\ ClaimHolds(h) /\ Exactly(k, orders[o].lines) /\ ~Submitting(h)
              /\ \A g \in Handlers \ {h} : ~WorksOn(g, k)
              /\ \A v \in Variants : ledger[k][v] >= 0
BY ClaimIsKnown, ClaimerAlone
DEF OnceInv, KeyOK, Claims, Completing, Releasing, Submitting

LEMMA FulfilOnce ==
    ASSUME OneCartPerKey, IsFiniteSet(Keys), OnceInv, [Next]_vars,
           NEW h \in Handlers, Fulfil(h)
    PROVE  OnceInv'
<1>1. /\ handlers \in [Handlers -> Handler] /\ FaultsRemain /\ Completing(h) /\ Claims(h)
      /\ UNCHANGED <<orders, attempts>>
  BY NoFaults, OnceTypes DEF OnceInv, Fulfil, At, Claims, Completing
<1>2. PICK o \in Orders, k \in Keys :
          /\ handlers[h].order = o /\ KeyOf(o) = k
          /\ HasStock(o) /\ orders[o].lines \in Lines
          /\ Status(o) \in {"COMPLETED", "CANCELLED"}
          /\ ClaimHolds(h) /\ Exactly(k, orders[o].lines) /\ ~Submitting(h)
          /\ \A g \in Handlers \ {h} : ~WorksOn(g, k)
  BY <1>1, ClaimedOrder
<1>3. FulfilStock(k, orders[o].lines) /\ fulfilled' = fulfilled \cup {o} /\ Finish(h)
  BY <1>2, OwnStockMoves DEF Fulfil
<1>4. HoldsNothing(k)' /\ \A v \in Variants : ledger'[k][v] >= 0
  BY <1>2, <1>3, GivenBack DEF FulfilStock
<1>5. \A j \in Keys \ {k} : ledger'[j] = ledger[j] /\ (j \in history' <=> j \in history)
  <2>1. Negated(orders[o].lines) \in [Variants -> Int]
    BY <1>2, LinesAreQuantities DEF Negated
  <2>. QED  BY <1>3, <2>1, MovementOfKey DEF FulfilStock
<1>6. /\ \A g \in Handlers \ {h} : handlers'[g] = handlers[g]
      /\ ~Submitting(h)' /\ ~Claims(h)'
  BY <1>1, <1>3, FinishStep DEF Claims, Finish, Idle, Submitting
<1>7. /\ \A p \in Orders \ {o} : orders'[p] = orders[p] /\ (p \in fulfilled' <=> p \in fulfilled)
      /\ orders'[o].lines = orders[o].lines /\ Status(o)' = Status(o)
      /\ o \in fulfilled' /\ ~Open(o)'
  BY <1>1, <1>2, <1>3 DEF Status, Open
<1>. QED
  BY <1>1, <1>2, <1>4, <1>5, <1>6, <1>7, StockOrderStep

LEMMA RevertOnce ==
    ASSUME OneCartPerKey, IsFiniteSet(Keys), OnceInv, [Next]_vars,
           NEW h \in Handlers, RevertCompletion(h)
    PROVE  OnceInv'
<1>1. /\ handlers \in [Handlers -> Handler] /\ orders \in [Orders -> OrderRow]
      /\ FaultsRemain /\ Completing(h) /\ Claims(h)
      /\ UNCHANGED <<ledger, history, fulfilled, attempts>> /\ Finish(h)
  BY NoFaults, OnceTypes
  DEF OnceInv, RevertCompletion, At, Claims, Completing, inventoryVars
<1>2. PICK o \in Orders, k \in Keys :
          /\ handlers[h].order = o /\ KeyOf(o) = k
          /\ HasStock(o) /\ orders[o].lines \in Lines
          /\ Status(o) \in {"COMPLETED", "CANCELLED"}
          /\ ClaimHolds(h) /\ Exactly(k, orders[o].lines) /\ ~Submitting(h)
          /\ \A g \in Handlers \ {h} : ~WorksOn(g, k)
          /\ \A v \in Variants : ledger[k][v] >= 0
  BY <1>1, ClaimedOrder
<1>3. Status(o) = "COMPLETED"
  BY <1>1, <1>2 DEF OnceInv, IInv, CallKnows
<1>4. orders' = [orders EXCEPT ![o].status = "IN_PROCESS", ![o].window = "null"]
  BY <1>2, <1>3 DEF RevertCompletion
<1>5. /\ \A p \in Orders \ {o} : orders'[p] = orders[p]
      /\ orders'[o].lines = orders[o].lines /\ Status(o)' = "IN_PROCESS"
  BY <1>1, <1>4 DEF OrderRow, Status
<1>6. /\ \A g \in Handlers \ {h} : handlers'[g] = handlers[g]
      /\ ~Submitting(h)' /\ ~Claims(h)'
  BY <1>1, FinishStep DEF Claims, Finish, Idle, Submitting
<1>7. Open(o)' /\ Exactly(k, orders[o].lines)'
  BY <1>1, <1>2, <1>5 DEF Open, Exactly
<1>. QED
  BY <1>1, <1>2, <1>5, <1>6, <1>7, StockOrderStep

LEMMA ContinueIsQuiet ==
    ASSUME handlers \in [Handlers -> Handler], NEW h \in Handlers, NEW rest, Continue(h, rest)
    PROVE  /\ \A g \in Handlers \ {h} : handlers'[g] = handlers[g]
           /\ ~Submitting(h)' /\ ~Claims(h)'
<1>1. handlers'[h].at \in {"idle", "cancel"}
  BY DEF Continue, Idle
<1>. QED  BY <1>1 DEF Continue, Submitting, Claims, Completing, Releasing

LEMMA ClaimCancellationOnce ==
    ASSUME OneCartPerKey, IsFiniteSet(Keys), OnceInv, [Next]_vars,
           NEW h \in Handlers, NEW o \in Orders, ClaimCancellation(h, o)
    PROVE  OnceInv'
<1>1. /\ IInv /\ FaultsRemain /\ UNCHANGED <<ledger, history, attempts, fulfilled>>
      /\ Transition(o, handlers[h].seen, "CANCELLED") /\ handlers \in [Handlers -> Handler]
      /\ handlers[h].at = "cancel" /\ handlers[h].seen \in {"NEW", "IN_PROCESS"}
  <2>1. handlers[h] \in Handler /\ handlers[h].seen # "none" /\ handlers[h].at = "cancel"
    BY OnceTypes DEF OnceInv, IInv, CallKnows, Cancelling, ClaimCancellation, At
  <2>. QED  BY <2>1, NoFaults, OnceTypes DEF OnceInv, ClaimCancellation, inventoryVars, Handler
<1>2. ~Submitting(h) /\ ~Claims(h)
  BY <1>1 DEF Submitting, Claims, Completing, Releasing
<1>3. CASE ~HasStock(o)
  <2>1. \A p \in Orders : Calm(p)
    BY <1>1, <1>3, CalmTransition DEF Statuses
  <2>2. Continue(h, handlers[h].todo \ {o})
    BY <1>3 DEF ClaimCancellation
  <2>. QED  BY <1>1, <1>2, <2>1, <2>2, ContinueIsQuiet, CalmStep
<1>4. CASE HasStock(o)
  <2>1. handlers' = [handlers EXCEPT ![h].at = "release", ![h].order = o,
                                     ![h].todo = @ \ {o}]
    BY <1>4 DEF ClaimCancellation
  <2>2. /\ handlers'[h].at = "release" /\ handlers'[h].order = o
        /\ \A g \in Handlers \ {h} : handlers'[g] = handlers[g]
    BY <1>1, <2>1 DEF Handler
  <2>3. PICK k \in Keys : k = KeyOf(o)
    BY <1>1, OnceTypes
  <2>4. Open(o) /\ Status(o)' = "CANCELLED" /\ orders'[o].lines = orders[o].lines
        /\ \A p \in Orders \ {o} : orders'[p] = orders[p]
    BY <1>1, TransitionRows DEF Open
  <2>5. Exactly(k, orders[o].lines) /\ \A g \in Handlers : ~WorksOn(g, k)
    BY <1>4, <2>3, <2>4, OpenAlone
  <2>6. Claims(h)' /\ ~Submitting(h)'
    BY <2>2 DEF Submitting, Claims, Completing, Releasing
  <2>7. ClaimHolds(h)'
    BY <1>1, <2>2, <2>3, <2>4, <2>5 DEF ClaimHolds, Exactly
  <2>8. \A v \in Variants : ledger'[k][v] >= 0
    BY <1>1 DEF OnceInv, KeyOK
  <2>9. ~Open(o)' /\ Status(o) # "none"
    BY <2>4 DEF Open
  <2>. QED
    BY <1>1, <1>2, <1>4, <2>2, <2>3, <2>4, <2>5, <2>6, <2>7, <2>8, <2>9, StockOrderStep
<1>. QED  BY <1>3, <1>4

LEMMA ReleaseOnce ==
    ASSUME OneCartPerKey, IsFiniteSet(Keys), OnceInv, [Next]_vars,
           NEW h \in Handlers, Release(h)
    PROVE  OnceInv'
<1>1. /\ handlers \in [Handlers -> Handler] /\ FaultsRemain /\ Releasing(h) /\ Claims(h)
      /\ UNCHANGED <<orders, attempts, fulfilled>> /\ \E rest : Continue(h, rest)
  BY NoFaults, OnceTypes DEF OnceInv, Release, At, Claims, Releasing
<1>2. PICK o \in Orders, k \in Keys :
          /\ handlers[h].order = o /\ KeyOf(o) = k
          /\ HasStock(o) /\ orders[o].lines \in Lines
          /\ Status(o) \in {"COMPLETED", "CANCELLED"}
          /\ ClaimHolds(h) /\ Exactly(k, orders[o].lines) /\ ~Submitting(h)
          /\ \A g \in Handlers \ {h} : ~WorksOn(g, k)
  BY <1>1, ClaimedOrder
<1>3. ReleaseStock(k, orders[o].lines)
  BY <1>2, OwnStockMoves DEF Release
<1>4. HoldsNothing(k)' /\ \A v \in Variants : ledger'[k][v] >= 0
  BY <1>2, <1>3, GivenBack DEF ReleaseStock
<1>5. \A j \in Keys \ {k} : ledger'[j] = ledger[j] /\ (j \in history' <=> j \in history)
  <2>1. Negated(orders[o].lines) \in [Variants -> Int]
    BY <1>2, LinesAreQuantities DEF Negated
  <2>. QED  BY <1>3, <2>1, MovementOfKey DEF ReleaseStock
<1>6. /\ \A g \in Handlers \ {h} : handlers'[g] = handlers[g]
      /\ ~Submitting(h)' /\ ~Claims(h)'
  BY <1>1, ContinueIsQuiet
<1>7. Status(o) = "CANCELLED"
  BY <1>1, <1>2 DEF OnceInv, IInv, CallKnows
<1>8. /\ \A p \in Orders \ {o} : orders'[p] = orders[p] /\ (p \in fulfilled' <=> p \in fulfilled)
      /\ orders'[o].lines = orders[o].lines /\ Status(o)' = "CANCELLED" /\ ~Open(o)'
  BY <1>1, <1>7 DEF Status, Open
<1>. QED
  BY <1>1, <1>2, <1>4, <1>5, <1>6, <1>8, StockOrderStep

(* Steps that move no stock and touch no order.                            *)
LEMMA QuietOnce ==
    ASSUME IsFiniteSet(Keys), OnceInv, [Next]_vars,
           \/ \E h \in Handlers :
                 \/ StartSweep(h)
                 \/ \E o \in Orders : ReadForCancel(h, o) \/ LoseCancellation(h, o)
           \/ ManageStock
           \/ UNCHANGED vars
    PROVE  OnceInv'
<1>1. IInv /\ handlers \in [Handlers -> Handler]
  BY OnceTypes DEF OnceInv
<1>2. UNCHANGED <<ledger, history, attempts, orders, fulfilled, faults, crashes>>
  BY DEF StartSweep, ReadForCancel, LoseCancellation, ManageStock, AdjustStock,
         SetVariantActive, vars, orderVars, inventoryVars
<1>3. FaultsRemain /\ \A o \in Orders : Calm(o)
  BY <1>1, <1>2, NoFaults, SameRowIsCalm
<1>4. ASSUME NEW h \in Handlers, NEW o \in Orders, LoseCancellation(h, o)
      PROVE  OnceInv'
  <2>1. \A g \in Handlers \ {h} : handlers'[g] = handlers[g]
    BY <1>1, <1>4, ContinueIsQuiet DEF LoseCancellation
  <2>2. ~Submitting(h)' /\ ~Claims(h)' /\ ~Submitting(h) /\ ~Claims(h)
    BY <1>1, <1>4, ContinueIsQuiet
    DEF LoseCancellation, At, Submitting, Claims, Completing, Releasing
  <2>. QED  BY <1>2, <1>3, <2>1, <2>2, CalmStep
<1>5. ASSUME NEW h \in Handlers,
             StartSweep(h) \/ \E o \in Orders : ReadForCancel(h, o)
      PROVE  OnceInv'
  <2>1. PICK seen, todo :
            handlers' = [handlers EXCEPT ![h] =
                [Idle EXCEPT !.at = "cancel", !.seen = seen, !.todo = todo]]
    BY <1>5 DEF StartSweep, ReadForCancel
  <2>2. handlers'[h].at = "cancel" /\ \A g \in Handlers \ {h} : handlers'[g] = handlers[g]
    BY <1>1, <2>1 DEF Idle
  <2>3. ~Submitting(h)' /\ ~Claims(h)' /\ ~Submitting(h) /\ ~Claims(h)
    BY <1>5, <2>2
    DEF StartSweep, ReadForCancel, At, Submitting, Claims, Completing, Releasing
  <2>. QED  BY <1>2, <1>3, <2>2, <2>3, CalmStep
<1>6. CASE UNCHANGED handlers
  BY <1>2, <1>3, <1>6, CalmStep
<1>. QED  BY <1>4, <1>5, <1>6 DEF ManageStock, vars, orderVars

LEMMA WindowPassesOnce ==
    ASSUME IsFiniteSet(Keys), OnceInv, [Next]_vars, NEW o \in Orders, WindowPasses(o)
    PROVE  OnceInv'
<1>1. /\ UNCHANGED <<ledger, history, attempts, handlers, fulfilled>> /\ FaultsRemain
      /\ orders \in [Orders -> OrderRow]
  BY NoFaults, OnceTypes DEF OnceInv, WindowPasses, inventoryVars
<1>2. \A p \in Orders : Status(p)' = Status(p) /\ orders'[p].lines = orders[p].lines
  BY <1>1 DEF WindowPasses, OrderRow, Status
<1>3. \A p \in Orders : Calm(p)
  BY <1>1, <1>2 DEF Calm, Kept, Open
<1>. QED  BY <1>1, <1>3, CalmStep

-----------------------------------------------------------------------------
(* Failing statements and restarts                                         *)

LEMMA FaultOnce ==
    ASSUME OneCartPerKey, IsFiniteSet(Keys), OnceInv, [Next]_vars,
           NEW h \in Handlers, StatementFails(h)
    PROVE  OnceInv'
<1>. DEFINE next == AfterFault(handlers[h])
<1>1. /\ handlers \in [Handlers -> Handler] /\ FaultsRemain
      /\ UNCHANGED <<ledger, history, orders, fulfilled, attempts>>
      /\ faults' # 0 /\ (faults # 0 => faults' > 1)
  <2>1. handlers \in [Handlers -> Handler] /\ faults \in Nat /\ crashes \in Nat
    BY OnceTypes DEF OnceInv
  <2>2. /\ UNCHANGED <<ledger, history, orders, fulfilled, attempts>>
        /\ faults' = faults + 1 /\ crashes' = crashes
    BY DEF StatementFails, inventoryVars
  <2>. QED  BY <2>1, <2>2 DEF FaultsRemain
<1>2. handlers'[h] = next /\ \A g \in Handlers \ {h} : handlers'[g] = handlers[g]
  BY <1>1 DEF StatementFails
<1>3. CASE Submitting(h)
  <2>1. PICK sub \in Submissions, k \in Keys :
            /\ handlers[h].sub = sub /\ sub.key = k
            /\ SubmitsUnder(h, k) /\ SubmitKnows(h) /\ NoOrders(k)
            /\ \A v \in Variants : ledger[k][v] >= 0
    BY <1>3, SubmitterKey
  <2>2. CASE handlers[h].at = "insert" /\ handlers[h].reserved
    <3>1. next.at = "undoFailure" /\ next.sub = sub
      BY <1>1, <2>1, <2>2 DEF AfterFault, Handler
    <3>2. NoOrders(k)' /\ Exactly(k, sub.lines)'
      BY <1>1, <2>1, <2>2
      DEF NoOrders, Status, SubmitKnows, HoldsLines, Exactly
    <3>3. ~Claims(h)' /\ SubmitsUnder(h, k)' /\ SubmitKnows(h)'
      BY <1>1, <1>2, <2>1, <3>1, <3>2
      DEF Claims, Completing, Releasing, SubmitsUnder, Submitting, SubmitKnows,
          WithoutStock, HoldsLines
    <3>. HIDE DEF next
    <3>. QED  BY <1>1, <1>2, <2>1, <3>3, SubmissionStep
  <2>3. CASE next = Idle
    <3>1. ~Claims(h)' /\ ~Submitting(h)'
      BY <1>2, <2>3 DEF Claims, Completing, Releasing, Submitting, Idle
    <3>. HIDE DEF next
    <3>. QED  BY <1>1, <1>2, <2>1, <3>1, SubmissionStep
  <2>. QED  BY <1>3, <2>2, <2>3 DEF AfterFault, Submitting
<1>4. CASE Claims(h)
  <2>1. PICK o \in Orders, k \in Keys :
            /\ handlers[h].order = o /\ KeyOf(o) = k
            /\ HasStock(o) /\ orders[o].lines \in Lines
            /\ Status(o) \in {"COMPLETED", "CANCELLED"}
            /\ ClaimHolds(h) /\ Exactly(k, orders[o].lines) /\ ~Submitting(h)
            /\ \A g \in Handlers \ {h} : ~WorksOn(g, k)
            /\ \A v \in Variants : ledger[k][v] >= 0
    BY <1>4, ClaimedOrder
  <2>2. /\ orders'[o].lines = orders[o].lines /\ Status(o)' = Status(o) /\ ~Open(o)'
        /\ Exactly(k, orders[o].lines)'
    BY <1>1, <2>1 DEF Status, Open, Exactly
  <2>3. CASE handlers[h].at = "fulfil"
    <3>1. next.at = "revert" /\ next.order = o
      BY <1>1, <2>1, <2>3 DEF AfterFault, Handler
    <3>2. Completing(h)' /\ ~Submitting(h)' /\ handlers'[h].order = o
      BY <1>2, <3>1 DEF Completing, Submitting
    <3>3. ClaimHolds(h)'
      BY <1>1, <2>1, <2>2, <3>2 DEF ClaimHolds, Exactly
    <3>. HIDE DEF next
    <3>. QED  BY <1>1, <1>2, <2>1, <2>2, <3>2, <3>3, StockOrderStep
  <2>4. CASE handlers[h].at # "fulfil"
    <3>1. next = Idle
      BY <1>4, <2>4 DEF AfterFault, Claims, Completing, Releasing
    <3>2. ~Claims(h)' /\ ~Submitting(h)'
      BY <1>2, <3>1 DEF Claims, Completing, Releasing, Submitting, Idle
    <3>3. Status(o)' = "COMPLETED" => faults' > 1
      BY <1>1, <1>4, <2>1, <2>2, <2>4
      DEF ClaimHolds, Claims, Completing, Releasing, OnceInv, IInv, CallKnows
    <3>. HIDE DEF next
    <3>. QED  BY <1>1, <1>2, <2>1, <2>2, <3>2, <3>3, StockOrderStep
  <2>. QED  BY <2>3, <2>4
<1>5. CASE ~Submitting(h) /\ ~Claims(h)
  <2>1. next = Idle
    BY <1>5 DEF AfterFault, Submitting, Claims, Completing
  <2>2. ~Claims(h)' /\ ~Submitting(h)'
    BY <1>2, <2>1 DEF Claims, Completing, Releasing, Submitting, Idle
  <2>3. \A o \in Orders : Calm(o)
    BY <1>1, SameRowIsCalm
  <2>. HIDE DEF next
  <2>. QED  BY <1>1, <1>2, <1>5, <2>2, <2>3, CalmStep
<1>. QED  BY <1>3, <1>4, <1>5

LEMMA CrashOnce ==
    ASSUME IsFiniteSet(Keys), OnceInv, [Next]_vars, Crash
    PROVE  OnceInv'
<1>1. /\ UNCHANGED <<ledger, history, orders, fulfilled, attempts, faults>>
      /\ crashes' # 0 /\ \A h \in Handlers : handlers'[h].at = "idle"
  BY OnceTypes DEF OnceInv, Crash, inventoryVars, Idle
<1>2. \A h \in Handlers, k \in Keys : ~SubmitsUnder(h, k)' /\ ~ClaimsUnder(h, k)'
  BY <1>1 DEF SubmitsUnder, ClaimsUnder, Submitting, Claims, Completing, Releasing
<1>3. ASSUME NEW k \in Keys PROVE KeyOK(k)'
  <2>1. KeyOK(k)
    BY DEF OnceInv
  <2>2. Unsent(k)'
    BY <1>1, <2>1 DEF KeyOK, Unsent, NoOrders, HoldsNothing, Status
  <2>3. StoredUnder(k)'
    BY <1>1, <2>1 DEF KeyOK, StoredUnder, Stored, Status, NewOrder
  <2>4. OpenHolds(k)'
    BY <1>1, <2>1 DEF KeyOK, OpenHolds, Open, Status, HasStock, Wanted, Exactly
  <2>. QED  BY <1>1, <1>2, <2>1, <2>2, <2>3, <2>4 DEF KeyOK
<1>. QED  BY <1>3, OnceTables DEF OnceInv

LEMMA OnceInductive ==
    ASSUME OneCartPerKey, MaxAttempts <= 1, IsFiniteSet(Keys), OnceInv, [Next]_vars
    PROVE  OnceInv'
<1>1. ASSUME NEW h \in Handlers, Proceed(h)
      PROVE  OnceInv'
  <2>1. CASE CheckItems(h) \/ Reserve(h) \/ InsertOrders(h) \/ UndoReservation(h)
    BY <2>1, CheckOnce, ReserveOnce, InsertOnce, UndoOnce
  <2>2. CASE InsertRefused(h) \/ LookAgain(h)
    BY <2>2, InsertIsNeverRefused
  <2>3. CASE Fulfil(h) \/ RevertCompletion(h) \/ Release(h)
    BY <2>3, FulfilOnce, RevertOnce, ReleaseOnce
  <2>4. ASSUME NEW o \in Orders, ClaimCancellation(h, o) \/ LoseCancellation(h, o)
        PROVE  OnceInv'
    BY <2>4, ClaimCancellationOnce, QuietOnce
  <2>. QED  BY <1>1, <2>1, <2>2, <2>3, <2>4 DEF Proceed
<1>2. ASSUME NEW h \in Handlers, NEW sub \in Submissions, Submit(h, sub)
      PROVE  OnceInv'
  BY <1>2, SubmitOnce
<1>3. ASSUME NEW h \in Handlers, NEW o \in Orders, ClaimCompletion(h, o)
      PROVE  OnceInv'
  BY <1>3, ClaimCompletionOnce
<1>4. ASSUME NEW h \in Handlers,
             StartSweep(h) \/ \E o \in Orders : ReadForCancel(h, o)
      PROVE  OnceInv'
  BY <1>4, QuietOnce
<1>5. ASSUME NEW h \in Handlers, StatementFails(h)
      PROVE  OnceInv'
  BY <1>5, FaultOnce
<1>6. ASSUME NEW o \in Orders, Confirm(o) \/ WindowPasses(o)
      PROVE  OnceInv'
  BY <1>6, ConfirmOnce, WindowPassesOnce
<1>7. CASE Crash
  BY <1>7, CrashOnce
<1>8. CASE ManageStock \/ UNCHANGED vars
  BY <1>8, QuietOnce
<1>. QED
  BY <1>1, <1>2, <1>3, <1>4, <1>5, <1>6, <1>7, <1>8 DEF Next

LEMMA OnceInitially ==
    ASSUME IsFiniteSet(Keys), Init
    PROVE  OnceInv
<1>1. IInv
  BY InitIsGood
<1>2. LedgerIInv
  BY LedgerInitially DEF Init
<1>3. /\ \A k \in Keys : HoldsNothing(k) /\ k \notin history /\ NoOrders(k)
      /\ \A h \in Handlers : ~Submitting(h) /\ ~Claims(h)
  BY DEF Init, InventoryInit, HoldsNothing, NoOrders, NoOrder, Status, Idle,
         Submitting, Claims, Completing, Releasing
<1>4. \A k \in Keys, v \in Variants : ledger[k][v] = 0
  BY <1>3 DEF HoldsNothing
<1>5. ASSUME NEW k \in Keys PROVE KeyOK(k)
  BY <1>3, <1>4
  DEF KeyOK, Unsent, SubmitsUnder, ClaimsUnder, StoredUnder, OpenHolds, HasOwner,
      CompletedUnder, NoOrders, Open
<1>. QED  BY <1>1, <1>2, <1>5 DEF OnceInv, Init

LEMMA AlwaysOnceInv ==
    ASSUME OneCartPerKey, MaxAttempts <= 1, IsFiniteSet(Keys)
    PROVE  Spec => []OnceInv
<1>1. Init => OnceInv
  BY OnceInitially
<1>2. OnceInv /\ [Next]_vars => OnceInv'
  BY OnceInductive
<1>. QED  BY <1>1, <1>2, PTL DEF Spec

-----------------------------------------------------------------------------
(* What follows for carts that are sent once                               *)

(* An order staff can still confirm or complete has exactly its lines      *)
(* reserved, whatever other guests, staff and the worker do, fails or      *)
(* restarts.                                                               *)
THEOREM OpenOrdersHoldTheirStock ==
    ASSUME OneCartPerKey, MaxAttempts <= 1, IsFiniteSet(Keys)
    PROVE  Spec => []OpenOrderHoldsReservation
<1>1. OnceInv => OpenOrderHoldsReservation
  <2>. SUFFICES ASSUME OnceInv, NEW o \in Orders, Open(o), HasStock(o)
                PROVE  Matches(KeyOf(o), orders[o].lines)
    BY DEF OpenOrderHoldsReservation
  <2>1. Exactly(KeyOf(o), orders[o].lines)
    BY OnceTypes DEF OnceInv, KeyOK, OpenHolds
  <2>. QED  BY <2>1 DEF Exactly, Matches, Held, Wanted
<1>. QED  BY <1>1, AlwaysOnceInv, PTL

(* As long as an order stays open nothing takes from what its key holds.   *)
(* A cart that is sent twice may lose it: the second attempt gives back    *)
(* what the first one reserved.                                            *)
THEOREM OpenOrdersKeepTheirStock ==
    ASSUME OneCartPerKey, MaxAttempts <= 1, IsFiniteSet(Keys)
    PROVE  Spec => OpenOrderKeepsReservation
<1>. DEFINE Keeps(o) ==
         Open(o) /\ Open(o)' /\ HasStock(o) =>
             \A v \in Wanted(orders[o].lines) :
                 ledger'[KeyOf(o)][v] >= ledger[KeyOf(o)][v]
<1>1. ASSUME OnceInv, OnceInv', [Next]_vars, NEW o \in Orders
      PROVE  Keeps(o)
  <2>. SUFFICES ASSUME Open(o), Open(o)', HasStock(o),
                       NEW v \in Variants
                PROVE  ledger'[KeyOf(o)][v] >= ledger[KeyOf(o)][v]
    BY DEF Wanted
  <2>1. orders'[o].lines = orders[o].lines
    <3>1. CASE \A h \in Handlers : ~InsertOrders(h)
      BY <1>1, <3>1, RowsAreKept DEF OnceInv, Kept
    <3>2. ASSUME NEW h \in Handlers, InsertOrders(h)
          PROVE  orders'[o] = orders[o]
      BY <3>2 DEF InsertOrders, Open
    <3>. QED  BY <3>1, <3>2
  <2>2. HasStock(o)' /\ KeyOf(o) \in Keys
    BY <1>1, <2>1, OnceTypes DEF OnceInv, HasStock, Wanted
  <2>3. Exactly(KeyOf(o), orders[o].lines) /\ Exactly(KeyOf(o), orders[o].lines)'
    BY <1>1, <2>2 DEF OnceInv, KeyOK, OpenHolds
  <2>4. ledger'[KeyOf(o)][v] = ledger[KeyOf(o)][v] /\ ledger[KeyOf(o)][v] \in Int
    BY <1>1, <2>1, <2>2, <2>3, OnceTypes DEF OnceInv, Exactly
  <2>. QED  BY <2>4
<1>2. OnceInv /\ OnceInv' /\ [Next]_vars => [\A o \in Orders : Keeps(o)]_vars
  BY <1>1
<1>. QED  BY <1>2, AlwaysOnceInv, PTL DEF Spec, OpenOrderKeepsReservation

(* A delivery is never refused, and one whose statement fails puts the     *)
(* order back: unless the statement that puts it back fails too, or the    *)
(* API stops, no order is left COMPLETED with its goods on the shelf.      *)
THEOREM FailedDeliveriesAreReverted ==
    ASSUME OneCartPerKey, MaxAttempts <= 1, IsFiniteSet(Keys)
    PROVE  Spec => []FailedDeliveryIsReverted
<1>1. OnceInv => FailedDeliveryIsReverted
  BY OnceTypes
  DEF OnceInv, KeyOK, CompletedUnder, FailedDeliveryIsReverted, CompletedIsFulfilled
<1>. QED  BY <1>1, AlwaysOnceInv, PTL

-----------------------------------------------------------------------------
(* The sum over the open orders                                            *)

OpenLines(v) == MapThenSumSet(LAMBDA o : IF Open(o) THEN orders[o].lines[v] ELSE 0, Orders)

OpenLine(v) == [o \in Orders |-> IF Open(o) THEN orders[o].lines[v] ELSE 0]

LEMMA RestReconcilesIsOpenLines ==
    RestReconciles <=> (AtRest /\ faults = 0 /\ crashes = 0
                           => \A v \in Variants : reserved[v] = OpenLines(v))
BY DEF RestReconciles, OpenLines, MapThenSumSet, MapThenFoldSet

LEMMA OpenLinesIsSum ==
    ASSUME NEW v, NEW T, Adds(T, Orders, OpenLine(v)), IsFiniteSet(Orders)
    PROVE  OpenLines(v) = T[Orders]
<1>. DEFINE first(s) == CHOOSE x \in s : TRUE
            line(o) == IF Open(o) THEN orders[o].lines[v] ELSE 0
            Folds(f) == f = [s \in SUBSET Orders |->
                                IF s = {} THEN 0 ELSE line(first(s)) + f[s \ {first(s)}]]
            fold == CHOOSE f : Folds(f)
<1>1. OpenLines(v) = fold[Orders]
  BY DEF OpenLines, MapThenSumSet, MapThenFoldSet
<1>2. ASSUME NEW f PROVE Folds(f) <=> Takes(f, Orders, OpenLine(v))
  <2>1. \A s \in SUBSET Orders : s # {} => line(first(s)) = OpenLine(v)[first(s)]
    BY DEF OpenLine
  <2>. HIDE DEF line
  <2>. QED  BY <2>1 DEF Takes
<1>. HIDE DEF Folds
<1>3. Folds(fold)
  BY <1>2, SumTakes
<1>. HIDE DEF fold
<1>. QED  BY <1>1, <1>2, <1>3, TakesIsSum

LEMMA RestSums ==
    ASSUME OneCartPerKey, IsFiniteSet(Keys), IsFiniteSet(Orders), OnceInv,
           AtRest, faults = 0, crashes = 0, NEW v \in Variants
    PROVE  reserved[v] = OpenLines(v)
<1>. DEFINE P == {o \in Orders : Open(o) /\ HasStock(o)}
            key == [o \in Orders |-> KeyOf(o)]
<1>1. /\ ledger \in [Keys -> [Variants -> Int]] /\ reserved[v] = HeldBy(ledger, v)
      /\ orders \in [Orders -> OrderRow] /\ \A o \in Orders : KeyOf(o) \in Keys
  BY OnceTypes DEF OnceInv, LedgerIInv
<1>2. \A o \in Orders : orders[o].lines \in [Variants -> Nat]
  BY <1>1, LinesAreOrders DEF OrderRow, NoLines
<1>3. PICK T : Adds(T, Keys, Column(ledger, v)) /\ HeldBy(ledger, v) = T[Keys]
  BY <1>1, LedgerSums
<1>4. PICK U : Adds(U, Orders, OpenLine(v)) /\ OpenLines(v) = U[Orders]
  <2>1. \A o \in Orders : OpenLine(v)[o] \in Int
    BY <1>2 DEF OpenLine
  <2>. QED  BY <2>1, SumsExist, OpenLinesIsSum
<1>5. \A o \in Orders \ P : OpenLine(v)[o] = 0
  BY <1>2 DEF OpenLine, HasStock, Wanted
<1>6. \A o \in P : /\ key[o] \in Keys /\ Column(ledger, v)[key[o]] = OpenLine(v)[o]
                   /\ OpenLine(v)[o] \in Int
  <2>. TAKE o \in P
  <2>1. key[o] \in Keys /\ key[o] = KeyOf(o)
    BY <1>1
  <2>2. Exactly(KeyOf(o), orders[o].lines)
    BY <2>1 DEF OnceInv, KeyOK, OpenHolds
  <2>. QED  BY <1>2, <2>1, <2>2 DEF Exactly, Column, OpenLine
<1>7. \A o, p \in P : key[o] = key[p] => o = p
  BY OneStockOrder DEF Open
<1>8. \A k \in Keys : Column(ledger, v)[k] = 0 \/ \E o \in P : key[o] = k
  <2>. TAKE k \in Keys
  <2>1. \A h \in Handlers : ~WorksOn(h, k)
    BY DEF AtRest, At, WorksOn, SubmitsUnder, ClaimsUnder, Submitting, Claims,
           Completing, Releasing
  <2>2. HasOwner(k)
    BY DEF OnceInv, KeyOK
  <2>. QED  BY <2>1, <2>2 DEF HasOwner, HoldsNothing, Column
<1>. HIDE DEF P, key
<1>9. P \in SUBSET Orders
  BY DEF P
<1>10. U[Orders] = T[Keys]
  BY <1>3, <1>4, <1>5, <1>6, <1>7, <1>8, <1>9, SumsCorrespond
<1>. QED  BY <1>1, <1>3, <1>4, <1>10

(* When no call is in flight and none was cut short, what the variants     *)
(* have reserved is what the open orders ask for: no reservation is left   *)
(* behind by a refused, cancelled, expired or delivered order.             *)
THEOREM RestLeavesNothingBehind ==
    ASSUME OneCartPerKey, MaxAttempts <= 1, IsFiniteSet(Keys), IsFiniteSet(Orders)
    PROVE  Spec => []RestReconciles
<1>1. OnceInv => RestReconciles
  BY RestSums, RestReconcilesIsOpenLines
<1>. QED  BY <1>1, AlwaysOnceInv, PTL

=============================================================================
