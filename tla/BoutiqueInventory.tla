------------------------- MODULE BoutiqueInventory -------------------------
(***************************************************************************)
(* The stock of Butik Indonesia as PostgresBoutiqueRepository promises it  *)
(* to its callers: every call is one transaction, so here every call is    *)
(* one step.  StockTransactions takes the same calls apart into the        *)
(* statements they are made of and implements this module.                 *)
(*                                                                         *)
(* A stock line list is a function from variants to the ordered quantity,  *)
(* which is what aggregateLines leaves of it; 0 means "not ordered".       *)
(***************************************************************************)
EXTENDS Integers, FiniteSets, FiniteSetsExt

CONSTANTS
    Variants,   \* product variants; numbers, because rows are locked in id order
    Keys,       \* client request ids, the idempotency keys of the guest clients
    Lines,      \* the stock line lists the callers pass
    MaxStock,   \* bound: no stock beyond this is created or adjusted to
    Deltas      \* the stock corrections staff enter; 0 is refused by the service

(* The validators of the HTTP layer keep ordered quantities positive, and  *)
(* guest orders without a Butik item never reach the repository.           *)
ASSUME VariantsAreIds == Variants \subseteq Nat
ASSUME LinesAreOrders ==
    /\ Lines \subseteq [Variants -> Nat]
    /\ \A lines \in Lines : \E v \in Variants : lines[v] > 0
ASSUME MaxStockIsNat == MaxStock \in Nat
ASSUME DeltasAreChanges == Deltas \subseteq Int \ {0}

VARIABLES
    listed,     \* variants that exist
    active,     \* boutique_product_variants.active
    stock,      \* boutique_product_variants.stock_on_hand
    reserved,   \* boutique_product_variants.reserved_quantity
    ledger,     \* per key and variant: RESERVE minus RELEASE minus FULFILL
    history     \* keys with at least one row in boutique_inventory_movements

inventoryVars == <<listed, active, stock, reserved, ledger, history>>

InventoryTypeOK ==
    /\ listed \subseteq Variants
    /\ active \in [Variants -> BOOLEAN]
    /\ stock \in [Variants -> Nat]
    /\ reserved \in [Variants -> Nat]
    /\ ledger \in [Keys -> [Variants -> Int]]
    /\ history \subseteq Keys

-----------------------------------------------------------------------------
(* What a call sees                                                        *)

Wanted(lines) == {v \in Variants : lines[v] > 0}

Available(v) == stock[v] - reserved[v]

(* previousReservations: the variants this key still holds.                *)
Held(key) == {v \in Variants : ledger[key][v] > 0}

Matches(key, lines) ==
    /\ Held(key) = Wanted(lines)
    /\ \A v \in Wanted(lines) : ledger[key][v] = lines[v]

(* The guards the locked rows are tested with before anything is written.  *)
CanReserve(lines) ==
    \A v \in Wanted(lines) : active[v] /\ Available(v) >= lines[v]

CanRelease(lines) == \A v \in Wanted(lines) : reserved[v] >= lines[v]

CanFulfil(lines) ==
    \A v \in Wanted(lines) : reserved[v] >= lines[v] /\ stock[v] >= lines[v]

RowsAllow(op, lines) ==
    /\ op = "reserve" => CanReserve(lines)
    /\ op = "release" => CanRelease(lines)
    /\ op = "fulfil"  => CanFulfil(lines)

(* Seeded error: a key that holds nothing any more may reserve again.      *)
BugKeyVerdict(op, key, lines) ==
    IF op = "fulfil" \/ key \notin history THEN "proceed"
    ELSE IF Held(key) = {}
      THEN (IF op = "reserve" THEN "proceed" ELSE "already")
    ELSE IF ~Matches(key, lines) THEN "keyConflict"
    ELSE IF op = "reserve" THEN "already" ELSE "proceed"

(* What the movements of the key say before the rows are tested.  A key    *)
(* that moved stock and holds none is settled for good; one that holds     *)
(* something holds the same lines or is in conflict; a repeated            *)
(* reservation changes nothing.  fulfillStock does not ask.                *)
KeyVerdict(op, key, lines) ==
    IF op = "fulfil" \/ key \notin history THEN "proceed"
    ELSE IF Held(key) = {}                   THEN "already"
    ELSE IF ~Matches(key, lines)             THEN "keyConflict"
    ELSE IF op = "reserve"                   THEN "already"
    ELSE                                          "proceed"

(* The answer of a call: "done" is the true of a call that moved stock,    *)
(* "already" the false of one that had nothing to do, the others are       *)
(* thrown errors and leave no trace.                                       *)
Answer(op, key, lines) ==
    IF ~(Wanted(lines) \subseteq listed)
      THEN IF op = "fulfil" THEN "unavailable" ELSE "notFound"
    ELSE IF KeyVerdict(op, key, lines) # "proceed"   THEN KeyVerdict(op, key, lines)
    ELSE IF RowsAllow(op, lines)                     THEN "done"
    ELSE                                                  "unavailable"

-----------------------------------------------------------------------------
(* The transactions                                                        *)

(* Seeded error: only reservations are recorded.                           *)
BugInsertMovements(key, change) ==
    /\ ledger' = [ledger EXCEPT ![key] =
          [v \in Variants |-> ledger[key][v] + (IF change[v] > 0 THEN change[v] ELSE 0)]]
    /\ history' = history \cup {key}

(* A row of boutique_inventory_movements for every line.                   *)
InsertMovements(key, change) ==
    /\ ledger' = [ledger EXCEPT ![key] = [v \in Variants |-> ledger[key][v] + change[v]]]
    /\ history' = history \cup {key}

Negated(lines) == [v \in Variants |-> -lines[v]]

ReserveStock(key, lines) ==
    /\ Answer("reserve", key, lines) = "done"
    /\ reserved' = [v \in Variants |-> reserved[v] + lines[v]]
    /\ InsertMovements(key, lines)
    /\ UNCHANGED <<listed, active, stock>>

ReleaseStock(key, lines) ==
    /\ Answer("release", key, lines) = "done"
    /\ reserved' = [v \in Variants |-> reserved[v] - lines[v]]
    /\ InsertMovements(key, Negated(lines))
    /\ UNCHANGED <<listed, active, stock>>

FulfilStock(key, lines) ==
    /\ Answer("fulfil", key, lines) = "done"
    /\ stock' = [v \in Variants |-> stock[v] - lines[v]]
    /\ reserved' = [v \in Variants |-> reserved[v] - lines[v]]
    /\ InsertMovements(key, Negated(lines))
    /\ UNCHANGED <<listed, active>>

(* Stock is never corrected below what is reserved; the upper bound is the *)
(* model's.  The movement it writes carries no key.                        *)
AdjustStock(v, delta) ==
    /\ v \in listed
    /\ stock[v] + delta >= reserved[v]
    /\ stock[v] + delta >= 0
    /\ stock[v] + delta <= MaxStock
    /\ stock' = [stock EXCEPT ![v] = stock[v] + delta]
    /\ UNCHANGED <<listed, active, reserved, ledger, history>>

CreateVariant(v, quantity) ==
    /\ v \notin listed
    /\ listed' = listed \cup {v}
    /\ active' = [active EXCEPT ![v] = TRUE]
    /\ stock' = [stock EXCEPT ![v] = quantity]
    /\ reserved' = [reserved EXCEPT ![v] = 0]
    /\ UNCHANGED <<ledger, history>>

SetVariantActive(v, value) ==
    /\ v \in listed
    /\ active' = [active EXCEPT ![v] = value]
    /\ UNCHANGED <<listed, stock, reserved, ledger, history>>

(* Stock has been entered and nothing has been ordered yet.                *)
InventoryInit ==
    /\ listed \in SUBSET Variants
    /\ active \in [Variants -> BOOLEAN]
    /\ stock \in [Variants -> 0..MaxStock]
    /\ \A v \in Variants \ listed : ~active[v] /\ stock[v] = 0
    /\ reserved = [v \in Variants |-> 0]
    /\ ledger = [k \in Keys |-> [v \in Variants |-> 0]]
    /\ history = {}

InventoryNext ==
    \/ \E key \in Keys, lines \in Lines :
          \/ ReserveStock(key, lines)
          \/ ReleaseStock(key, lines)
          \/ FulfilStock(key, lines)
    \/ \E v \in Variants :
          \/ \E delta \in Deltas : AdjustStock(v, delta)
          \/ \E quantity \in 0..MaxStock : CreateVariant(v, quantity)
          \/ \E value \in BOOLEAN : SetVariantActive(v, value)

InventorySpec == InventoryInit /\ [][InventoryNext]_inventoryVars

-----------------------------------------------------------------------------
(* Properties                                                              *)

(* Nothing is promised that is not on the shelf: whatever sequence of      *)
(* reservations, releases, deliveries and staff corrections ran, the       *)
(* reserved quantity of a variant lies between 0 and its stock, so the     *)
(* availability shown to guests is never negative and the CHECKs of the    *)
(* table never fire.                                                       *)
StockCovered == \A v \in Variants : 0 <= reserved[v] /\ reserved[v] <= stock[v]

(* The movement table explains the counter: what a variant has reserved is *)
(* the sum of what the keys hold of it by their movements.                 *)
LedgerAgrees ==
    \A v \in Variants :
        reserved[v] = MapThenSumSet(LAMBDA k : ledger[k][v], Keys)

(* A key reserves at most once in its life: after its first movement no    *)
(* later call with the same key raises what it holds ("avoid resurrecting  *)
(* stock").                                                                *)
NoResurrection ==
    [][\A k \in history : \A v \in Variants : ledger'[k][v] <= ledger[k][v]]_inventoryVars

=============================================================================
