------------------------- MODULE StockTransactions -------------------------
(***************************************************************************)
(* The stock transactions of PostgresBoutiqueRepository statement by       *)
(* statement, as several API calls run them at once at READ COMMITTED:     *)
(* rows are locked one by one in id order (SELECT ... FOR UPDATE), the     *)
(* movements of the key are then read without a lock of their own, and     *)
(* what is written becomes visible, and the locks free, at COMMIT.         *)
(*                                                                         *)
(* The variables of BoutiqueInventory are the committed tables; the others *)
(* say how far the open transaction of each caller has come.               *)
(***************************************************************************)
EXTENDS BoutiqueInventory

CONSTANTS
    Callers,    \* API calls that can be in flight at once
    NoKey,      \* the key of a staff correction: its movement has none
    KeyLines    \* the line lists the clients of a key send with it

ASSUME NoKeyIsNoKey == NoKey \notin Keys
ASSUME KeyLinesAreLines == KeyLines \in [Keys -> SUBSET Lines]

ASSUME FinitelyManyVariants == IsFiniteSet(Variants)

VARIABLES
    at,         \* where the call of a caller is
    job,        \* what it was called with
    locked,     \* the rows its transaction holds
    change      \* an adjustment: the delta, then the stock to write

callVars == <<at, job, locked, change>>
txVars == <<inventoryVars, callVars>>

Ops == {"reserve", "release", "fulfil", "adjust"}

NoLines == [v \in Variants |-> 0]

NoJob == [op |-> "none", key |-> NoKey, lines |-> NoLines]

Job == [op : Ops, key : Keys \cup {NoKey}, lines : [Variants -> Nat]]

TxTypeOK ==
    /\ InventoryTypeOK
    /\ at \in [Callers -> {"idle", "locking", "rows", "writing"}]
    /\ job \in [Callers -> Job \cup {NoJob}]
    /\ locked \in [Callers -> SUBSET Variants]
    /\ change \in [Callers -> Int]

-----------------------------------------------------------------------------
(* Row locks                                                               *)

Rows(p) == Wanted(job[p].lines)

Unlocked(p) == Rows(p) \ locked[p]

(* Seeded error: a delivery takes the rows the other way round.            *)
BugNextRow(p) ==
    CHOOSE v \in Unlocked(p) : \A w \in Unlocked(p) :
        IF job[p].op = "fulfil" THEN v >= w ELSE v <= w

(* aggregateLines sorts the lines by variant id and the loops lock in that *)
(* order.                                                                  *)
NextRow(p) == CHOOSE v \in Unlocked(p) : \A w \in Unlocked(p) : v <= w

HasLock(p, v) == v \in locked[p]

Free(v) == \A q \in Callers : ~HasLock(q, v)

Locking(p) == at[p] = "locking" /\ Unlocked(p) # {}

Waits(p, q) == p # q /\ Locking(p) /\ HasLock(q, NextRow(p))

Moved(p, next) == at' = [at EXCEPT ![p] = next] /\ UNCHANGED <<job, locked, change>>

Ended(p) ==
    /\ at' = [at EXCEPT ![p] = "idle"]
    /\ job' = [job EXCEPT ![p] = NoJob]
    /\ locked' = [locked EXCEPT ![p] = {}]
    /\ change' = [change EXCEPT ![p] = 0]

-----------------------------------------------------------------------------
(* The statements                                                          *)

Begin(p, call, delta) ==
    /\ at[p] = "idle"
    /\ at' = [at EXCEPT ![p] = "locking"]
    /\ job' = [job EXCEPT ![p] = call]
    /\ change' = [change EXCEPT ![p] = delta]
    /\ UNCHANGED <<inventoryVars, locked>>

BeginLines(p, op, key, lines) == Begin(p, [op |-> op, key |-> key, lines |-> lines], 0)

OneOf(v) == [NoLines EXCEPT ![v] = 1]

BeginAdjust(p, v, delta) ==
    Begin(p, [op |-> "adjust", key |-> NoKey, lines |-> OneOf(v)], delta)

(* fulfillStock and adjustStock test a row as soon as they have locked it; *)
(* the upper bound on the stock is the model's.                            *)
RowPasses(p, v) ==
    /\ job[p].op = "fulfil" => /\ reserved[v] >= job[p].lines[v]
                               /\ stock[v] >= job[p].lines[v]
    /\ job[p].op = "adjust" => /\ stock[v] + change[p] >= reserved[v]
                               /\ stock[v] + change[p] \in 0..MaxStock

(* adjustStock computes the sum it will write from the row it read.        *)
Took(p, v) ==
    /\ locked' = [locked EXCEPT ![p] = locked[p] \cup {v}]
    /\ change' = [change EXCEPT ![p] =
                    IF job[p].op = "adjust" THEN stock[v] + change[p] ELSE change[p]]
    /\ UNCHANGED <<inventoryVars, at, job>>

(* Seeded error: the row is read without FOR UPDATE.                       *)
BugLockRow(p) ==
    /\ Locking(p)
    /\ NextRow(p) \in listed
    /\ RowPasses(p, NextRow(p))
    /\ Took(p, NextRow(p))

(* SELECT ... FOR UPDATE of the next row returns once nobody else holds it *)
LockRow(p) ==
    /\ Locking(p)
    /\ Free(NextRow(p))
    /\ NextRow(p) \in listed
    /\ RowPasses(p, NextRow(p))
    /\ Took(p, NextRow(p))

(* ... and the call is rolled back when the row is missing or too small.   *)
RefuseRow(p) ==
    /\ Locking(p)
    /\ Free(NextRow(p))
    /\ NextRow(p) \notin listed \/ ~RowPasses(p, NextRow(p))
    /\ Ended(p)
    /\ UNCHANGED inventoryVars

(* With every row locked, a reservation or release asks the movements of   *)
(* its key; the statement sees what is committed now.                      *)
ReadMovements(p) ==
    /\ at[p] = "locking" /\ Unlocked(p) = {}
    /\ job[p].op \in {"reserve", "release"}
    /\ IF KeyVerdict(job[p].op, job[p].key, job[p].lines) = "proceed"
         THEN Moved(p, "rows")
         ELSE Ended(p)
    /\ UNCHANGED inventoryVars

(* The second pass over the rows, which this transaction already holds.    *)
TestRows(p) ==
    /\ at[p] = "rows"
    /\ IF RowsAllow(job[p].op, job[p].lines) THEN Moved(p, "writing") ELSE Ended(p)
    /\ UNCHANGED inventoryVars

ReadyToWrite(p) ==
    \/ at[p] = "writing"
    \/ at[p] = "locking" /\ Unlocked(p) = {} /\ job[p].op \in {"fulfil", "adjust"}

Sign(op) == IF op = "reserve" THEN 1 ELSE -1

Change(p) == [v \in Variants |-> Sign(job[p].op) * job[p].lines[v]]

CommitLines(p) ==
    /\ ReadyToWrite(p) /\ job[p].op \in {"reserve", "release", "fulfil"}
    /\ reserved' = [v \in Variants |-> reserved[v] + Change(p)[v]]
    /\ stock' = IF job[p].op = "fulfil"
                  THEN [v \in Variants |-> stock[v] + Change(p)[v]]
                  ELSE stock
    /\ InsertMovements(job[p].key, Change(p))
    /\ Ended(p)
    /\ UNCHANGED <<listed, active>>

(* adjustStock writes the sum it computed when it locked the row.          *)
CommitAdjust(p) ==
    /\ ReadyToWrite(p) /\ job[p].op = "adjust"
    /\ stock' = [v \in Variants |-> IF v \in Rows(p) THEN change[p] ELSE stock[v]]
    /\ Ended(p)
    /\ UNCHANGED <<listed, active, reserved, ledger, history>>

(* A lost connection or a stopped API process: the database rolls back.    *)
Rollback(p) ==
    /\ at[p] # "idle"
    /\ Ended(p)
    /\ UNCHANGED inventoryVars

(* setVariantActive is one UPDATE, which waits for the row; createVariant  *)
(* is one INSERT.                                                          *)
UpdateActive(v, value) == Free(v) /\ SetVariantActive(v, value) /\ UNCHANGED callVars

InsertVariant(v, quantity) == CreateVariant(v, quantity) /\ UNCHANGED callVars

-----------------------------------------------------------------------------

TxInit ==
    /\ InventoryInit
    /\ at = [p \in Callers |-> "idle"]
    /\ job = [p \in Callers |-> NoJob]
    /\ locked = [p \in Callers |-> {}]
    /\ change = [p \in Callers |-> 0]

Step(p) ==
    \/ LockRow(p)
    \/ RefuseRow(p)
    \/ ReadMovements(p)
    \/ TestRows(p)
    \/ CommitLines(p)
    \/ CommitAdjust(p)

TxNext ==
    \/ \E p \in Callers :
          \/ \E op \in {"reserve", "release", "fulfil"}, key \in Keys :
                \E lines \in KeyLines[key] : BeginLines(p, op, key, lines)
          \/ \E v \in Variants, delta \in Deltas : BeginAdjust(p, v, delta)
          \/ Step(p)
          \/ Rollback(p)
    \/ \E v \in Variants :
          \/ \E value \in BOOLEAN : UpdateActive(v, value)
          \/ \E quantity \in 0..MaxStock : InsertVariant(v, quantity)

TxSpec == TxInit /\ [][TxNext]_txVars

(* Postgres queues the waiters of a row lock, so a call that could take a  *)
(* row again and again takes it in the end (strong fairness); everything   *)
(* else a call does next stays possible until it does it.                  *)
FairTxSpec == TxSpec /\ \A p \in Callers : SF_txVars(Step(p))

-----------------------------------------------------------------------------
(* Properties                                                              *)

(* Two open transactions never hold the same variant row, and what a       *)
(* transaction is about to write still passes the tests it made when it    *)
(* read the rows: the window between the tests and the UPDATE is closed by *)
(* the locks, whoever else reserves, delivers or corrects the variant.     *)
TestedRowsStayValid ==
    \A p \in Callers :
        /\ \A q \in Callers \ {p} : locked[p] \cap locked[q] = {}
        /\ at[p] = "writing" => RowsAllow(job[p].op, job[p].lines)
        /\ job[p].op = "adjust" /\ locked[p] # {} =>
              \A v \in Rows(p) : change[p] >= reserved[v]

(* Nobody waits in a circle: in no set of callers does each member wait    *)
(* for a row another member holds.  This is what locking in id order buys. *)
NoLockCycle ==
    \A waiting \in (SUBSET Callers) \ {{}} :
        \E p \in waiting : \A q \in waiting : ~Waits(p, q)

(* Whatever the statements of several callers interleave to, the tables    *)
(* change as if every call had been one step of BoutiqueInventory.  It     *)
(* needs the line lists of one key to share a variant.                     *)
ImplementsInventory == InventorySpec

(* A key is associated with one stock reservation: what it holds is one of *)
(* the line lists it was sent with, never the sum of two.                  *)
OneReservationPerKey ==
    \A key \in Keys :
        Held(key) # {} => \E lines \in KeyLines[key] : Matches(key, lines)

(* Every call gets its rows and ends, however many others want them.       *)
EveryCallEnds == \A p \in Callers : at[p] # "idle" ~> at[p] = "idle"

=============================================================================
