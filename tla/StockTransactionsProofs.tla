----------------------- MODULE StockTransactionsProofs -----------------------
(***************************************************************************)
(* What holds of StockTransactions for every number of variants, keys,     *)
(* line lists and callers: types, that the tests of locked rows stay       *)
(* valid, that nobody waits in a circle, and that the calls implement      *)
(* BoutiqueInventory when the line lists of a key share a variant.         *)
(***************************************************************************)
EXTENDS StockTransactions, BoutiqueInventoryProofs, FiniteSetTheorems,
        WellFoundedInduction

-----------------------------------------------------------------------------
(* The inductive invariant                                                 *)

(* What a transaction relies on about the rows it has locked.              *)
RowsAsTested(p) ==
    /\ at[p] = "writing" => RowsAllow(job[p].op, job[p].lines)
    /\ job[p].op = "fulfil" =>
          \A v \in locked[p] : reserved[v] >= job[p].lines[v] /\ stock[v] >= job[p].lines[v]
    /\ job[p].op = "adjust" =>
          \A v \in locked[p] : /\ change[p] \in 0..MaxStock
                               /\ change[p] >= reserved[v]
                               /\ change[p] - stock[v] \in Deltas

(* How far a call has come: it locks its rows in the order of their ids,   *)
(* and reads and tests once it holds them all.                             *)
Progress(p) ==
    /\ at[p] = "idle" => job[p] = NoJob /\ locked[p] = {}
    /\ at[p] # "idle" => job[p] \in Job
    /\ locked[p] \subseteq Rows(p) \cap listed
    /\ \A v \in locked[p], w \in Unlocked(p) : v < w
    /\ at[p] \in {"rows", "writing"} => /\ Unlocked(p) = {}
                                        /\ job[p].op \in {"reserve", "release"}
    /\ job[p].op \in {"reserve", "release", "fulfil"} => /\ job[p].key \in Keys
                                                         /\ job[p].lines \in KeyLines[job[p].key]
    /\ job[p].op = "adjust" => /\ \E v \in Variants : Rows(p) = {v}
                               /\ locked[p] = {} => change[p] \in Deltas

CallKnows(p) == Progress(p) /\ RowsAsTested(p)

(* A row is locked by one transaction at a time.                           *)
LocksApart == \A p, q \in Callers : p # q => locked[p] \cap locked[q] = {}

IInv ==
    /\ TxTypeOK
    /\ StockCovered
    /\ \A p \in Callers : CallKnows(p)
    /\ LocksApart

LEMMA TxInitial == TxInit => IInv
<1> SUFFICES ASSUME TxInit PROVE IInv
    OBVIOUS
<1>1. InventoryTypeOK /\ StockCovered
    BY InventoryInitial DEF TxInit, InventoryIInv
<1>2. TxTypeOK
    BY <1>1 DEF TxInit, TxTypeOK
<1>3. \A p \in Callers : CallKnows(p)
    BY DEF TxInit, CallKnows, Progress, RowsAsTested, Unlocked, NoJob
<1>4. LocksApart
    BY DEF TxInit, LocksApart
<1>5. QED
    BY <1>1, <1>2, <1>3, <1>4 DEF IInv

(* A call nothing of which changes keeps what it knows while the rows it   *)
(* has locked stay as they are.                                            *)
LEMMA LockedRowsKeep ==
    ASSUME NEW q \in Callers, CallKnows(q), TxTypeOK,
           at'[q] = at[q], job'[q] = job[q], locked'[q] = locked[q], change'[q] = change[q],
           listed \subseteq listed',
           \A v \in locked[q] : stock'[v] = stock[v] /\ reserved'[v] = reserved[v]
                                /\ active'[v] = active[v]
    PROVE  CallKnows(q)'
<1>1. Progress(q)'
    BY DEF CallKnows, Progress, Rows, Unlocked
<1>2. RowsAsTested(q)'
    <2>1. ASSUME at[q] = "writing" PROVE RowsAllow(job[q].op, job[q].lines)'
        <3>1. Wanted(job[q].lines) \subseteq locked[q]
            BY <2>1 DEF CallKnows, Progress, Unlocked, Rows
        <3>2. RowsAllow(job[q].op, job[q].lines)
            BY <2>1 DEF CallKnows, RowsAsTested
        <3>3. QED
            BY <3>1, <3>2 DEF RowsAllow, CanReserve, CanRelease, CanFulfil, Available
    <2>2. RowsAsTested(q)
        BY DEF CallKnows
    <2>3. QED
        BY <2>1, <2>2 DEF RowsAsTested
<1>3. QED
    BY <1>1, <1>2 DEF CallKnows

-----------------------------------------------------------------------------
(* Steps that leave the tables alone                                       *)

LEMMA BeginningStep ==
    ASSUME IInv, NEW p \in Callers, NEW call \in Job, NEW delta \in Int,
           Begin(p, call, delta),
           call.op \in {"reserve", "release", "fulfil"} =>
               call.key \in Keys /\ call.lines \in KeyLines[call.key],
           call.op = "adjust" =>
               (\E v \in Variants : Wanted(call.lines) = {v}) /\ delta \in Deltas
    PROVE  IInv'
<1> USE DEF IInv, Begin, inventoryVars
<1>0. /\ at[p] = "idle" /\ locked[p] = {} /\ locked' = locked
      /\ at'[p] = "locking" /\ job'[p] = call /\ change'[p] = delta
    BY DEF TxTypeOK, CallKnows, Progress
<1>1. TxTypeOK'
    BY DEF TxTypeOK, InventoryTypeOK
<1>2. ASSUME NEW q \in Callers PROVE CallKnows(q)'
    <2>1. CASE q = p
        <3>1. Progress(p)'
            BY <1>0 DEF Progress, Rows, Unlocked
        <3>2. RowsAsTested(p)'
            BY <1>0 DEF RowsAsTested
        <3>3. QED
            BY <2>1, <3>1, <3>2 DEF CallKnows
    <2>2. CASE q # p
        <3>1. at'[q] = at[q] /\ job'[q] = job[q] /\ locked'[q] = locked[q] /\ change'[q] = change[q]
            BY <2>2 DEF TxTypeOK
        <3>2. QED
            BY <3>1, LockedRowsKeep
    <2>3. QED
        BY <2>1, <2>2
<1>3. LocksApart' /\ StockCovered'
    BY DEF LocksApart, StockCovered
<1>4. QED
    BY <1>1, <1>2, <1>3

LEMMA EndingStep ==
    ASSUME IInv, NEW p \in Callers, Ended(p), UNCHANGED inventoryVars
    PROVE  IInv'
<1> USE DEF IInv, Ended, inventoryVars
<1>0. at'[p] = "idle" /\ job'[p] = NoJob /\ locked'[p] = {}
    BY DEF TxTypeOK
<1>1. TxTypeOK'
    BY DEF TxTypeOK, InventoryTypeOK
<1>2. ASSUME NEW q \in Callers PROVE CallKnows(q)'
    <2>1. CASE q = p
        BY <1>0, <2>1 DEF CallKnows, Progress, RowsAsTested, NoJob, Rows, Unlocked
    <2>2. CASE q # p
        <3>1. at'[q] = at[q] /\ job'[q] = job[q] /\ locked'[q] = locked[q] /\ change'[q] = change[q]
            BY <2>2 DEF TxTypeOK
        <3>2. QED
            BY <3>1, LockedRowsKeep
    <2>3. QED
        BY <2>1, <2>2
<1>3. LocksApart' /\ StockCovered'
    BY DEF LocksApart, StockCovered, TxTypeOK
<1>4. QED
    BY <1>1, <1>2, <1>3

LEMMA MovingStep ==
    ASSUME IInv, NEW p \in Callers, NEW next \in {"rows", "writing"}, Moved(p, next),
           UNCHANGED inventoryVars,
           at[p] # "idle", Unlocked(p) = {}, job[p].op \in {"reserve", "release"},
           next = "writing" => RowsAllow(job[p].op, job[p].lines)
    PROVE  IInv'
<1> USE DEF IInv, Moved, inventoryVars
<1>0. at'[p] = next /\ UNCHANGED <<job, locked, change>>
    BY DEF TxTypeOK
<1>1. TxTypeOK'
    BY DEF TxTypeOK, InventoryTypeOK
<1>2. ASSUME NEW q \in Callers PROVE CallKnows(q)'
    <2>1. CASE q = p
        <3>1. Progress(p)'
            BY <1>0 DEF CallKnows, Progress, Rows, Unlocked
        <3>2. RowsAsTested(p)'
            BY <1>0 DEF RowsAsTested, RowsAllow, CanReserve, CanRelease, CanFulfil, Available
        <3>3. QED
            BY <2>1, <3>1, <3>2 DEF CallKnows
    <2>2. CASE q # p
        <3>1. at'[q] = at[q]
            BY <2>2 DEF TxTypeOK
        <3>2. QED
            BY <1>0, <3>1, LockedRowsKeep
    <2>3. QED
        BY <2>1, <2>2
<1>3. LocksApart' /\ StockCovered'
    BY DEF LocksApart, StockCovered
<1>4. QED
    BY <1>1, <1>2, <1>3

-----------------------------------------------------------------------------
(* Locking the next row                                                    *)

(* A finite set of natural numbers has a greatest element: else take away  *)
(* an element from a smallest set without one.                             *)
LEMMA FiniteSetsHaveGreatest ==
    ASSUME NEW S, IsFiniteSet(S), S \subseteq Nat, S # {}
    PROVE  \E m \in S : \A n \in S : n <= m
<1> DEFINE HasGreatest(X) == \E m \in X : \A n \in X : n <= m
           T == {X \in SUBSET S : X # {} /\ ~HasGreatest(X)}
<1> SUFFICES ASSUME ~HasGreatest(S) PROVE FALSE
    OBVIOUS
<1>1. PICK X \in T : \A x \in X : X \ {x} \notin T
    <2>1. \A X \in T : IsFiniteSet(X)
        BY FS_Subset
    <2>2. S \in T
        OBVIOUS
    <2>3. QED
        BY <2>1, <2>2, SetsHaveSmallest
<1>2. PICK x \in X : TRUE
    BY <1>1
<1>3. X \subseteq Nat /\ x \in Nat
    BY <1>1, <1>2
<1>4. CASE X \ {x} = {}
    <2>1. \A n \in X : n = x
        BY <1>4
    <2>2. HasGreatest(X)
        BY <1>2, <1>3, <2>1
    <2>3. QED
        BY <1>1, <2>2
<1>5. CASE X \ {x} # {}
    <2>1. PICK m \in X \ {x} : \A n \in X \ {x} : n <= m
        BY <1>1, <1>2, <1>5
    <2>2. CASE x <= m
        BY <1>1, <1>2, <1>3, <2>1, <2>2
    <2>3. CASE m <= x
        <3>1. \A n \in X : n <= x
            BY <1>3, <2>1, <2>3
        <3>2. QED
            BY <1>1, <1>2, <3>1
    <2>4. QED
        BY <1>3, <2>1, <2>2, <2>3
<1>6. QED
    BY <1>4, <1>5

(* NextRow is the first row a call does not hold yet.                      *)
LEMMA NextRowIsLeast ==
    ASSUME NEW p \in Callers, Unlocked(p) # {}
    PROVE  NextRow(p) \in Unlocked(p) /\ \A w \in Unlocked(p) : NextRow(p) <= w
<1>1. Unlocked(p) \subseteq Nat
    BY VariantsAreIds DEF Unlocked, Rows, Wanted
<1>2. \E v \in Unlocked(p) : \A w \in Unlocked(p) : v <= w
    BY <1>1, SetsHaveLeast
<1>3. QED
    BY <1>2 DEF NextRow

LEMMA TakingStep ==
    ASSUME IInv, NEW p \in Callers, LockRow(p)
    PROVE  IInv'
<1>0. PICK v : v = NextRow(p)
    OBVIOUS
<1>a. /\ TxTypeOK /\ StockCovered /\ LocksApart
      /\ \A q \in Callers : CallKnows(q)
      /\ at[p] = "locking" /\ Free(v) /\ v \in listed /\ RowPasses(p, v)
      /\ locked' = [locked EXCEPT ![p] = locked[p] \cup {v}]
      /\ change' = [change EXCEPT ![p] =
                     IF job[p].op = "adjust" THEN stock[v] + change[p] ELSE change[p]]
      /\ UNCHANGED <<inventoryVars, at, job>>
    BY <1>0 DEF IInv, LockRow, Locking, Took
<1>b. v \in Unlocked(p) /\ \A w \in Unlocked(p) : v <= w
    BY <1>0, NextRowIsLeast DEF LockRow, Locking
<1>c. v \in Variants /\ v \in Rows(p) /\ Unlocked(p) \subseteq Nat /\ v \in Nat
    BY <1>b, VariantsAreIds DEF Unlocked, Rows, Wanted
<1>d. stock[v] \in Nat /\ reserved[v] \in Nat /\ change[p] \in Int
    BY <1>a, <1>c DEF TxTypeOK, InventoryTypeOK
<1>e. /\ locked'[p] = locked[p] \cup {v}
      /\ change'[p] = IF job[p].op = "adjust" THEN stock[v] + change[p] ELSE change[p]
      /\ \A q \in Callers \ {p} : locked'[q] = locked[q] /\ change'[q] = change[q]
    BY <1>a DEF TxTypeOK
<1>1. TxTypeOK'
    <2>1. InventoryTypeOK'
        BY <1>a DEF TxTypeOK, InventoryTypeOK, inventoryVars
    <2>2. locked' \in [Callers -> SUBSET Variants] /\ change' \in [Callers -> Int]
        BY <1>a, <1>c, <1>d DEF TxTypeOK
    <2>3. QED
        BY <1>a, <2>1, <2>2 DEF TxTypeOK
<1>2. ASSUME NEW q \in Callers PROVE CallKnows(q)'
    <2>1. CASE q = p
        <3>0. CallKnows(p) /\ UNCHANGED <<at, job, listed, stock, reserved>>
            BY <1>a DEF inventoryVars
        <3>1. Unlocked(p)' = Unlocked(p) \ {v} /\ Rows(p)' = Rows(p)
            BY <1>e, <3>0 DEF Unlocked, Rows
        <3>2. \A x \in locked'[p], w \in Unlocked(p)' : x < w
            BY <1>b, <1>c, <1>e, <3>0, <3>1 DEF CallKnows, Progress
        <3>3. locked'[p] \subseteq Rows(p)' \cap listed'
            BY <1>a, <1>c, <1>e, <3>0, <3>1 DEF CallKnows, Progress
        <3>4. Progress(p)'
            BY <1>a, <1>e, <3>0, <3>1, <3>2, <3>3 DEF CallKnows, Progress
        <3>5. RowsAsTested(p)'
            <4>1. CASE job[p].op = "adjust"
                <5>1. locked[p] = {} /\ change[p] \in Deltas
                    BY <1>b, <1>c, <3>0, <4>1 DEF CallKnows, Progress, Unlocked
                <5>2. locked'[p] = {v} /\ change'[p] = stock[v] + change[p]
                    BY <1>e, <4>1, <5>1
                <5>3. /\ change'[p] \in 0..MaxStock /\ change'[p] >= reserved[v]
                      /\ change'[p] - stock[v] \in Deltas
                    BY <1>a, <1>d, <4>1, <5>1, <5>2 DEF RowPasses
                <5>4. QED
                    BY <1>a, <3>0, <4>1, <5>2, <5>3 DEF RowsAsTested
            <4>2. CASE job[p].op = "fulfil"
                BY <1>a, <1>e, <3>0, <4>2 DEF RowsAsTested, CallKnows, RowPasses
            <4>3. CASE job[p].op \notin {"adjust", "fulfil"}
                BY <1>a, <3>0, <4>3 DEF RowsAsTested
            <4>4. QED
                BY <4>1, <4>2, <4>3
        <3>6. QED
            BY <2>1, <3>4, <3>5 DEF CallKnows
    <2>2. CASE q # p
        BY <1>a, <1>e, <2>2, LockedRowsKeep DEF inventoryVars
    <2>3. QED
        BY <2>1, <2>2
<1>3. LocksApart'
    BY <1>a, <1>e DEF LocksApart, Free, HasLock
<1>4. StockCovered'
    BY <1>a DEF StockCovered, inventoryVars
<1>5. QED
    BY <1>1, <1>2, <1>3, <1>4 DEF IInv

-----------------------------------------------------------------------------
(* Steps that write                                                        *)

(* A call that writes holds all its rows, and they pass its test.          *)
LEMMA ReadyMeansAllowed ==
    ASSUME IInv, NEW p \in Callers, ReadyToWrite(p), job[p].op \in {"reserve", "release", "fulfil"}
    PROVE  /\ locked[p] = Rows(p) /\ Rows(p) \subseteq listed
           /\ RowsAllow(job[p].op, job[p].lines)
           /\ job[p].key \in Keys /\ job[p].lines \in KeyLines[job[p].key]
           /\ job[p].lines \in Lines /\ job[p].lines \in [Variants -> Nat]
<1>1. CallKnows(p) /\ TxTypeOK
    BY DEF IInv
<1>2. locked[p] = Rows(p) /\ Rows(p) \subseteq listed
    BY <1>1 DEF CallKnows, Progress, ReadyToWrite, Unlocked
<1>3. RowsAllow(job[p].op, job[p].lines)
    <2>1. CASE at[p] = "writing"
        BY <1>1, <2>1 DEF CallKnows, RowsAsTested
    <2>2. CASE at[p] # "writing"
        <3>1. job[p].op = "fulfil"
            BY <2>2 DEF ReadyToWrite
        <3>2. CanFulfil(job[p].lines)
            BY <1>1, <1>2, <3>1 DEF CallKnows, RowsAsTested, CanFulfil, Rows
        <3>3. QED
            BY <3>1, <3>2 DEF RowsAllow
    <2>3. QED
        BY <2>1, <2>2
<1>4. job[p].key \in Keys /\ job[p].lines \in KeyLines[job[p].key]
    BY <1>1 DEF CallKnows, Progress
<1>5. job[p].lines \in Lines
    BY <1>4, KeyLinesAreLines
<1>6. job[p].lines \in [Variants -> Nat]
    BY <1>5, LinesAreQuantities
<1>7. QED
    BY <1>2, <1>3, <1>4, <1>5, <1>6

(* What a call writes leaves the rows of all others alone.                 *)
LEMMA WritingStep ==
    ASSUME IInv, NEW p \in Callers, Ended(p),
           InventoryTypeOK', StockCovered',
           listed \subseteq listed', active' = active,
           \A v \in Variants \ locked[p] : stock'[v] = stock[v] /\ reserved'[v] = reserved[v]
    PROVE  IInv'
<1>0. /\ TxTypeOK /\ LocksApart
      /\ \A q \in Callers : CallKnows(q)
    BY DEF IInv
<1>a. /\ at'[p] = "idle" /\ job'[p] = NoJob /\ locked'[p] = {}
      /\ \A q \in Callers \ {p} : /\ at'[q] = at[q] /\ job'[q] = job[q]
                                  /\ locked'[q] = locked[q] /\ change'[q] = change[q]
    BY <1>0 DEF TxTypeOK, Ended
<1>1. TxTypeOK'
    BY <1>0 DEF TxTypeOK, Ended
<1>2. ASSUME NEW q \in Callers PROVE CallKnows(q)'
    <2>1. CASE q = p
        BY <1>a, <2>1 DEF CallKnows, Progress, RowsAsTested, NoJob, Rows, Unlocked
    <2>2. CASE q # p
        <3>1. locked[q] \subseteq Variants /\ locked[q] \cap locked[p] = {}
            BY <1>0, <2>2 DEF TxTypeOK, LocksApart
        <3>2. \A v \in locked[q] : stock'[v] = stock[v] /\ reserved'[v] = reserved[v]
                                   /\ active'[v] = active[v]
            BY <3>1
        <3>3. QED
            BY <1>0, <1>a, <2>2, <3>2, LockedRowsKeep
    <2>3. QED
        BY <2>1, <2>2
<1>3. LocksApart'
    BY <1>0, <1>a DEF LocksApart
<1>4. QED
    BY <1>1, <1>2, <1>3 DEF IInv

(* A reservation, release or delivery.                                     *)
LEMMA CommittingLinesStep ==
    ASSUME IInv, NEW p \in Callers, CommitLines(p)
    PROVE  IInv'
<1> DEFINE l == job[p].lines
           op == job[p].op
<1>0. /\ op \in {"reserve", "release", "fulfil"}
      /\ Ended(p) /\ listed' = listed /\ active' = active
      /\ InventoryTypeOK /\ StockCovered
    BY DEF CommitLines, IInv, TxTypeOK
<1>a. /\ locked[p] = Wanted(l) /\ RowsAllow(op, l) /\ l \in [Variants -> Nat] /\ job[p].key \in Keys
    BY ReadyMeansAllowed DEF CommitLines, Rows
<1>b. \A v \in Variants : Change(p)[v] = IF op = "reserve" THEN l[v] ELSE -l[v]
    BY <1>0, <1>a DEF Change, Sign
<1>1. \A v \in Variants : /\ reserved'[v] = IF op = "reserve" THEN reserved[v] + l[v]
                                                              ELSE reserved[v] - l[v]
                          /\ stock'[v] = IF op = "fulfil" THEN stock[v] - l[v] ELSE stock[v]
    BY <1>0, <1>a, <1>b DEF CommitLines, InventoryTypeOK
<1>2. \A v \in Variants \ Wanted(l) : l[v] = 0
    BY <1>a, UnwantedIsZero
<1>3. \A v \in Variants \ locked[p] : stock'[v] = stock[v] /\ reserved'[v] = reserved[v]
    BY <1>0, <1>1, <1>2, <1>a DEF InventoryTypeOK
<1>4. ASSUME NEW v \in Variants
      PROVE  reserved'[v] \in Nat /\ stock'[v] \in Nat /\ reserved'[v] <= stock'[v]
    <2>1. reserved[v] \in Nat /\ stock[v] \in Nat /\ l[v] \in Nat /\ reserved[v] <= stock[v]
        BY <1>0, <1>a DEF InventoryTypeOK, StockCovered
    <2>2. CASE v \notin Wanted(l)
        BY <1>3, <1>a, <2>1, <2>2
    <2>3. CASE v \in Wanted(l)
        BY <1>0, <1>1, <1>a, <2>1, <2>3 DEF RowsAllow, CanReserve, CanRelease, CanFulfil, Available
    <2>4. QED
        BY <2>2, <2>3
<1>5. InventoryTypeOK'
    <2>1. reserved' \in [Variants -> Nat]
        BY <1>4 DEF CommitLines
    <2>2. stock' \in [Variants -> Nat]
        BY <1>0, <1>4 DEF CommitLines, InventoryTypeOK
    <2>3. \A v \in Variants : Change(p)[v] \in Int
        BY <1>a, <1>b
    <2>4. ledger' \in [Keys -> [Variants -> Int]] /\ history' \subseteq Keys
        BY <1>0, <1>a, <2>3 DEF CommitLines, InsertMovements, InventoryTypeOK
    <2>5. QED
        BY <1>0, <2>1, <2>2, <2>4 DEF InventoryTypeOK
<1>6. StockCovered'
    BY <1>4 DEF StockCovered
<1>7. QED
    BY <1>0, <1>3, <1>5, <1>6, WritingStep

(* A correction writes a stock that still covers what is reserved.         *)
LEMMA CommittingAdjustStep ==
    ASSUME IInv, NEW p \in Callers, CommitAdjust(p)
    PROVE  IInv'
<1>0. /\ job[p].op = "adjust" /\ Unlocked(p) = {}
      /\ stock' = [v \in Variants |-> IF v \in Rows(p) THEN change[p] ELSE stock[v]]
      /\ Ended(p) /\ UNCHANGED <<listed, active, reserved, ledger, history>>
      /\ InventoryTypeOK /\ StockCovered /\ CallKnows(p)
    BY DEF CommitAdjust, ReadyToWrite, IInv, TxTypeOK, CallKnows, Progress
<1>1. locked[p] = Rows(p)
    BY <1>0 DEF CallKnows, Progress, Unlocked
<1>2. \A v \in Rows(p) : change[p] \in Nat /\ change[p] >= reserved[v]
    BY <1>0, <1>1, MaxStockIsNat DEF CallKnows, RowsAsTested
<1>3. InventoryTypeOK'
    BY <1>0, <1>2 DEF InventoryTypeOK
<1>4. StockCovered'
    BY <1>0, <1>2 DEF StockCovered, InventoryTypeOK
<1>5. \A v \in Variants \ locked[p] : stock'[v] = stock[v] /\ reserved'[v] = reserved[v]
    BY <1>0, <1>1
<1>6. QED
    BY <1>0, <1>3, <1>4, <1>5, WritingStep

(* The single statements of createVariant and setVariantActive write a row *)
(* nobody has locked.                                                      *)
LEMMA SingleStatementStep ==
    ASSUME IInv, NEW v \in Variants, InventoryTypeOK', StockCovered', UNCHANGED callVars,
           v \notin listed \/ Free(v), listed \subseteq listed',
           \A w \in Variants \ {v} : /\ stock'[w] = stock[w] /\ reserved'[w] = reserved[w]
                                     /\ active'[w] = active[w]
    PROVE  IInv'
<1>0. TxTypeOK /\ LocksApart /\ \A q \in Callers : CallKnows(q)
    BY DEF IInv
<1>1. TxTypeOK'
    BY <1>0 DEF TxTypeOK, callVars
<1>2. ASSUME NEW q \in Callers PROVE CallKnows(q)'
    <2>1. v \notin locked[q] /\ locked[q] \subseteq Variants
        BY <1>0 DEF CallKnows, Progress, Free, HasLock, TxTypeOK
    <2>2. \A w \in locked[q] : stock'[w] = stock[w] /\ reserved'[w] = reserved[w]
                               /\ active'[w] = active[w]
        BY <2>1
    <2>3. QED
        BY <1>0, <2>2, LockedRowsKeep DEF callVars
<1>3. LocksApart'
    BY <1>0 DEF LocksApart, callVars
<1>4. QED
    BY <1>1, <1>2, <1>3 DEF IInv

LEMMA TxInductive == IInv /\ [TxNext]_txVars => IInv'
<1> SUFFICES ASSUME IInv, [TxNext]_txVars PROVE IInv'
    OBVIOUS
<1>0. InventoryIInv
    BY DEF IInv, TxTypeOK, InventoryIInv
<1>1. CASE UNCHANGED txVars
    BY <1>1 DEF txVars, callVars, inventoryVars, IInv, TxTypeOK, InventoryTypeOK, StockCovered,
                LocksApart, CallKnows, Progress, RowsAsTested, Rows, Unlocked, RowsAllow,
                CanReserve, CanRelease, CanFulfil, Available
<1>2. ASSUME NEW p \in Callers, NEW op \in {"reserve", "release", "fulfil"}, NEW key \in Keys,
             NEW lines \in KeyLines[key], BeginLines(p, op, key, lines)
      PROVE  IInv'
    <2>1. lines \in Lines
        BY KeyLinesAreLines
    <2>2. lines \in [Variants -> Nat]
        BY <2>1, LinesAreQuantities
    <2>3. PICK call : call = [op |-> op, key |-> key, lines |-> lines]
        OBVIOUS
    <2>4. /\ call \in Job /\ call.op # "adjust" /\ 0 \in Int
          /\ call.key \in Keys /\ call.lines \in KeyLines[call.key]
        BY <2>2, <2>3 DEF Job, Ops
    <2>5. Begin(p, call, 0)
        BY <1>2, <2>3 DEF BeginLines
    <2>6. QED
        BY <2>4, <2>5, BeginningStep
<1>3. ASSUME NEW p \in Callers, NEW v \in Variants, NEW delta \in Deltas, BeginAdjust(p, v, delta)
      PROVE  IInv'
    <2>1. PICK call : call = [op |-> "adjust", key |-> NoKey, lines |-> OneOf(v)]
        OBVIOUS
    <2>2. OneOf(v) \in [Variants -> Nat] /\ Wanted(OneOf(v)) = {v}
        BY DEF OneOf, NoLines, Wanted
    <2>3. call \in Job /\ call.op = "adjust" /\ Wanted(call.lines) = {v} /\ delta \in Int
        BY <2>1, <2>2, DeltasAreChanges DEF Job, Ops
    <2>4. Begin(p, call, delta)
        BY <1>3, <2>1 DEF BeginAdjust
    <2>5. QED
        BY <2>3, <2>4, BeginningStep
<1>4. ASSUME NEW p \in Callers, LockRow(p) PROVE IInv'
    BY <1>4, TakingStep
<1>5. ASSUME NEW p \in Callers, RefuseRow(p) \/ Rollback(p) PROVE IInv'
    BY <1>5, EndingStep DEF RefuseRow, Rollback
<1>6. ASSUME NEW p \in Callers, ReadMovements(p) PROVE IInv'
    <2>1. CASE Ended(p)
        BY <1>6, <2>1, EndingStep DEF ReadMovements
    <2>2. CASE Moved(p, "rows")
        BY <1>6, <2>2, MovingStep DEF ReadMovements
    <2>3. QED
        BY <1>6, <2>1, <2>2 DEF ReadMovements
<1>7. ASSUME NEW p \in Callers, TestRows(p) PROVE IInv'
    <2>0. at[p] = "rows" /\ Unlocked(p) = {} /\ job[p].op \in {"reserve", "release"}
        BY <1>7 DEF TestRows, IInv, CallKnows, Progress
    <2>1. CASE Ended(p)
        BY <1>7, <2>1, EndingStep DEF TestRows
    <2>2. CASE Moved(p, "writing") /\ RowsAllow(job[p].op, job[p].lines)
        BY <1>7, <2>0, <2>2, MovingStep DEF TestRows
    <2>3. QED
        BY <1>7, <2>1, <2>2 DEF TestRows
<1>8. ASSUME NEW p \in Callers, CommitLines(p) \/ CommitAdjust(p) PROVE IInv'
    BY <1>8, CommittingLinesStep, CommittingAdjustStep
<1>9. ASSUME NEW v \in Variants, NEW value \in BOOLEAN, UpdateActive(v, value) PROVE IInv'
    <2>1. SetVariantActive(v, value) /\ Free(v) /\ UNCHANGED callVars
        BY <1>9 DEF UpdateActive
    <2>2. InventoryIInv'
        BY <1>0, <2>1, InventoryInductive DEF InventoryNext
    <2>3. QED
        BY <1>0, <2>1, <2>2, SingleStatementStep
        DEF SetVariantActive, InventoryIInv, InventoryTypeOK
<1>10. ASSUME NEW v \in Variants, NEW quantity \in 0..MaxStock, InsertVariant(v, quantity)
       PROVE  IInv'
    <2>1. CreateVariant(v, quantity) /\ UNCHANGED callVars
        BY <1>10 DEF InsertVariant
    <2>2. InventoryIInv'
        BY <1>0, <2>1, InventoryInductive DEF InventoryNext
    <2>3. QED
        BY <1>0, <2>1, <2>2, SingleStatementStep
        DEF CreateVariant, InventoryIInv, InventoryTypeOK
<1>11. QED
    BY <1>1, <1>2, <1>3, <1>4, <1>5, <1>6, <1>7, <1>8, <1>9, <1>10 DEF TxNext, Step

LEMMA TxSpecIInv == TxSpec => []IInv
<1>1. QED
    BY TxInitial, TxInductive, PTL DEF TxSpec

-----------------------------------------------------------------------------
(* Theorems                                                                *)

(* The tables and the transactions keep their types, wherever reserveStock,*)
(* releaseStock, fulfillStock and adjustStock are cut off.                 *)
THEOREM TxTypeCorrect == TxSpec => []TxTypeOK
<1>1. IInv => TxTypeOK
    BY DEF IInv
<1>2. QED
    BY <1>1, TxSpecIInv, PTL

(* What a transaction tested is still so when it writes, whatever others   *)
(* do in between.                                                          *)
THEOREM TestsHoldUntilCommit == TxSpec => []TestedRowsStayValid
<1>1. IInv => TestedRowsStayValid
    <2> SUFFICES ASSUME IInv, NEW p \in Callers
                 PROVE  /\ \A q \in Callers \ {p} : locked[p] \cap locked[q] = {}
                        /\ at[p] = "writing" => RowsAllow(job[p].op, job[p].lines)
                        /\ job[p].op = "adjust" /\ locked[p] # {} =>
                              \A v \in Rows(p) : change[p] >= reserved[v]
        BY DEF TestedRowsStayValid
    <2>1. CallKnows(p) /\ LocksApart
        BY DEF IInv
    <2>2. ASSUME job[p].op = "adjust", locked[p] # {} PROVE Rows(p) = locked[p]
        BY <2>1, <2>2 DEF CallKnows, Progress
    <2>3. QED
        BY <2>1, <2>2 DEF CallKnows, RowsAsTested, LocksApart
<1>2. QED
    BY <1>1, TxSpecIInv, PTL

(* Nobody waits in a circle for rows, for any number of calls: the one     *)
(* that wants the greatest of the rows waits for somebody who holds all of *)
(* its smaller ones and wants a greater one still, or nothing.             *)
THEOREM LocksNeverCycle == TxSpec => []NoLockCycle
<1>1. IInv => NoLockCycle
    <2> SUFFICES ASSUME IInv, NEW waiting \in (SUBSET Callers) \ {{}},
                        \A p \in waiting : \E q \in waiting : Waits(p, q)
                 PROVE  FALSE
        BY DEF NoLockCycle
    <2> DEFINE S == {NextRow(p) : p \in waiting}
    <2>1. \A p \in waiting : Unlocked(p) # {}
        BY DEF Waits, Locking
    <2>2. \A p \in waiting : NextRow(p) \in Unlocked(p)
        BY <2>1, NextRowIsLeast
    <2>3. S \subseteq Variants /\ S # {}
        BY <2>2 DEF Unlocked, Rows, Wanted
    <2>4. IsFiniteSet(S) /\ S \subseteq Nat
        BY <2>3, FinitelyManyVariants, FS_Subset, VariantsAreIds
    <2>5. PICK m \in S : \A n \in S : n <= m
        BY <2>3, <2>4, FiniteSetsHaveGreatest
    <2>6. PICK p \in waiting : m = NextRow(p)
        BY <2>5
    <2>7. PICK q \in waiting : NextRow(p) \in locked[q]
        BY <2>6 DEF Waits, HasLock
    <2>8. m < NextRow(q)
        BY <2>2, <2>6, <2>7 DEF IInv, CallKnows, Progress
    <2>9. NextRow(q) <= m /\ m \in Nat /\ NextRow(q) \in Nat
        BY <2>4, <2>5
    <2>10. QED
        BY <2>8, <2>9
<1>2. QED
    BY <1>1, TxSpecIInv, PTL

-----------------------------------------------------------------------------
(* The refinement                                                          *)

(* Two line lists the clients send with one key share a variant: a guest   *)
(* who retries has the same cart, or has added to it.                      *)
CartsOfAKeyMeet ==
    \A key \in Keys : \A l, m \in KeyLines[key] : Wanted(l) \cap Wanted(m) # {}

(* What the movements of the key said stays true until the commit.         *)
VerdictStands(p) ==
    at[p] \in {"rows", "writing"} =>
        KeyVerdict(job[p].op, job[p].key, job[p].lines) = "proceed"

VerdictsStand == \A p \in Callers : VerdictStands(p)

LEMMA VerdictKept ==
    ASSUME NEW p \in Callers, VerdictStands(p), at'[p] = at[p], job'[p] = job[p],
           at[p] \in {"rows", "writing"} =>
               /\ job[p].key \in history' <=> job[p].key \in history
               /\ ledger'[job[p].key] = ledger[job[p].key]
    PROVE  VerdictStands(p)'
BY DEF VerdictStands, KeyVerdict, Held, Matches

(* Two calls with one key share a variant, which only one of them holds:   *)
(* while one has all its rows the other writes no movement of the key.     *)
LEMMA KeyIsLocked ==
    ASSUME IInv, CartsOfAKeyMeet, NEW p \in Callers, NEW q \in Callers, p # q,
           CommitLines(p), at[q] \in {"rows", "writing"}
    PROVE  job[q].key # job[p].key
<1>1. /\ locked[p] = Wanted(job[p].lines)
      /\ job[p].key \in Keys /\ job[p].lines \in KeyLines[job[p].key]
    BY ReadyMeansAllowed DEF CommitLines, Rows
<1>2. CallKnows(q) /\ LocksApart
    BY DEF IInv
<1>3. job[q].op \in {"reserve", "release"} /\ Unlocked(q) = {}
    BY <1>2 DEF CallKnows, Progress
<1>4. Wanted(job[q].lines) \subseteq locked[q] /\ job[q].lines \in KeyLines[job[q].key]
    BY <1>2, <1>3 DEF CallKnows, Progress, Unlocked, Rows
<1>5. Wanted(job[p].lines) \cap Wanted(job[q].lines) = {}
    BY <1>1, <1>2, <1>4 DEF LocksApart
<1>6. QED
    BY <1>1, <1>4, <1>5 DEF CartsOfAKeyMeet

LEMMA VerdictsInductive ==
    ASSUME IInv, CartsOfAKeyMeet, VerdictsStand, [TxNext]_txVars
    PROVE  VerdictsStand'
<1> SUFFICES ASSUME NEW q \in Callers PROVE VerdictStands(q)'
    BY DEF VerdictsStand
<1>0. VerdictStands(q) /\ TxTypeOK /\ CallKnows(q)
    BY DEF VerdictsStand, IInv
<1>1. CASE UNCHANGED <<ledger, history>> /\ at'[q] = at[q] /\ job'[q] = job[q]
    BY <1>0, <1>1, VerdictKept
<1>2. CASE at'[q] \in {"idle", "locking"}
    BY <1>2 DEF VerdictStands
<1>3. ASSUME NEW p \in Callers, CommitLines(p) PROVE VerdictStands(q)'
    <2>1. CASE p = q
        <3>1. at'[q] = "idle"
            BY <1>0, <1>3, <2>1 DEF CommitLines, Ended, TxTypeOK
        <3>2. QED
            BY <1>2, <3>1
    <2>2. CASE p # q
        <3>1. at'[q] = at[q] /\ job'[q] = job[q]
            BY <1>0, <1>3, <2>2 DEF CommitLines, Ended, TxTypeOK
        <3>2. ASSUME at[q] \in {"rows", "writing"}
              PROVE  /\ job[q].key \in history' <=> job[q].key \in history
                     /\ ledger'[job[q].key] = ledger[job[q].key]
            <4>1. job[q].key # job[p].key
                BY <1>3, <2>2, <3>2, KeyIsLocked
            <4>2. job[q].key \in Keys
                BY <1>0, <3>2 DEF CallKnows, Progress
            <4>3. QED
                BY <1>0, <1>3, <4>1, <4>2
                DEF CommitLines, InsertMovements, TxTypeOK, InventoryTypeOK
        <3>3. QED
            BY <1>0, <3>1, <3>2, VerdictKept
    <2>3. QED
        BY <2>1, <2>2
<1>4. ASSUME NEW p \in Callers, ReadMovements(p), Moved(p, "rows"),
             KeyVerdict(job[p].op, job[p].key, job[p].lines) = "proceed"
      PROVE  VerdictStands(q)'
    <2>1. UNCHANGED <<ledger, history, job>>
        BY <1>4 DEF ReadMovements, Moved, inventoryVars
    <2>2. CASE p = q
        BY <1>4, <2>1, <2>2 DEF VerdictStands, KeyVerdict, Held, Matches
    <2>3. CASE p # q
        <3>1. at'[q] = at[q]
            BY <1>0, <1>4, <2>3 DEF Moved, TxTypeOK
        <3>2. QED
            BY <1>1, <2>1, <3>1
    <2>4. QED
        BY <2>2, <2>3
<1>5. ASSUME NEW p \in Callers, TestRows(p), Moved(p, "writing")
      PROVE  VerdictStands(q)'
    <2>1. UNCHANGED <<ledger, history, job>> /\ at[p] = "rows"
        BY <1>5 DEF TestRows, Moved, inventoryVars
    <2>2. CASE p = q
        <3>1. KeyVerdict(job[q].op, job[q].key, job[q].lines) = "proceed"
            BY <1>0, <2>1, <2>2 DEF VerdictStands
        <3>2. QED
            BY <2>1, <3>1 DEF VerdictStands, KeyVerdict, Held, Matches
    <2>3. CASE p # q
        <3>1. at'[q] = at[q]
            BY <1>0, <1>5, <2>3 DEF Moved, TxTypeOK
        <3>2. QED
            BY <1>1, <2>1, <3>1
    <2>4. QED
        BY <2>2, <2>3
<1>6. ASSUME NEW p \in Callers, Ended(p), UNCHANGED <<ledger, history>>
      PROVE  VerdictStands(q)'
    <2>1. at'[p] = "idle" /\ (p # q => at'[q] = at[q] /\ job'[q] = job[q])
        BY <1>0, <1>6 DEF Ended, TxTypeOK
    <2>2. QED
        BY <1>1, <1>2, <1>6, <2>1
<1>7. ASSUME NEW p \in Callers, LockRow(p) PROVE VerdictStands(q)'
    BY <1>1, <1>7 DEF LockRow, Took, inventoryVars
<1>8. ASSUME NEW p \in Callers, NEW call, NEW delta, Begin(p, call, delta)
      PROVE  VerdictStands(q)'
    <2>1. at'[p] = "locking" /\ (p # q => at'[q] = at[q] /\ job'[q] = job[q])
          /\ UNCHANGED <<ledger, history>>
        BY <1>0, <1>8 DEF Begin, TxTypeOK, inventoryVars
    <2>2. QED
        BY <1>1, <1>2, <2>1
<1>9. CASE UNCHANGED <<ledger, history, callVars>>
    BY <1>1, <1>9 DEF callVars
<1>10. ASSUME NEW p \in Callers, Step(p) \/ Rollback(p) PROVE VerdictStands(q)'
    <2>1. CASE ReadMovements(p)
        BY <1>4, <1>6, <2>1 DEF ReadMovements, inventoryVars
    <2>2. CASE TestRows(p)
        BY <1>5, <1>6, <2>2 DEF TestRows, inventoryVars
    <2>3. CASE RefuseRow(p) \/ CommitAdjust(p) \/ Rollback(p)
        BY <1>6, <2>3 DEF RefuseRow, CommitAdjust, Rollback, inventoryVars
    <2>4. QED
        BY <1>3, <1>7, <1>10, <2>1, <2>2, <2>3 DEF Step
<1>11. ASSUME NEW v, (\E value : UpdateActive(v, value))
                     \/ (\E quantity : InsertVariant(v, quantity))
       PROVE  VerdictStands(q)'
    BY <1>9, <1>11 DEF UpdateActive, InsertVariant, SetVariantActive, CreateVariant
<1>12. CASE UNCHANGED txVars
    BY <1>9, <1>12 DEF txVars, inventoryVars
<1>13. QED
    BY <1>8, <1>10, <1>11, <1>12 DEF TxNext, BeginLines, BeginAdjust

(* A commit is the whole call of BoutiqueInventory.                        *)
LEMMA CommitIsInventoryStep ==
    ASSUME IInv, VerdictsStand, NEW p \in Callers, CommitLines(p)
    PROVE  InventoryNext
<1> DEFINE l == job[p].lines
           op == job[p].op
           k == job[p].key
<1>0. /\ op \in {"reserve", "release", "fulfil"} /\ InventoryTypeOK
      /\ Wanted(l) \subseteq listed /\ RowsAllow(op, l)
      /\ k \in Keys /\ l \in Lines /\ l \in [Variants -> Nat]
    BY ReadyMeansAllowed DEF CommitLines, Rows, IInv, TxTypeOK
<1>1. KeyVerdict(op, k, l) = "proceed"
    <2>1. CASE op = "fulfil"
        BY <2>1 DEF KeyVerdict
    <2>2. CASE op # "fulfil"
        BY <1>0, <2>2 DEF CommitLines, ReadyToWrite, VerdictsStand, VerdictStands
    <2>3. QED
        BY <2>1, <2>2
<1>2. Answer(op, k, l) = "done"
    BY <1>0, <1>1 DEF Answer
<1>3. \A v \in Variants : /\ Change(p)[v] = IF op = "reserve" THEN l[v] ELSE -l[v]
                          /\ l[v] \in Nat /\ reserved[v] \in Nat /\ stock[v] \in Nat
                          /\ ledger[k][v] \in Int
    BY <1>0 DEF Change, Sign, InventoryTypeOK
<1>4. CASE op = "reserve"
    <2>1. reserved' = [v \in Variants |-> reserved[v] + l[v]]
        BY <1>3, <1>4 DEF CommitLines
    <2>2. InsertMovements(k, l)
        BY <1>3, <1>4 DEF CommitLines, InsertMovements
    <2>3. ReserveStock(k, l)
        BY <1>2, <1>4, <2>1, <2>2 DEF CommitLines, ReserveStock
    <2>4. QED
        BY <1>0, <2>3 DEF InventoryNext
<1>5. CASE op \in {"release", "fulfil"}
    <2>1. reserved' = [v \in Variants |-> reserved[v] - l[v]]
        BY <1>3, <1>5 DEF CommitLines
    <2>2. InsertMovements(k, Negated(l))
        BY <1>3, <1>5 DEF CommitLines, InsertMovements, Negated
    <2>3. CASE op = "release"
        <3>1. ReleaseStock(k, l)
            BY <1>2, <2>1, <2>2, <2>3 DEF CommitLines, ReleaseStock
        <3>2. QED
            BY <1>0, <3>1 DEF InventoryNext
    <2>4. CASE op = "fulfil"
        <3>1. stock' = [v \in Variants |-> stock[v] - l[v]]
            BY <1>3, <2>4 DEF CommitLines
        <3>2. FulfilStock(k, l)
            BY <1>2, <2>1, <2>2, <2>4, <3>1 DEF CommitLines, FulfilStock
        <3>3. QED
            BY <1>0, <3>2 DEF InventoryNext
    <2>5. QED
        BY <1>5, <2>3, <2>4
<1>6. QED
    BY <1>0, <1>4, <1>5

(* A correction is one by the difference to the stock its row still has.   *)
LEMMA CommitIsAdjustStep ==
    ASSUME IInv, NEW p \in Callers, CommitAdjust(p)
    PROVE  InventoryNext
<1>0. /\ job[p].op = "adjust" /\ Unlocked(p) = {}
      /\ stock' = [v \in Variants |-> IF v \in Rows(p) THEN change[p] ELSE stock[v]]
      /\ UNCHANGED <<listed, active, reserved, ledger, history>>
      /\ InventoryTypeOK /\ CallKnows(p)
    BY DEF CommitAdjust, ReadyToWrite, IInv, TxTypeOK, CallKnows, Progress
<1>1. PICK v \in Variants : Rows(p) = {v}
    BY <1>0 DEF CallKnows, Progress
<1>2. v \in locked[p] /\ v \in listed
    BY <1>0, <1>1 DEF CallKnows, Progress, Unlocked
<1>3. change[p] \in 0..MaxStock /\ change[p] >= reserved[v] /\ change[p] - stock[v] \in Deltas
    BY <1>0, <1>2 DEF CallKnows, RowsAsTested
<1>4. stock[v] \in Nat /\ reserved[v] \in Nat /\ change[p] \in Int /\ MaxStock \in Nat
    BY <1>0, <1>3, MaxStockIsNat DEF InventoryTypeOK
<1>5. PICK delta \in Deltas : delta = change[p] - stock[v]
    BY <1>3
<1>6. stock[v] + delta = change[p]
    BY <1>4, <1>5
<1>7. stock' = [stock EXCEPT ![v] = stock[v] + delta]
    BY <1>0, <1>1, <1>6 DEF InventoryTypeOK
<1>8. AdjustStock(v, delta)
    <2>1. change[p] >= 0 /\ change[p] <= MaxStock
        BY <1>3, <1>4
    <2>2. stock[v] + delta >= reserved[v] /\ stock[v] + delta >= 0 /\ stock[v] + delta <= MaxStock
        BY <1>3, <1>6, <2>1
    <2>3. QED
        BY <1>0, <1>2, <1>7, <2>2 DEF AdjustStock
<1>9. QED
    BY <1>8 DEF InventoryNext

LEMMA TxStepImplements ==
    ASSUME IInv, VerdictsStand, [TxNext]_txVars
    PROVE  [InventoryNext]_inventoryVars
<1>1. ASSUME NEW v \in Variants, NEW value \in BOOLEAN, UpdateActive(v, value)
      PROVE  InventoryNext
    BY <1>1 DEF UpdateActive, InventoryNext
<1>2. ASSUME NEW v \in Variants, NEW quantity \in 0..MaxStock, InsertVariant(v, quantity)
      PROVE  InventoryNext
    BY <1>2 DEF InsertVariant, InventoryNext
<1>3. ASSUME NEW p \in Callers, Step(p) \/ Rollback(p)
      PROVE  InventoryNext \/ UNCHANGED inventoryVars
    BY <1>3, CommitIsInventoryStep, CommitIsAdjustStep
    DEF Step, Rollback, LockRow, Took, RefuseRow, ReadMovements, TestRows
<1>4. ASSUME NEW p \in Callers, NEW call, NEW delta, Begin(p, call, delta)
      PROVE  UNCHANGED inventoryVars
    BY <1>4 DEF Begin, inventoryVars
<1>5. CASE UNCHANGED txVars
    BY <1>5 DEF txVars
<1>6. QED
    BY <1>1, <1>2, <1>3, <1>4, <1>5 DEF TxNext, BeginLines, BeginAdjust

(* The statements of several callers change the tables as if every call    *)
(* had been one step of BoutiqueInventory, if the line lists sent with one *)
(* key share a variant.  (Without that, see OneReservationPerKey.)         *)
THEOREM CallsImplementInventory ==
    ASSUME CartsOfAKeyMeet
    PROVE  TxSpec => ImplementsInventory
<1>1. TxInit => InventoryInit /\ VerdictsStand
    BY DEF TxInit, VerdictsStand, VerdictStands
<1>2. IInv /\ VerdictsStand /\ [TxNext]_txVars => VerdictsStand'
    BY CartsOfAKeyMeet, VerdictsInductive
<1>3. IInv /\ VerdictsStand /\ [TxNext]_txVars => [InventoryNext]_inventoryVars
    BY TxStepImplements
<1>4. QED
    BY <1>1, <1>2, <1>3, TxSpecIInv, PTL DEF TxSpec, ImplementsInventory, InventorySpec

=============================================================================
