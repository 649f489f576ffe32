---------------------- MODULE BoutiqueInventoryProofs ----------------------
(***************************************************************************)
(* What BoutiqueInventory guarantees for every set of variants, keys and   *)
(* line lists and every stock.                                             *)
(***************************************************************************)
EXTENDS BoutiqueInventory, FiniteSetTheorems, TLAPS

(* The inductive invariant: the types, and that nothing is over-promised.  *)
InventoryIInv == InventoryTypeOK /\ StockCovered

LEMMA LinesAreQuantities ==
    ASSUME NEW lines \in Lines
    PROVE  lines \in [Variants -> Nat]
BY LinesAreOrders

(* A variant that is not wanted has quantity 0.                            *)
LEMMA UnwantedIsZero ==
    ASSUME NEW lines \in [Variants -> Nat], NEW v \in Variants \ Wanted(lines)
    PROVE  lines[v] = 0
BY DEF Wanted

(* A call that moved stock had passed the test of the rows.                *)
LEMMA DoneMeansAllowed ==
    ASSUME NEW op, NEW key, NEW lines, Answer(op, key, lines) = "done"
    PROVE  /\ Wanted(lines) \subseteq listed
           /\ KeyVerdict(op, key, lines) = "proceed"
           /\ RowsAllow(op, lines)
<1>1. Wanted(lines) \subseteq listed
  BY DEF Answer
<1>2. KeyVerdict(op, key, lines) = "proceed"
  <2>1. KeyVerdict(op, key, lines) \in {"proceed", "already", "keyConflict"}
    BY DEF KeyVerdict
  <2>. QED  BY <1>1, <2>1 DEF Answer
<1>3. RowsAllow(op, lines)
  BY <1>1, <1>2 DEF Answer
<1>. QED  BY <1>1, <1>2, <1>3

LEMMA ReservePreserves ==
    ASSUME InventoryIInv, NEW key \in Keys, NEW lines \in [Variants -> Nat],
           ReserveStock(key, lines)
    PROVE  InventoryIInv'
<1>1. CanReserve(lines)
  BY DoneMeansAllowed DEF ReserveStock, RowsAllow
<1>2. InventoryTypeOK'
  BY DEF InventoryIInv, InventoryTypeOK, ReserveStock, InsertMovements
<1>3. StockCovered'
  <2>. SUFFICES ASSUME NEW v \in Variants
                PROVE  0 <= reserved'[v] /\ reserved'[v] <= stock'[v]
    BY DEF StockCovered
  <2>1. reserved'[v] = reserved[v] + lines[v] /\ stock' = stock
    BY DEF ReserveStock
  <2>2. CASE v \in Wanted(lines)
    BY <1>1, <2>1, <2>2 DEF CanReserve, Available, InventoryIInv, InventoryTypeOK
  <2>3. CASE v \notin Wanted(lines)
    BY <2>1, <2>3, UnwantedIsZero DEF InventoryIInv, InventoryTypeOK, StockCovered
  <2>. QED  BY <2>2, <2>3
<1>. QED  BY <1>2, <1>3 DEF InventoryIInv

LEMMA ReleasePreserves ==
    ASSUME InventoryIInv, NEW key \in Keys, NEW lines \in [Variants -> Nat],
           ReleaseStock(key, lines)
    PROVE  InventoryIInv'
<1>1. CanRelease(lines)
  BY DoneMeansAllowed DEF ReleaseStock, RowsAllow
<1>2. \A v \in Variants : reserved[v] - lines[v] \in Nat
  <2>. TAKE v \in Variants
  <2>1. CASE v \in Wanted(lines)
    BY <1>1, <2>1 DEF CanRelease, InventoryIInv, InventoryTypeOK
  <2>2. CASE v \notin Wanted(lines)
    BY <2>2, UnwantedIsZero DEF InventoryIInv, InventoryTypeOK
  <2>. QED  BY <2>1, <2>2
<1>3. InventoryTypeOK'
  BY <1>2 DEF InventoryIInv, InventoryTypeOK, ReleaseStock, InsertMovements, Negated
<1>4. StockCovered'
  BY <1>2 DEF InventoryIInv, InventoryTypeOK, StockCovered, ReleaseStock
<1>. QED  BY <1>3, <1>4 DEF InventoryIInv

LEMMA FulfilPreserves ==
    ASSUME InventoryIInv, NEW key \in Keys, NEW lines \in [Variants -> Nat],
           FulfilStock(key, lines)
    PROVE  InventoryIInv'
<1>1. CanFulfil(lines)
  BY DoneMeansAllowed DEF FulfilStock, RowsAllow
<1>2. \A v \in Variants : /\ reserved[v] - lines[v] \in Nat
                          /\ stock[v] - lines[v] \in Nat
  <2>. TAKE v \in Variants
  <2>1. CASE v \in Wanted(lines)
    BY <1>1, <2>1 DEF CanFulfil, InventoryIInv, InventoryTypeOK
  <2>2. CASE v \notin Wanted(lines)
    BY <2>2, UnwantedIsZero DEF InventoryIInv, InventoryTypeOK
  <2>. QED  BY <2>1, <2>2
<1>3. InventoryTypeOK'
  BY <1>2 DEF InventoryIInv, InventoryTypeOK, FulfilStock, InsertMovements, Negated
<1>4. StockCovered'
  BY <1>2 DEF InventoryIInv, InventoryTypeOK, StockCovered, FulfilStock
<1>. QED  BY <1>3, <1>4 DEF InventoryIInv

LEMMA InventoryInitial == InventoryInit => InventoryIInv
BY MaxStockIsNat DEF InventoryInit, InventoryIInv, InventoryTypeOK, StockCovered

LEMMA InventoryInductive ==
    InventoryIInv /\ [InventoryNext]_inventoryVars => InventoryIInv'
<1>. SUFFICES ASSUME InventoryIInv, [InventoryNext]_inventoryVars
              PROVE  InventoryIInv'
  OBVIOUS
<1>1. ASSUME NEW key \in Keys, NEW lines \in Lines, ReserveStock(key, lines)
      PROVE  InventoryIInv'
  BY <1>1, LinesAreQuantities, ReservePreserves
<1>2. ASSUME NEW key \in Keys, NEW lines \in Lines, ReleaseStock(key, lines)
      PROVE  InventoryIInv'
  BY <1>2, LinesAreQuantities, ReleasePreserves
<1>3. ASSUME NEW key \in Keys, NEW lines \in Lines, FulfilStock(key, lines)
      PROVE  InventoryIInv'
  BY <1>3, LinesAreQuantities, FulfilPreserves
<1>4. ASSUME NEW v \in Variants, NEW delta \in Deltas, AdjustStock(v, delta)
      PROVE  InventoryIInv'
  BY <1>4, DeltasAreChanges
  DEF AdjustStock, InventoryIInv, InventoryTypeOK, StockCovered
<1>5. ASSUME NEW v \in Variants, NEW quantity \in 0..MaxStock, CreateVariant(v, quantity)
      PROVE  InventoryIInv'
  BY <1>5, MaxStockIsNat
  DEF CreateVariant, InventoryIInv, InventoryTypeOK, StockCovered
<1>6. ASSUME NEW v \in Variants, NEW value \in BOOLEAN, SetVariantActive(v, value)
      PROVE  InventoryIInv'
  BY <1>6 DEF SetVariantActive, InventoryIInv, InventoryTypeOK, StockCovered
<1>7. CASE UNCHANGED inventoryVars
  BY <1>7 DEF inventoryVars, InventoryIInv, InventoryTypeOK, StockCovered
<1>. QED
  BY <1>1, <1>2, <1>3, <1>4, <1>5, <1>6, <1>7 DEF InventoryNext

(* The tables keep their types: in particular neither counter of a variant *)
(* is ever negative.                                                       *)
THEOREM InventoryTypeCorrect == InventorySpec => []InventoryTypeOK
BY InventoryInitial, InventoryInductive, PTL DEF InventorySpec, InventoryIInv

(* No order of calls over-promises a variant, for any stock and any carts. *)
THEOREM StockAlwaysCovered == InventorySpec => []StockCovered
BY InventoryInitial, InventoryInductive, PTL DEF InventorySpec, InventoryIInv

-----------------------------------------------------------------------------
(* What a step may do to the ledger                                        *)

NothingResurrected ==
    \A k \in history : \A v \in Variants : ledger'[k][v] <= ledger[k][v]

(* A key with movements never passes the verdict of a reservation.         *)
LEMMA ReservationIsFirstMovement ==
    ASSUME NEW key, NEW lines, ReserveStock(key, lines)
    PROVE  key \notin history
BY DoneMeansAllowed DEF ReserveStock, KeyVerdict

LEMMA LedgerStep ==
    InventoryTypeOK /\ [InventoryNext]_inventoryVars
        => [NothingResurrected]_inventoryVars
<1>. SUFFICES ASSUME InventoryTypeOK, InventoryNext
              PROVE  NothingResurrected
  OBVIOUS
<1>. SUFFICES ASSUME NEW k \in history, NEW w \in Variants
              PROVE  ledger'[k][w] <= ledger[k][w]
  BY DEF NothingResurrected
<1>0. k \in Keys /\ ledger[k][w] \in Int
  BY DEF InventoryTypeOK
<1>1. ASSUME NEW key \in Keys, NEW lines \in Lines, ReserveStock(key, lines)
      PROVE  ledger'[k][w] <= ledger[k][w]
  <2>1. key # k
    BY <1>1, ReservationIsFirstMovement
  <2>. QED  BY <1>0, <1>1, <2>1 DEF ReserveStock, InsertMovements, InventoryTypeOK
<1>2. ASSUME NEW key \in Keys, NEW lines \in Lines,
             InsertMovements(key, Negated(lines))
      PROVE  ledger'[k][w] <= ledger[k][w]
  <2>1. lines[w] \in Nat
    BY LinesAreQuantities
  <2>2. ledger'[k][w] = ledger[k][w] \/ ledger'[k][w] = ledger[k][w] + (-lines[w])
    BY <1>0, <1>2 DEF InsertMovements, Negated, InventoryTypeOK
  <2>. QED  BY <1>0, <2>1, <2>2
<1>3. CASE UNCHANGED ledger
  BY <1>0, <1>3
<1>. QED
  BY <1>1, <1>2, <1>3
  DEF InventoryNext, ReleaseStock, FulfilStock, AdjustStock, CreateVariant, SetVariantActive

(* Once a key has moved stock it never reserves again, whichever calls     *)
(* follow: a second submission with the key can only hold what the first   *)
(* one still holds.                                                        *)
THEOREM KeysReserveOnce == InventorySpec => NoResurrection
<1>1. InventoryTypeOK /\ [InventoryNext]_inventoryVars
        => [\A k \in history : \A v \in Variants :
               ledger'[k][v] <= ledger[k][v]]_inventoryVars
  BY LedgerStep DEF NothingResurrected
<1>. QED
  BY <1>1, InventoryTypeCorrect, PTL DEF InventorySpec, NoResurrection

-----------------------------------------------------------------------------
(* Sums over finite sets                                                   *)

(* Every set of natural numbers has a least element,                       *)
LEMMA SetsHaveLeast ==
    ASSUME NEW S, S \subseteq Nat, S # {}
    PROVE  \E m \in S : \A n \in S : m <= n
<1>1. PICK m \in S : \A n \in S : ~ (<<n, m>> \in OpToRel(<, Nat))
  BY WFMin, NatLessThanWellFounded
<1>2. \A n \in S : ~ (n < m)
  BY <1>1 DEF OpToRel
<1>. QED  BY <1>2

(* so of finite sets there is one none of which is that with one element   *)
(* less.                                                                   *)
LEMMA SetsHaveSmallest ==
    ASSUME NEW C, \A X \in C : IsFiniteSet(X), C # {}
    PROVE  \E X \in C : \A x \in X : X \ {x} \notin C
<1>. DEFINE Sizes == {Cardinality(X) : X \in C}
<1>1. Sizes \subseteq Nat /\ Sizes # {}
  BY FS_CardinalityType
<1>2. PICK k \in Sizes : \A n \in Sizes : k <= n
  BY <1>1, SetsHaveLeast
<1>3. PICK X \in C : Cardinality(X) = k
  BY <1>2
<1>4. ASSUME NEW x \in X, X \ {x} \in C PROVE FALSE
  <2>1. Cardinality(X \ {x}) = k - 1
    BY <1>3, FS_RemoveElement
  <2>2. k <= k - 1
    BY <1>2, <1>4, <2>1
  <2>. QED  BY <1>1, <2>2
<1>. QED  BY <1>4

(* T sums w up over every subset of S.                                     *)
Adds(T, S, w) ==
    /\ T \in [SUBSET S -> Int]
    /\ T[{}] = 0
    /\ \A s \in SUBSET S : \A x \in s : T[s] = w[x] + T[s \ {x}]

LEMMA SumsExist ==
    ASSUME NEW S, IsFiniteSet(S), NEW w, \A x \in S : w[x] \in Int
    PROVE  \E T : Adds(T, S, w)
<1>. DEFINE C == {X \in SUBSET S : ~ \E T : Adds(T, X, w)}
<1>. SUFFICES ASSUME C # {} PROVE FALSE
  OBVIOUS
<1>1. PICK X \in C : \A x \in X : X \ {x} \notin C
  <2>1. \A X \in C : IsFiniteSet(X)
    BY FS_Subset
  <2>. QED  BY <2>1, SetsHaveSmallest
<1>2. CASE X = {}
  <2>1. Adds([s \in SUBSET {} |-> 0], {}, w)
    BY DEF Adds
  <2>. QED  BY <1>1, <1>2, <2>1
<1>3. ASSUME NEW y \in X PROVE FALSE
  <2>1. PICK T : Adds(T, X \ {y}, w)
    BY <1>1, <1>3
  <2>. DEFINE U == [s \in SUBSET X |-> IF y \in s THEN w[y] + T[s \ {y}] ELSE T[s]]
  <2>2. \A s \in SUBSET X : /\ s \ {y} \in SUBSET (X \ {y})
                            /\ y \notin s => s \in SUBSET (X \ {y}) /\ s \ {y} = s
    OBVIOUS
  <2>3. w[y] \in Int /\ \A s \in SUBSET (X \ {y}) : T[s] \in Int
    BY <1>1, <2>1 DEF Adds
  <2>4. U \in [SUBSET X -> Int] /\ U[{}] = 0
    BY <2>1, <2>2, <2>3 DEF Adds
  <2>7. \A s \in SUBSET X : U[s] = IF y \in s THEN w[y] + T[s \ {y}] ELSE T[s]
    OBVIOUS
  <2>. HIDE DEF U
  <2>5. ASSUME NEW s \in SUBSET X, NEW x \in s
        PROVE  U[s] = w[x] + U[s \ {x}]
    <3>0. s \ {x} \in SUBSET X /\ w[x] \in Int
      BY <1>1
    <3>1. CASE x = y
      <4>1. U[s] = w[y] + T[s \ {y}] /\ U[s \ {x}] = T[s \ {y}]
        BY <2>7, <3>0, <3>1
      <4>. QED  BY <3>1, <4>1
    <3>2. CASE x # y /\ y \in s
      <4>1. T[s \ {y}] = w[x] + T[(s \ {y}) \ {x}]
        BY <2>1, <2>2, <3>2 DEF Adds
      <4>2. (s \ {y}) \ {x} = (s \ {x}) \ {y}
        OBVIOUS
      <4>3. U[s] = w[y] + T[s \ {y}] /\ U[s \ {x}] = w[y] + T[(s \ {x}) \ {y}]
        BY <2>7, <3>0, <3>2
      <4>4. T[(s \ {x}) \ {y}] \in Int
        BY <2>2, <2>3, <3>0
      <4>5. T[s \ {y}] = w[x] + T[(s \ {x}) \ {y}]
        BY <4>1, <4>2
      <4>6. \A a, b, c \in Int : a + (b + c) = b + (a + c)
        OBVIOUS
      <4>7. w[y] + (w[x] + T[(s \ {x}) \ {y}]) = w[x] + (w[y] + T[(s \ {x}) \ {y}])
        BY <2>3, <3>0, <4>4, <4>6
      <4>. QED  BY <4>3, <4>5, <4>7
    <3>3. CASE y \notin s
      <4>1. U[s] = T[s] /\ U[s \ {x}] = T[s \ {x}]
        BY <2>7, <3>0, <3>3
      <4>. QED  BY <2>1, <2>2, <3>3, <4>1 DEF Adds
    <3>. QED  BY <3>1, <3>2, <3>3
  <2>6. Adds(U, X, w)
    BY <2>4, <2>5 DEF Adds
  <2>. QED  BY <1>1, <2>6
<1>. QED  BY <1>2, <1>3

(* Two sums agree where they add the same.                                 *)
LEMMA SumsAgree ==
    ASSUME NEW S, NEW w, NEW T, Adds(T, S, w),
           NEW R, NEW z, NEW U, Adds(U, R, z),
           NEW X, IsFiniteSet(X), X \subseteq S, X \subseteq R, \A x \in X : w[x] = z[x]
    PROVE  T[X] = U[X]
<1>. DEFINE C == {Y \in SUBSET X : T[Y] # U[Y]}
<1>. SUFFICES ASSUME C # {} PROVE FALSE
  OBVIOUS
<1>1. PICK Y \in C : \A x \in Y : Y \ {x} \notin C
  <2>1. \A Y \in C : IsFiniteSet(Y)
    BY FS_Subset
  <2>. QED  BY <2>1, SetsHaveSmallest
<1>2. PICK y \in Y : TRUE
  BY <1>1 DEF Adds
<1>3. T[Y \ {y}] = U[Y \ {y}]
  BY <1>1, <1>2
<1>4. T[Y] = w[y] + T[Y \ {y}] /\ U[Y] = z[y] + U[Y \ {y}]
  BY <1>1, <1>2 DEF Adds
<1>. QED  BY <1>1, <1>2, <1>3, <1>4

(* A sum follows what one element adds.                                    *)
LEMMA SumFollows ==
    ASSUME NEW S, IsFiniteSet(S), NEW w, NEW T, Adds(T, S, w), NEW z, NEW U, Adds(U, S, z),
           NEW x \in S, w[x] \in Int, z[x] \in Int, \A y \in S \ {x} : z[y] = w[y]
    PROVE  U[S] = T[S] + z[x] - w[x]
<1>1. IsFiniteSet(S \ {x}) /\ S \ {x} \subseteq S
  BY FS_Subset
<1>2. U[S \ {x}] = T[S \ {x}]
  BY <1>1, SumsAgree
<1>3. T[S] = w[x] + T[S \ {x}] /\ U[S] = z[x] + U[S \ {x}] /\ T[S \ {x}] \in Int
  BY <1>1 DEF Adds
<1>. QED  BY <1>2, <1>3

(* A sum of natural numbers is one, and no less than any of them.          *)
LEMMA SumCovers ==
    ASSUME NEW S, IsFiniteSet(S), NEW w, \A x \in S : w[x] \in Nat, NEW T, Adds(T, S, w)
    PROVE  T[S] \in Nat /\ \A x \in S : w[x] <= T[S]
<1>. DEFINE C == {X \in SUBSET S : T[X] \notin Nat}
<1>1. C = {}
  <2>. SUFFICES ASSUME C # {} PROVE FALSE
    OBVIOUS
  <2>1. PICK X \in C : \A x \in X : X \ {x} \notin C
    <3>1. \A X \in C : IsFiniteSet(X)
      BY FS_Subset
    <3>. QED  BY <3>1, SetsHaveSmallest
  <2>2. X # {}
    <3>1. T[{}] \in Nat
      BY DEF Adds
    <3>. QED  BY <2>1, <3>1
  <2>5. PICK x \in X : TRUE
    BY <2>2
  <2>3. T[X \ {x}] \in Nat
    BY <2>1, <2>5
  <2>4. T[X] = w[x] + T[X \ {x}] /\ w[x] \in Nat
    BY <2>1, <2>5 DEF Adds
  <2>. QED  BY <2>1, <2>3, <2>4
<1>2. ASSUME NEW x \in S PROVE w[x] <= T[S]
  <2>1. T[S \ {x}] \in Nat /\ w[x] \in Nat
    BY <1>1
  <2>2. T[S] = w[x] + T[S \ {x}]
    BY DEF Adds
  <2>. QED  BY <2>1, <2>2
<1>. QED  BY <1>1, <1>2

(* Elements that add nothing may be left out.                              *)
LEMMA SumOfRest ==
    ASSUME NEW S, IsFiniteSet(S), NEW w, NEW T, Adds(T, S, w),
           NEW R \in SUBSET S, \A x \in S \ R : w[x] = 0
    PROVE  T[S] = T[R]
<1>. DEFINE C == {X \in SUBSET (S \ R) : T[R \cup X] # T[R]}
<1>1. ASSUME C # {} PROVE FALSE
  <2>1. PICK X \in C : \A x \in X : X \ {x} \notin C
    <3>1. \A X \in C : IsFiniteSet(X)
      BY FS_Subset
    <3>. QED  BY <1>1, <3>1, SetsHaveSmallest
  <2>2. PICK x \in X : TRUE
    <3>1. R \cup {} = R
      OBVIOUS
    <3>. QED  BY <2>1, <3>1
  <2>3. T[R \cup (X \ {x})] = T[R]
    BY <2>1, <2>2
  <2>4. (R \cup X) \ {x} = R \cup (X \ {x})
    BY <2>1, <2>2
  <2>5. T[R \cup X] = w[x] + T[(R \cup X) \ {x}] /\ T[R] \in Int /\ w[x] = 0
    BY <2>1, <2>2 DEF Adds
  <2>. QED  BY <2>1, <2>3, <2>4, <2>5
<1>2. T[R \cup (S \ R)] = T[R]
  BY <1>1
<1>3. R \cup (S \ R) = S
  OBVIOUS
<1>. QED  BY <1>2, <1>3

(* Two sums agree if f carries what the one adds to what the other adds.   *)
LEMMA SumsCorrespond ==
    ASSUME NEW S, IsFiniteSet(S), NEW w, NEW T, Adds(T, S, w),
           NEW R, IsFiniteSet(R), NEW z, NEW U, Adds(U, R, z),
           NEW P \in SUBSET R, \A r \in R \ P : z[r] = 0,
           NEW f, \A p \in P : f[p] \in S /\ w[f[p]] = z[p] /\ z[p] \in Int,
           \A p, q \in P : f[p] = f[q] => p = q,
           \A x \in S : w[x] = 0 \/ \E p \in P : f[p] = x
    PROVE  U[R] = T[S]
<1>. DEFINE Image(X) == {f[p] : p \in X}
            C == {X \in SUBSET P : U[X] # T[Image(X)]}
<1>1. ASSUME C # {} PROVE FALSE
  <2>1. PICK X \in C : \A x \in X : X \ {x} \notin C
    <3>1. \A X \in C : IsFiniteSet(X)
      BY FS_Subset
    <3>. QED  BY <1>1, <3>1, SetsHaveSmallest
  <2>2. PICK x \in X : TRUE
    <3>1. Image({}) = {}
      OBVIOUS
    <3>. QED  BY <2>1, <3>1 DEF Adds
  <2>3. Image(X) \in SUBSET S /\ f[x] \in Image(X) /\ Image(X) \ {f[x]} = Image(X \ {x})
    BY <2>1, <2>2
  <2>4. U[X \ {x}] = T[Image(X \ {x})]
    BY <2>1, <2>2
  <2>. HIDE DEF Image
  <2>5. T[Image(X)] = w[f[x]] + T[Image(X \ {x})]
    <3>1. T[Image(X)] = w[f[x]] + T[Image(X) \ {f[x]}]
      BY <2>3 DEF Adds
    <3>. QED  BY <2>3, <3>1
  <2>6. U[X] = z[x] + U[X \ {x}] /\ w[f[x]] = z[x]
    BY <2>1, <2>2 DEF Adds
  <2>. QED  BY <2>1, <2>4, <2>5, <2>6
<1>2. U[P] = T[Image(P)]
  BY <1>1
<1>3. U[R] = U[P]
  BY SumOfRest
<1>4. T[S] = T[Image(P)]
  <2>1. Image(P) \in SUBSET S /\ \A x \in S \ Image(P) : w[x] = 0
    OBVIOUS
  <2>. HIDE DEF Image
  <2>. QED  BY <2>1, SumOfRest
<1>. QED  BY <1>2, <1>3, <1>4

-----------------------------------------------------------------------------
(* The sum of the library                                                  *)

(* The fold takes the elements in the order of CHOOSE.                 *)
Takes(f, S, w) ==
    f = [s \in SUBSET S |->
            IF s = {} THEN 0
            ELSE w[CHOOSE x \in s : TRUE] + f[s \ {CHOOSE x \in s : TRUE}]]

LEMMA SumTakes ==
    ASSUME NEW S, NEW w, NEW T, Adds(T, S, w)
    PROVE  Takes(T, S, w)
<1>. DEFINE first(s) == CHOOSE x \in s : TRUE
<1>1. \A s \in SUBSET S : s # {} => first(s) \in s
  OBVIOUS
<1>2. Takes(T, S, w) <=> T = [s \in SUBSET S |->
                                 IF s = {} THEN 0 ELSE w[first(s)] + T[s \ {first(s)}]]
  BY DEF Takes
<1>. HIDE DEF first
<1>3. \A s \in SUBSET S : T[s] = IF s = {} THEN 0 ELSE w[first(s)] + T[s \ {first(s)}]
  BY <1>1 DEF Adds
<1>. QED  BY <1>2, <1>3 DEF Adds

LEMMA TakesIsSum ==
    ASSUME NEW S, IsFiniteSet(S), NEW w, NEW T, Adds(T, S, w), NEW f, Takes(f, S, w)
    PROVE  f[S] = T[S]
<1>. DEFINE first(s) == CHOOSE x \in s : TRUE
<1>1. \A s \in SUBSET S : s # {} => first(s) \in s
  OBVIOUS
<1>2. \A s \in SUBSET S : f[s] = IF s = {} THEN 0 ELSE w[first(s)] + f[s \ {first(s)}]
  BY DEF Takes
<1>. HIDE DEF first
<1>. DEFINE C == {s \in SUBSET S : f[s] # T[s]}
<1>3. ASSUME C # {} PROVE FALSE
  <2>1. PICK s \in C : \A x \in s : s \ {x} \notin C
    <3>1. \A s \in C : IsFiniteSet(s)
      BY FS_Subset
    <3>. QED  BY <1>3, <3>1, SetsHaveSmallest
  <2>2. s # {}
    <3>1. f[{}] = T[{}]
      BY <1>2 DEF Adds
    <3>. QED  BY <2>1, <3>1
  <2>3. first(s) \in s /\ f[s \ {first(s)}] = T[s \ {first(s)}]
    BY <1>1, <2>1, <2>2
  <2>4. T[s] = w[first(s)] + T[s \ {first(s)}]
    BY <2>1, <2>3 DEF Adds
  <2>. QED  BY <1>2, <2>1, <2>2, <2>3, <2>4
<1>. QED  BY <1>3

(* The sum of LedgerAgrees.                                                *)
HeldBy(L, v) == MapThenSumSet(LAMBDA k : L[k][v], Keys)

Column(L, v) == [k \in Keys |-> L[k][v]]

LEMMA HeldByIsSum ==
    ASSUME NEW L, NEW v, NEW T, Adds(T, Keys, Column(L, v)), IsFiniteSet(Keys)
    PROVE  HeldBy(L, v) = T[Keys]
<1>. DEFINE first(s) == CHOOSE x \in s : TRUE
            Folds(f) == f = [s \in SUBSET Keys |->
                                IF s = {} THEN 0 ELSE L[first(s)][v] + f[s \ {first(s)}]]
            fold == CHOOSE f : Folds(f)
<1>1. HeldBy(L, v) = fold[Keys]
  BY DEF HeldBy, MapThenSumSet, MapThenFoldSet
<1>2. ASSUME NEW f PROVE Folds(f) <=> Takes(f, Keys, Column(L, v))
  <2>1. \A s \in SUBSET Keys : s # {} => L[first(s)][v] = Column(L, v)[first(s)]
    BY DEF Column
  <2>. QED  BY <2>1 DEF Takes
<1>. HIDE DEF Folds
<1>3. Folds(fold)
  BY <1>2, SumTakes
<1>. HIDE DEF fold
<1>. QED  BY <1>1, <1>2, <1>3, TakesIsSum

LEMMA LedgerSums ==
    ASSUME IsFiniteSet(Keys), NEW L \in [Keys -> [Variants -> Int]], NEW v \in Variants
    PROVE  \E T : Adds(T, Keys, Column(L, v)) /\ HeldBy(L, v) = T[Keys]
<1>1. PICK T : Adds(T, Keys, Column(L, v))
  BY SumsExist DEF Column
<1>. QED  BY <1>1, HeldByIsSum

(* A movement of one key changes the sum by what the key gains or loses.   *)
LEMMA HeldByFollows ==
    ASSUME IsFiniteSet(Keys), NEW v \in Variants, NEW key \in Keys,
           NEW L \in [Keys -> [Variants -> Int]], NEW M \in [Keys -> [Variants -> Int]],
           \A k \in Keys \ {key} : M[k][v] = L[k][v]
    PROVE  HeldBy(M, v) = HeldBy(L, v) + M[key][v] - L[key][v]
<1>1. PICK T : Adds(T, Keys, Column(L, v)) /\ HeldBy(L, v) = T[Keys]
  BY LedgerSums
<1>2. PICK U : Adds(U, Keys, Column(M, v)) /\ HeldBy(M, v) = U[Keys]
  BY LedgerSums
<1>3. U[Keys] = T[Keys] + Column(M, v)[key] - Column(L, v)[key]
  BY <1>1, <1>2, SumFollows DEF Column
<1>. QED  BY <1>1, <1>2, <1>3 DEF Column

LEMMA NothingHeld ==
    ASSUME IsFiniteSet(Keys), NEW v \in Variants, NEW L \in [Keys -> [Variants -> Int]],
           \A k \in Keys : L[k][v] = 0
    PROVE  HeldBy(L, v) = 0
<1>1. Adds([s \in SUBSET Keys |-> 0], Keys, Column(L, v))
  BY DEF Adds, Column
<1>. QED  BY <1>1, HeldByIsSum

LEMMA LedgerAgreesIsHeldBy ==
    LedgerAgrees <=> \A v \in Variants : reserved[v] = HeldBy(ledger, v)
BY DEF LedgerAgrees, HeldBy, MapThenSumSet, MapThenFoldSet

(* LedgerAgrees alone is not inductive: a variant is entered with nothing  *)
(* reserved, so that nothing may be held of it before.                     *)
LedgerIInv ==
    /\ InventoryIInv
    /\ \A v \in Variants \ listed : reserved[v] = 0
    /\ \A v \in Variants : reserved[v] = HeldBy(ledger, v)

LEMMA LedgerInitially ==
    ASSUME IsFiniteSet(Keys), InventoryInit
    PROVE  LedgerIInv
<1>1. ledger \in [Keys -> [Variants -> Int]] /\ \A v \in Variants, k \in Keys : ledger[k][v] = 0
  BY DEF InventoryInit
<1>2. \A v \in Variants : HeldBy(ledger, v) = 0
  BY <1>1, NothingHeld
<1>. QED  BY <1>2, InventoryInitial DEF InventoryInit, LedgerIInv

LEMMA MovementKeepsLedger ==
    ASSUME IsFiniteSet(Keys), LedgerIInv, InventoryIInv', UNCHANGED listed,
           NEW key \in Keys, NEW lines \in [Variants -> Nat], Wanted(lines) \subseteq listed,
           NEW change \in [Variants -> Int], InsertMovements(key, change),
           reserved' = [v \in Variants |-> reserved[v] + change[v]],
           \A v \in Variants : lines[v] = 0 => change[v] = 0
    PROVE  LedgerIInv'
<1>1. \A v \in Variants \ listed' : reserved'[v] = 0
  BY UnwantedIsZero DEF LedgerIInv
<1>2. ASSUME NEW v \in Variants PROVE reserved'[v] = HeldBy(ledger', v)
  <2>1. /\ ledger \in [Keys -> [Variants -> Int]] /\ ledger' \in [Keys -> [Variants -> Int]]
        /\ reserved[v] = HeldBy(ledger, v) /\ reserved[v] \in Int
    BY DEF LedgerIInv, InventoryIInv, InventoryTypeOK
  <2>2. /\ \A k \in Keys \ {key} : ledger'[k][v] = ledger[k][v]
        /\ ledger'[key][v] = ledger[key][v] + change[v]
    BY <2>1 DEF InsertMovements
  <2>3. HeldBy(ledger', v) = HeldBy(ledger, v) + ledger'[key][v] - ledger[key][v]
    BY <2>1, <2>2, HeldByFollows
  <2>4. ledger[key][v] \in Int /\ change[v] \in Int
    BY <2>1
  <2>. QED  BY <2>1, <2>2, <2>3, <2>4
<1>. QED  BY <1>1, <1>2 DEF LedgerIInv

LEMMA LedgerInductive ==
    ASSUME IsFiniteSet(Keys)
    PROVE  LedgerIInv /\ [InventoryNext]_inventoryVars => LedgerIInv'
<1>. SUFFICES ASSUME LedgerIInv, [InventoryNext]_inventoryVars
              PROVE  LedgerIInv'
  OBVIOUS
<1>0. InventoryIInv /\ InventoryIInv' /\ reserved \in [Variants -> Nat]
  BY InventoryInductive DEF LedgerIInv, InventoryIInv, InventoryTypeOK
<1>1. ASSUME NEW key \in Keys, NEW lines \in Lines, ReserveStock(key, lines)
      PROVE  LedgerIInv'
  <2>1. lines \in [Variants -> Nat] /\ lines \in [Variants -> Int] /\ Wanted(lines) \subseteq listed
    BY <1>1, LinesAreQuantities, DoneMeansAllowed DEF ReserveStock
  <2>. QED  BY <1>0, <1>1, <2>1, MovementKeepsLedger DEF ReserveStock
<1>2. ASSUME NEW key \in Keys, NEW lines \in Lines,
             ReleaseStock(key, lines) \/ FulfilStock(key, lines)
      PROVE  LedgerIInv'
  <2>1. lines \in [Variants -> Nat] /\ Wanted(lines) \subseteq listed
    BY <1>2, LinesAreQuantities, DoneMeansAllowed DEF ReleaseStock, FulfilStock
  <2>2. /\ Negated(lines) \in [Variants -> Int]
        /\ \A v \in Variants : lines[v] = 0 => Negated(lines)[v] = 0
        /\ \A v \in Variants : reserved[v] - lines[v] = reserved[v] + Negated(lines)[v]
    BY <1>0, <2>1 DEF Negated
  <2>3. reserved' = [v \in Variants |-> reserved[v] + Negated(lines)[v]]
    BY <1>2, <2>2 DEF ReleaseStock, FulfilStock
  <2>. QED  BY <1>0, <1>2, <2>1, <2>2, <2>3, MovementKeepsLedger DEF ReleaseStock, FulfilStock
<1>3. ASSUME NEW v \in Variants, NEW quantity \in 0..MaxStock, CreateVariant(v, quantity)
      PROVE  LedgerIInv'
  <2>1. reserved' = reserved /\ listed \subseteq listed' /\ ledger' = ledger
    BY <1>0, <1>3 DEF CreateVariant, LedgerIInv
  <2>. QED  BY <1>0, <2>1 DEF LedgerIInv
<1>4. CASE UNCHANGED <<listed, reserved, ledger>>
  BY <1>0, <1>4 DEF LedgerIInv
<1>. QED
  BY <1>1, <1>2, <1>3, <1>4
  DEF InventoryNext, AdjustStock, SetVariantActive, inventoryVars

(* The movement table explains the counters: whatever the calls and the    *)
(* staff do, what a variant has reserved is what the keys hold of it.      *)
THEOREM MovementsExplainReserved ==
    ASSUME IsFiniteSet(Keys)
    PROVE  InventorySpec => []LedgerAgrees
<1>1. InventoryInit => LedgerIInv
  BY LedgerInitially
<1>2. LedgerIInv => LedgerAgrees
  BY LedgerAgreesIsHeldBy DEF LedgerIInv
<1>. QED  BY <1>1, <1>2, LedgerInductive, PTL DEF InventorySpec

=============================================================================
