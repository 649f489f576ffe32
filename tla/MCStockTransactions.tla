------------------------ MODULE MCStockTransactions ------------------------
(* Two variants, so that line lists can be locked in either order and can  *)
(* be disjoint.                                                            *)
EXTENDS StockTransactions, TLC

Line(a, b) == [v \in Variants |-> IF v = 1 THEN a ELSE b]

SmallLines == {Line(1, 0), Line(0, 1), Line(1, 1)}

(* A client that retries a key changes quantities or adds lines.           *)
OverlappingKeyLines == [k \in Keys |-> {Line(1, 0), Line(1, 1)}]

(* A client that sends the key again with another cart.                    *)
DisjointKeyLines == [k \in Keys |-> {Line(1, 0), Line(0, 1)}]

Corrections == {-1, 1}

NoCorrections == {}

Symmetry == Permutations(Keys) \cup Permutations(Callers)
=============================================================================
