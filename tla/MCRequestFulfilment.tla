------------------------ MODULE MCRequestFulfilment ------------------------
(* The carts of the runs of RequestFulfilment: one stay, and every key is  *)
(* sent with one cart.                                                     *)
EXTENDS RequestFulfilment, TLC

CONSTANTS s1, k1, k2, Cafe

Line(a, b) == [v \in Variants |-> IF v = 1 THEN a ELSE b]

AllLines == {lines \in [Variants -> 0..1] : Wanted(lines) # {}}

Cart(key, lines, others) == [stay |-> s1, key |-> key, lines |-> lines, others |-> others]

(* Two carts that compete for the same variant.                            *)
TwoCarts == {Cart(k1, Line(1, 0), {}), Cart(k2, Line(1, 0), {})}

(* A cart of two units, and one that competes with it.                     *)
MixedCarts == {Cart(k1, Line(1, 1), {Cafe}), Cart(k2, Line(1, 0), {})}

OneCart == {Cart(k1, Line(1, 0), {})}

Corrections == {-1, 1}

NoCorrections == {}

HandlerSymmetry == Permutations(Handlers)
=============================================================================
