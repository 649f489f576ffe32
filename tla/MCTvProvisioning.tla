-------------------------- MODULE MCTvProvisioning --------------------------
(* TVs, rooms and server calls are interchangeable; rows are not, they are *)
(* numbered by age.                                                        *)
EXTENDS TvProvisioning, TLC

Symmetry == Permutations(Tvs) \cup Permutations(Rooms) \cup Permutations(Calls)
=============================================================================
