--------------------------- MODULE MCOrderBoards ---------------------------
(* Two orders come to a dashboard, one to the page of the boutique.        *)
EXTENDS OrderBoards

TwoAndOne == [p \in {"dashboard", "butik"} |-> IF p = "dashboard" THEN 2 ELSE 1]
============================================================================
