----------------------------- MODULE MCTvUpdate -----------------------------
(* A TV with version 1 and an optional release 2; TvUpdateThreeReleases    *)
(* adds a mandatory release 3, for the safety properties.                  *)
EXTENDS TvUpdate
=============================================================================
