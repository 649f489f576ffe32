--------------------------- MODULE MCGuestQrTokens ---------------------------
(* Two calls about two rooms with four tokens: two batches in opposite     *)
(* order over rooms that had codes already (two tokens) or not.            *)
EXTENDS GuestQrTokens
=============================================================================
