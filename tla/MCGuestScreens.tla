--------------------------- MODULE MCGuestScreens ---------------------------
(* One TV in one room, and two guests who stay there one after the other.  *)
EXTENDS GuestScreens
=============================================================================
