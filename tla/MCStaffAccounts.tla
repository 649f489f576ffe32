--------------------------- MODULE MCStaffAccounts ---------------------------
(* Two accounts and two custom roles.  A second permission would only      *)
(* repeat what the managing one shows.                                     *)
EXTENDS StaffRaces
=============================================================================
