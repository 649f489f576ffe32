--------------------------- MODULE MCHotelScreens ---------------------------
(* One room with a TV, a page behind its QR code and a receptionist's page *)
(* of which one is used while another receptionist checks a guest in, out, *)
(* and the next one in, or changes a name in between.                      *)
EXTENDS HotelScreens
=============================================================================
