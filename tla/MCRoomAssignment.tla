-------------------------- MODULE MCRoomAssignment --------------------------
(* Two receptionists, two rooms, two stays with a choice of names: one     *)
(* room taken twice in a row or by both at once, two rooms at once, and    *)
(* both orders in which two calls can take a room and its stay.  No more   *)
(* than two calls ever wait in a circle: only a room and one stay of it    *)
(* are wanted at once.                                                     *)
EXTENDS RoomAssignment
=============================================================================
