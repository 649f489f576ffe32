---------------------------- MODULE HotelScreens ----------------------------
(***************************************************************************)
(* The screens of a room's guests (GuestScreens) and the receptionists'    *)
(* pages (ReceptionPages) over the same stays: a change of the reception   *)
(* is one transaction whose event goes to the TVs of the room and to the   *)
(* pages alike.                                                            *)
(***************************************************************************)
EXTENDS GuestScreens, ReceptionPages

CONSTANTS
    MaxChanges,     \* bound: changes of the reception while a guest uses a screen
    MaxDeskChanges  \* bound: the same while a receptionist's page is used

ASSUME ChangesAreBounded == {MaxChanges, MaxDeskChanges} \subseteq Nat

VARIABLE used           \* bound: the one screen that somebody uses

guestOnly == <<orders, screenVars, bounds>>
hotelVars == <<stayVars, guestOnly, pageVars, used>>

HotelTypeOK ==
    /\ ScreensTypeOK
    /\ PagesTypeOK
    /\ used \in Screens \cup Desks

HotelInit == ScreensInit /\ PagesInit /\ used \in Screens \cup Desks

Change ==
    /\ version < IF used \in Desks THEN MaxDeskChanges ELSE MaxChanges
    /\ Elsewhere \/ \E d \in Desks : Carry(d)
    /\ Noticed

ByGuest == \E x \in Screens :
    ScreenSteps(x) \/ (used = x /\ (Guest(x) \/ Faults(x)))

ByDesk == \E d \in Desks :
    DeskSteps(d) \/ (used = d /\ (Receptionist(d) \/ DeskFaults(d)))

HotelNext ==
    \/ Change /\ UNCHANGED used
    \/ ByGuest /\ UNCHANGED <<pageVars, used>>
    \/ ByDesk /\ UNCHANGED <<guestOnly, used>>

HotelSpec == HotelInit /\ [][HotelNext]_hotelVars

(* Calls are answered or fail, sockets connect, events arrive, and the     *)
(* interval fires.  Neither guests nor receptionists have to do anything,  *)
(* and a receptionist's page does not need its socket.                     *)
FairHotelSpec ==
    /\ HotelSpec
    /\ \A x \in Screens :
          /\ WF_hotelVars((Loads(x) \/ Events(x)) /\ UNCHANGED <<pageVars, used>>)
          /\ WF_hotelVars(Sends(x) /\ UNCHANGED <<pageVars, used>>)
    /\ \A d \in Desks :
          /\ WF_hotelVars(Reads(d) /\ UNCHANGED <<guestOnly, used>>)
          /\ WF_hotelVars(Poll(d) /\ UNCHANGED <<guestOnly, used>>)

=============================================================================
