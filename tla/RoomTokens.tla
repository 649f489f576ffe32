----------------------------- MODULE RoomTokens -----------------------------
(***************************************************************************)
(* The QR codes of the rooms as the reception sees them: the codes of some *)
(* rooms are issued anew, or one is revoked, and each request is done in   *)
(* one step for all its rooms or refused without a trace.  This is what    *)
(* GuestQrTokens promises.                                                 *)
(***************************************************************************)
EXTENDS FiniteSets

CONSTANTS
    Rooms,      \* hotel_rooms
    Tokens,     \* guest_room_qr_tokens, those to come included
    None,       \* no token
    Calls       \* requests that can be open at once

VARIABLES
    code,       \* the token whose QR code opens a room, or None
    issued,     \* tokens that have ever been handed out
    request     \* what a call asks for

tokenVars == <<code, issued, request>>

Nothing == [issues |-> FALSE, rooms |-> {}]

TokenInit ==
    /\ code = [r \in Rooms |-> None]
    /\ issued = {}
    /\ request = [c \in Calls |-> Nothing]

Ask(c, issues, rooms) ==
    /\ request[c] = Nothing
    /\ request' = [request EXCEPT ![c] = [issues |-> issues, rooms |-> rooms]]
    /\ UNCHANGED <<code, issued>>

Answered(c) == request' = [request EXCEPT ![c] = Nothing]

(* Every room gets a token of its own that nobody has seen before.         *)
Issue(c) ==
    /\ request[c].issues
    /\ Answered(c)
    /\ issued \subseteq issued'
    /\ \A r \in Rooms :
          IF r \in request[c].rooms
            THEN code'[r] \in issued' \ issued /\ \A q \in Rooms \ {r} : code'[q] # code'[r]
            ELSE code'[r] = code[r]
    /\ issued' \subseteq issued \cup {code'[r] : r \in request[c].rooms}

Revoke(c) ==
    /\ ~request[c].issues
    /\ Answered(c)
    /\ code' = [r \in Rooms |-> IF r \in request[c].rooms THEN None ELSE code[r]]
    /\ UNCHANGED issued

(* Also the answer to a revocation that finds no code, or one that was     *)
(* replaced while it waited.                                               *)
Refuse(c) ==
    /\ request[c] # Nothing
    /\ Answered(c)
    /\ UNCHANGED <<code, issued>>

TokenNext ==
    \E c \in Calls :
        \/ \E issues \in BOOLEAN, rooms \in (SUBSET Rooms) \ {{}} : Ask(c, issues, rooms)
        \/ Issue(c)
        \/ Revoke(c)
        \/ Refuse(c)

TokenSpec == TokenInit /\ [][TokenNext]_tokenVars

=============================================================================
