------------------------------ MODULE TvProofs ------------------------------
(***************************************************************************)
(* What holds of TvProvisioning for every number of TVs, rooms, rows,      *)
(* calls and sessions, and of TvUpdate for every number of releases, any   *)
(* size of them and any number of attempts and faults.                     *)
(***************************************************************************)
EXTENDS TvProvisioning, TvUpdate, FiniteSetTheorems, TLAPS

-----------------------------------------------------------------------------
(* The inductive invariant of the pairings                                 *)

Pairing(h) == calls[h].at \in {"pairLock", "pairTest", "pairWrite"}

(* What a call in flight relies on.  A pairing that has locked its row     *)
(* still finds it as it was when it was locked: the row is pending, with   *)
(* the code the receptionist entered.  Without this the pairing invariants *)
(* are not inductive, because CommitPair tests nothing of this again.      *)
CallKnows(h) ==
    /\ calls[h].at = "claim" => calls[h].row \in Devices
    /\ calls[h].at = "start" => calls[h].tv \in Tvs
    /\ Pairing(h) => /\ calls[h].row \in Devices
                     /\ calls[h].room \in Rooms
                     /\ <<calls[h].secret, calls[h].room>> \in confirmed
    /\ Holds(h) => /\ devices[calls[h].row].status = "PENDING"
                   /\ devices[calls[h].row].secret = calls[h].secret

(* A row is locked by one pairing at a time.                               *)
HoldersApart ==
    \A g, h \in Calls : Holds(g) /\ Holds(h) /\ calls[g].row = calls[h].row => g = h

(* OneTvPerRoom without cardinalities.                                     *)
AloneInRoom ==
    \A d, e \in Devices :
        Active(d) /\ Active(e) /\ devices[d].room = devices[e].room => d = e

(* Whoever waits, waits for a call.                                        *)
WaitsForCall == \A i \in Tvs : tvs[i].mode = "asking" => tvs[i].call \in Calls

(* The next secret is a new one.                                           *)
NothingAhead == \A d \in Devices : devices[d].secret <= issued

PairingInv ==
    /\ TvTypeOK
    /\ \A h \in Calls : CallKnows(h)
    /\ HoldersApart
    /\ WaitsForCall
    /\ AloneInRoom
    /\ NothingAhead
    /\ RoomAsConfirmed

-----------------------------------------------------------------------------
(* Types                                                                   *)

(* The values a TV or a call takes when it begins, ends or fails are TVs   *)
(* and calls.                                                              *)
LEMMA StartingValues ==
    /\ NoRow \in Row
    /\ NoCall \in Call
    /\ NewTv \in Tv
    /\ \A tv \in Tv : Failed(tv) \in Tv
<1>1. 0 \in Secrets
    BY MaxSecretsIsNat DEF Secrets
<1>2. NoRow \in Row
    BY <1>1 DEF NoRow, Row
<1>3. NoCall \in Call
    BY <1>1 DEF NoCall, Call
<1>4. NewTv \in Tv
    BY <1>1 DEF NewTv, Tv
<1>5. ASSUME NEW tv \in Tv PROVE Failed(tv) \in Tv
    BY <1>1, <1>4 DEF Failed, NewTv, Tv
<1>6. QED
    BY <1>2, <1>3, <1>4, <1>5

(* A new session is a row with the next secret.                            *)
LEMMA NewSession ==
    ASSUME NEW i \in Tvs \cup {None}, issued \in Secrets, issued < MaxSecrets
    PROVE  /\ Session(i) \in Row
           /\ Session(i).status = "PENDING"
           /\ Session(i).room = None
           /\ Session(i).secret = issued + 1
           /\ issued + 1 \in Secrets
           /\ issued + 1 # 0
<1>1. issued + 1 \in Secrets /\ issued + 1 # 0
    BY MaxSecretsIsNat DEF Secrets
<1>2. QED
    BY <1>1 DEF Session, Row

LEMMA InitPairingInv == Init => PairingInv
<1> SUFFICES ASSUME Init PROVE PairingInv
    OBVIOUS
<1> USE MaxSecretsIsNat, StartingValues DEF Init
<1>1. TvTypeOK
    BY DEF TvTypeOK, Exists, Active, NoRow, Secrets
<1>2. (\A h \in Calls : CallKnows(h)) /\ HoldersApart
    BY DEF CallKnows, HoldersApart, Pairing, Holds, NoCall
<1>3. WaitsForCall /\ AloneInRoom /\ NothingAhead /\ RoomAsConfirmed
    BY DEF WaitsForCall, NewTv, AloneInRoom, NothingAhead, RoomAsConfirmed, Active, NoRow
<1>4. QED
    BY <1>1, <1>2, <1>3 DEF PairingInv

(* Type correctness, action by action; what the calls know is needed for   *)
(* the rows and rooms they carry.                                          *)
LEMMA TypeStep == PairingInv /\ [Next]_vars => TvTypeOK'
<1> SUFFICES ASSUME PairingInv, [Next]_vars PROVE TvTypeOK'
    OBVIOUS
<1> USE StartingValues, MaxSecretsIsNat
<1>0. /\ TvTypeOK
      /\ \A h \in Calls : CallKnows(h)
      /\ WaitsForCall
    BY DEF PairingInv
<1> DEFINE Consistent(row) ==
              /\ row \in Row
              /\ row.status # "none" <=> row.secret # 0
              /\ row.status \in {"PAIRED", "CLAIMED"} => row.room # None
              /\ row.status = "PENDING" => row.room = None
           Typed == /\ devices \in [Devices -> Row]
                    /\ \A d \in Devices : Consistent(devices[d])
<1>a. Typed
    BY <1>0 DEF TvTypeOK, Exists, Active
<1>b. ASSUME Typed', issued' \in Secrets, calls' \in [Calls -> Call],
             tvs' \in [Tvs -> Tv], confirmed' \subseteq Secrets \X Rooms
      PROVE  TvTypeOK'
    BY <1>b DEF TvTypeOK, Exists, Active
<1>c. ASSUME NEW d \in Devices, NEW row, Consistent(row),
             devices' = [devices EXCEPT ![d] = row]
      PROVE  Typed'
    BY <1>a, <1>c
<1>d. ASSUME NEW h \in Calls, NEW call \in Call
      PROVE  [calls EXCEPT ![h] = call] \in [Calls -> Call]
    BY <1>0 DEF TvTypeOK
<1>e. ASSUME NEW i \in Tvs, NEW tv \in Tv
      PROVE  [tvs EXCEPT ![i] = tv] \in [Tvs -> Tv]
    BY <1>0 DEF TvTypeOK
<1>f. /\ issued \in Secrets
      /\ calls \in [Calls -> Call]
      /\ tvs \in [Tvs -> Tv]
      /\ confirmed \subseteq Secrets \X Rooms
    BY <1>0 DEF TvTypeOK
<1>g. ASSUME NEW h \in Calls, NEW answer \in Answers, NEW s \in Secrets, Reply(h, answer, s)
      PROVE  calls' \in [Calls -> Call]
    <2>1. [NoCall EXCEPT !.at = answer, !.secret = s] \in Call
        BY DEF NoCall, Call
    <2>2. QED
        BY <2>1, <1>d, <1>g DEF Reply
<1>h. ASSUME NEW h \in Calls, Hang(h) PROVE calls' \in [Calls -> Call]
    BY <1>d, <1>h DEF Hang
<1>1. ASSUME NEW i \in Tvs, NEW h \in Calls, Start(i, h) PROVE TvTypeOK'
    <2>1. calls' \in [Calls -> Call]
        <3> DEFINE rows == {d \in Devices : devices[d].tv = i /\ devices[d].status # "REVOKED"}
        <3>1. [NoCall EXCEPT !.at = "start", !.tv = i, !.seen = rows] \in Call
            BY DEF NoCall, Call
        <3>2. QED
            BY <3>1, <1>d, <1>1 DEF Start
    <2>2. tvs' \in [Tvs -> Tv]
        BY <1>f, <1>1 DEF Start, Tv
    <2>3. QED
        BY <2>1, <2>2, <1>1, <1>a, <1>b, <1>f DEF Start
<1>2. ASSUME NEW h \in Calls, OpenSession(h) PROVE TvTypeOK'
    <2>1. calls[h].tv \in Tvs \cup {None} /\ issued < MaxSecrets
        BY <1>2, <1>f DEF OpenSession, Call
    <2>2. Consistent(Session(calls[h].tv)) /\ issued + 1 \in Secrets
        BY <2>1, <1>f, NewSession
    <2>3. PICK d \in Devices : devices' = [devices EXCEPT ![d] = Session(calls[h].tv)]
        <3>1. calls[h].seen \subseteq Devices
            BY <1>f DEF Call
        <3>2. QED
            BY <3>1, <1>2 DEF OpenSession
    <2>4. Typed'
        BY <2>2, <2>3, <1>c, Zenon
    <2>5. calls' \in [Calls -> Call]
        BY <2>2, <1>2, <1>g DEF OpenSession, Answers
    <2>6. QED
        BY <2>2, <2>4, <2>5, <1>2, <1>b, <1>f DEF OpenSession
<1>3. ASSUME NEW h \in Calls, NEW s \in 1..issued, NEW room \in Rooms, Pair(h, s, room)
      PROVE  TvTypeOK'
    <2>1. s \in Secrets
        BY <1>f DEF Secrets
    <2>2. PICK d \in RowsWithCode(s) : calls' = [calls EXCEPT ![h] =
             [NoCall EXCEPT !.at = "pairLock", !.row = d, !.room = room, !.secret = s]]
        BY <1>3 DEF Pair
    <2>3. [NoCall EXCEPT !.at = "pairLock", !.row = d, !.room = room, !.secret = s] \in Call
        BY <2>1 DEF NoCall, Call, RowsWithCode
    <2>4. confirmed' \subseteq Secrets \X Rooms
        BY <2>1, <1>3, <1>f DEF Pair
    <2>5. QED
        BY <2>2, <2>3, <2>4, <1>3, <1>a, <1>b, <1>d, <1>f DEF Pair
<1>4. ASSUME NEW h \in Calls, LockForPair(h) \/ TestRoom(h) PROVE TvTypeOK'
    <2>1. calls' \in [Calls -> Call]
        BY <1>4, <1>f, <1>h DEF LockForPair, TestRoom, Call
    <2>2. QED
        BY <2>1, <1>4, <1>a, <1>b, <1>f DEF LockForPair, TestRoom
<1>5. ASSUME NEW h \in Calls, CommitPair(h) PROVE TvTypeOK'
    <2> DEFINE d == calls[h].row
               paired == [devices[d] EXCEPT !.status = "PAIRED", !.room = calls[h].room]
    <2>1. /\ d \in Devices
          /\ calls[h].room \in Rooms
          /\ devices[d].status = "PENDING"
        BY <1>5, <1>0 DEF CommitPair, CallKnows, Pairing, Holds
    <2>2. calls[h].room # None
        BY <2>1, NoneIsNobody
    <2>3. Consistent(paired)
        BY <2>1, <2>2, <1>a DEF Row
    <2>4. Typed'
        <3>1. CASE devices' = devices
            BY <3>1, <1>a
        <3>2. CASE devices' = [devices EXCEPT ![d] = paired]
            BY <2>1, <2>3, <3>2, <1>c
        <3>3. QED
            BY <3>1, <3>2, <2>1, <1>a, <1>5 DEF CommitPair, Row
    <2>5. QED
        BY <2>4, <1>5, <1>b, <1>f, <1>h DEF CommitPair
<1>6. ASSUME NEW i \in Tvs, Poll(i) PROVE TvTypeOK'
    <2>1. tvs' \in [Tvs -> Tv]
        BY <1>6, <1>f DEF Poll, Tv, Secrets
    <2>2. QED
        BY <2>1, <1>6, <1>a, <1>b, <1>f DEF Poll
<1>7. ASSUME NEW i \in Tvs, NEW h \in Calls, Claim(i, h) PROVE TvTypeOK'
    <2>1. tvs[i].session \in Secrets
        BY <1>f DEF Tv
    <2>2. PICK d \in RowsWithCode(tvs[i].session) : calls' = [calls EXCEPT ![h] =
             [NoCall EXCEPT !.at = "claim", !.row = d, !.tv = i, !.secret = tvs[i].session]]
        BY <1>7 DEF Claim
    <2>3. [NoCall EXCEPT !.at = "claim", !.row = d, !.tv = i, !.secret = tvs[i].session] \in Call
        BY <2>1 DEF NoCall, Call, RowsWithCode
    <2>4. tvs' \in [Tvs -> Tv]
        BY <1>f, <1>7 DEF Claim, Tv
    <2>5. QED
        BY <2>2, <2>3, <2>4, <1>7, <1>a, <1>b, <1>d, <1>f DEF Claim
<1>8. ASSUME NEW h \in Calls, CommitClaim(h) PROVE TvTypeOK'
    <2> DEFINE d == calls[h].row
               claimed == [devices[d] EXCEPT !.status = "CLAIMED"]
    <2>1. d \in Devices
        BY <1>8, <1>0 DEF CommitClaim, CallKnows
    <2>2. CASE Active(d)
        <3>1. Consistent(claimed)
            BY <2>1, <2>2, <1>a DEF Row, Active
        <3>2. devices' = [devices EXCEPT ![d] = claimed]
            BY <2>2, <1>8 DEF CommitClaim
        <3>3. Typed'
            BY <2>1, <3>1, <3>2, <1>c
        <3>4. devices[d].secret \in Secrets
            BY <2>1, <1>a DEF Row
        <3>5. calls' \in [Calls -> Call]
            BY <2>2, <3>4, <1>8, <1>g DEF CommitClaim, Answers
        <3>6. QED
            BY <3>3, <3>5, <1>8, <1>b, <1>f DEF CommitClaim
    <2>3. CASE ~Active(d)
        <3>1. calls' \in [Calls -> Call]
            BY <2>3, <1>8, <1>g DEF CommitClaim, Answers, Secrets
        <3>2. QED
            BY <2>3, <3>1, <1>8, <1>a, <1>b, <1>f DEF CommitClaim
    <2>4. QED
        BY <2>2, <2>3
<1>9. ASSUME NEW d \in Devices, Revoke(d) PROVE TvTypeOK'
    <2> DEFINE revoked == [devices[d] EXCEPT !.status = "REVOKED"]
    <2>1. Consistent(revoked)
        BY <1>9, <1>a DEF Row, Revoke, Exists
    <2>2. devices' = [devices EXCEPT ![d] = revoked]
        BY <1>9 DEF Revoke
    <2>3. Typed'
        BY <2>1, <2>2, <1>c
    <2>4. QED
        BY <2>3, <1>9, <1>b, <1>f DEF Revoke
<1>10. ASSUME NEW d \in Devices, Reset(d) PROVE TvTypeOK'
    <2>1. devices[d].tv \in Tvs \cup {None} /\ issued < MaxSecrets
        BY <1>10, <1>a DEF Reset, Row
    <2>2. Consistent(Session(devices[d].tv)) /\ issued + 1 \in Secrets
        BY <2>1, <1>f, NewSession
    <2>3. devices' = [devices EXCEPT ![d] = Session(devices[d].tv)]
        BY <1>10 DEF Reset
    <2>4. Typed'
        BY <2>2, <2>3, <1>c, Zenon
    <2>5. QED
        BY <2>2, <2>4, <1>10, <1>b, <1>f DEF Reset
<1>11. ASSUME NEW d \in Devices, Expire(d) PROVE TvTypeOK'
    <2> DEFINE late == [devices[d] EXCEPT !.expired = TRUE]
    <2>1. Consistent(late)
        BY <1>a DEF Row
    <2>2. devices' = [devices EXCEPT ![d] = late]
        BY <1>11 DEF Expire
    <2>3. Typed'
        BY <2>1, <2>2, <1>c
    <2>4. QED
        BY <2>3, <1>11, <1>b, <1>f DEF Expire
<1>12. CASE StopApi
    BY <1>12, <1>a, <1>b, <1>f DEF StopApi
<1>13. ASSUME NEW i \in Tvs, Load(i) \/ SwitchOff(i) \/ Disconnect(i) \/ ShowRoom(i) \/ Hint(i)
       PROVE  TvTypeOK'
    <2>1. tvs[i] \in Tv /\ 0 \in Secrets
        BY <1>f, MaxSecretsIsNat DEF Secrets
    <2>2. tvs' \in [Tvs -> Tv]
        <3>1. CASE Disconnect(i)
            BY <2>1, <3>1, <1>f DEF Disconnect
        <3>2. CASE SwitchOff(i)
            <4>1. [NewTv EXCEPT !.credential = tvs[i].credential] \in Tv
                BY <2>1 DEF NewTv, Tv
            <4>2. QED
                BY <4>1, <3>2, <1>f DEF SwitchOff
        <3>3. CASE Load(i)
            <4>1. \A mode \in {"provision", "loading"} : [tvs[i] EXCEPT !.mode = mode] \in Tv
                BY <2>1 DEF Tv
            <4>2. QED
                BY <4>1, <3>3, <1>e DEF Load
        <3>4. CASE Hint(i)
            <4>1. [tvs[i] EXCEPT !.mode = "loading", !.caught = FALSE] \in Tv
                BY <2>1 DEF Tv
            <4>2. QED
                BY <4>1, <3>4, <1>f DEF Hint
        <3>5. CASE ShowRoom(i)
            <4>1. /\ [tvs[i] EXCEPT !.mode = "ready", !.caught = TRUE] \in Tv
                  /\ [tvs[i] EXCEPT !.mode = "provision", !.credential = 0] \in Tv
                BY <2>1 DEF Tv
            <4>2. QED
                BY <4>1, <3>5, <1>f DEF ShowRoom
        <3>6. QED
            BY <3>1, <3>2, <3>3, <3>4, <3>5, <1>13
    <2>3. QED
        BY <2>2, <1>13, <1>a, <1>b, <1>f DEF Load, SwitchOff, Disconnect, ShowRoom, Hint
<1>14. ASSUME NEW i \in Tvs, Hear(i) PROVE TvTypeOK'
    <2> DEFINE h == tvs[i].call
    <2>1. /\ tvs[i] \in Tv
          /\ h \in Calls
          /\ calls[h].secret \in Secrets
          /\ 0 \in Secrets
        BY <1>14, <1>0, <1>f DEF Hear, WaitsForCall, Call, Secrets
    <2>2. tvs' \in [Tvs -> Tv]
        BY <2>1, <1>14, <1>f DEF Hear, Tv
    <2>3. QED
        BY <2>1, <2>2, <1>14, <1>a, <1>b, <1>f, <1>h DEF Hear
<1>15. ASSUME NEW h \in Calls, Drop(h) PROVE TvTypeOK'
    BY <1>15, <1>a, <1>b, <1>f, <1>h DEF Drop
<1>16. CASE UNCHANGED vars
    BY <1>16, <1>a, <1>b, <1>f DEF vars
<1>17. QED
    BY <1>1, <1>2, <1>3, <1>4, <1>5, <1>6, <1>7, <1>8, <1>9, <1>10, <1>11, <1>12,
       <1>13, <1>14, <1>15, <1>16 DEF Next, Serve, Run

-----------------------------------------------------------------------------
(* Calls in flight                                                         *)

(* A call that does not move goes on knowing what it knows, provided that  *)
(* the row it has locked is left alone.                                    *)
LEMMA CallKept ==
    ASSUME NEW g \in Calls, CallKnows(g),
           calls'[g] = calls[g], confirmed \subseteq confirmed',
           Holds(g) => /\ devices'[calls[g].row].status = devices[calls[g].row].status
                       /\ devices'[calls[g].row].secret = devices[calls[g].row].secret
    PROVE  CallKnows(g)'
BY DEF CallKnows, Pairing, Holds

(* A call that is over knows nothing.                                      *)
LEMMA CallOver ==
    ASSUME NEW g \in Calls, calls'[g].at \in {"idle"} \cup Answers
    PROVE  CallKnows(g)' /\ ~Holds(g)'
BY DEF CallKnows, Pairing, Holds, Answers

(* Replies and hanging up leave the other calls alone.                     *)
LEMMA ReplyEnds ==
    ASSUME TvTypeOK, NEW h \in Calls, NEW s,
           Hang(h) \/ \E answer \in Answers : Reply(h, answer, s)
    PROVE  /\ calls'[h].at \in {"idle"} \cup Answers
           /\ \A g \in Calls : g # h => calls'[g] = calls[g]
<1>1. calls \in [Calls -> Call]
    BY DEF TvTypeOK
<1>2. CASE Hang(h)
    BY <1>1, <1>2 DEF Hang, NoCall
<1>3. ASSUME NEW answer \in Answers, Reply(h, answer, s)
      PROVE  /\ calls'[h].at = answer
             /\ \A g \in Calls : g # h => calls'[g] = calls[g]
    BY <1>1, <1>3 DEF Reply, NoCall
<1>4. QED
    BY <1>2, <1>3

(* No step takes from a call in flight what it relies on: a row is changed *)
(* by others only while no pairing has it locked.                          *)
LEMMA CallsStep ==
    PairingInv /\ [Next]_vars => (\A g \in Calls : CallKnows(g)') /\ HoldersApart'
<1> DEFINE Goal == (\A g \in Calls : CallKnows(g)') /\ HoldersApart'
<1> SUFFICES ASSUME PairingInv, [Next]_vars PROVE Goal
    OBVIOUS
<1>0. /\ TvTypeOK
      /\ \A h \in Calls : CallKnows(h)
      /\ HoldersApart
    BY DEF PairingInv
<1>f. devices \in [Devices -> Row] /\ calls \in [Calls -> Call]
    BY <1>0 DEF TvTypeOK
<1>a. ASSUME NEW h \in Calls,
             \A g \in Calls : g # h => calls'[g] = calls[g],
             calls'[h].at \in {"idle"} \cup Answers,
             confirmed \subseteq confirmed',
             \A g \in Calls : g # h /\ Holds(g) =>
                 /\ devices'[calls[g].row].status = devices[calls[g].row].status
                 /\ devices'[calls[g].row].secret = devices[calls[g].row].secret
      PROVE  Goal
    <2>1. CallKnows(h)' /\ ~Holds(h)'
        BY <1>a, CallOver
    <2>2. ASSUME NEW g \in Calls, g # h PROVE CallKnows(g)'
        BY <2>2, <1>a, <1>0, CallKept
    <2>3. HoldersApart'
        BY <2>1, <1>a, <1>0 DEF HoldersApart, Holds
    <2>4. QED
        BY <2>1, <2>2, <2>3
<1>b. ASSUME UNCHANGED calls, confirmed \subseteq confirmed',
             \A g \in Calls : Holds(g) =>
                 /\ devices'[calls[g].row].status = devices[calls[g].row].status
                 /\ devices'[calls[g].row].secret = devices[calls[g].row].secret
      PROVE  Goal
    <2>1. \A g \in Calls : CallKnows(g)'
        BY <1>b, <1>0, CallKept
    <2>2. HoldersApart'
        BY <1>b, <1>0 DEF HoldersApart, Holds
    <2>3. QED
        BY <2>1, <2>2
<1>c. ASSUME NEW d \in Devices, Free(d), NEW row, devices' = [devices EXCEPT ![d] = row],
             NEW g \in Calls, Holds(g)
      PROVE  devices'[calls[g].row] = devices[calls[g].row]
    <2>1. calls[g].row # d
        BY <1>c DEF Free
    <2>2. calls[g].row \in Devices
        BY <1>c, <1>0 DEF CallKnows, Pairing, Holds
    <2>3. QED
        BY <2>1, <2>2, <1>c, <1>f
<1>d. ASSUME NEW h \in Calls, NEW call, calls' = [calls EXCEPT ![h] = call], CallKnows(h)',
             call.at \notin {"pairTest", "pairWrite"},
             UNCHANGED devices, confirmed \subseteq confirmed'
      PROVE  Goal
    <2>1. ASSUME NEW g \in Calls, g # h PROVE CallKnows(g)'
        BY <2>1, <1>d, <1>0, <1>f, CallKept
    <2>2. HoldersApart'
        BY <1>d, <1>0, <1>f DEF HoldersApart, Holds
    <2>3. QED
        BY <2>1, <2>2, <1>d
<1>1. ASSUME NEW i \in Tvs, NEW h \in Calls, Start(i, h) PROVE Goal
    <2> DEFINE rows == {d \in Devices : devices[d].tv = i /\ devices[d].status # "REVOKED"}
               call == [NoCall EXCEPT !.at = "start", !.tv = i, !.seen = rows]
    <2>1. calls' = [calls EXCEPT ![h] = call] /\ UNCHANGED <<devices, confirmed>>
        BY <1>1 DEF Start
    <2>2. call.at = "start" /\ call.tv = i
        BY DEF NoCall
    <2>3. CallKnows(h)'
        BY <2>1, <2>2, <1>f DEF CallKnows, Pairing, Holds
    <2>4. QED
        BY <2>1, <2>2, <2>3, <1>d
<1>2. ASSUME NEW h \in Calls, OpenSession(h) PROVE Goal
    <2>1. PICK d \in Devices : /\ devices' = [devices EXCEPT ![d] = Session(calls[h].tv)]
                               /\ Free(d) \/ ~Exists(d)
        <3>1. calls[h].seen \subseteq Devices
            BY <1>f DEF Call
        <3>2. \A new \in Devices : ~(new < new)
            BY DevicesAreNumbered
        <3>3. QED
            BY <3>1, <3>2, <1>2 DEF OpenSession
    <2>2. Free(d)
        BY <2>1, <1>0 DEF Free, Exists, CallKnows
    <2>3. QED
        BY <2>1, <2>2, <1>2, <1>0, <1>a, <1>c, ReplyEnds DEF OpenSession, Answers
<1>3. ASSUME NEW h \in Calls, NEW s \in 1..issued, NEW room \in Rooms, Pair(h, s, room)
      PROVE  Goal
    <2>1. PICK d \in RowsWithCode(s) : calls' = [calls EXCEPT ![h] =
             [NoCall EXCEPT !.at = "pairLock", !.row = d, !.room = room, !.secret = s]]
        BY <1>3 DEF Pair
    <2> DEFINE call == [NoCall EXCEPT !.at = "pairLock", !.row = d, !.room = room, !.secret = s]
    <2>2. call.at = "pairLock" /\ call.row = d /\ call.room = room /\ call.secret = s
        BY DEF NoCall
    <2>3. d \in Devices /\ confirmed' = confirmed \cup {<<s, room>>} /\ UNCHANGED devices
        BY <1>3 DEF Pair, RowsWithCode
    <2>4. calls' = [calls EXCEPT ![h] = call] /\ calls'[h] = call
        BY <2>1, <1>f
    <2>5. CallKnows(h)'
        <3>1. /\ calls'[h].at = "pairLock"
              /\ calls'[h].row \in Devices
              /\ calls'[h].room \in Rooms
              /\ <<calls'[h].secret, calls'[h].room>> = <<s, room>>
            BY <2>2, <2>3, <2>4
        <3>2. <<calls'[h].secret, calls'[h].room>> \in confirmed'
            BY <2>3, <3>1, Zenon
        <3>3. QED
            BY <3>1, <3>2 DEF CallKnows, Pairing, Holds
    <2>6. QED
        BY <2>2, <2>3, <2>4, <2>5, <1>d
<1>4. ASSUME NEW h \in Calls, LockForPair(h) PROVE Goal
    <2> DEFINE d == calls[h].row
    <2>1. /\ UNCHANGED <<devices, confirmed>>
          /\ calls[h].at = "pairLock"
          /\ Free(d)
        BY <1>4 DEF LockForPair
    <2>2. CASE Hang(h)
        BY <2>1, <2>2, <1>0, <1>a, ReplyEnds
    <2>3. CASE /\ devices[d].status = "PENDING"
               /\ devices[d].secret = calls[h].secret
               /\ calls' = [calls EXCEPT ![h].at = "pairTest"]
        <3>1. /\ calls'[h].at = "pairTest"
              /\ calls'[h].row = d
              /\ calls'[h].room = calls[h].room
              /\ calls'[h].secret = calls[h].secret
              /\ \A g \in Calls : g # h => calls'[g] = calls[g]
            BY <2>3, <1>f DEF Call
        <3>2. CallKnows(h)'
            BY <2>1, <2>3, <3>1, <1>0 DEF CallKnows, Pairing, Holds
        <3>3. ASSUME NEW g \in Calls, g # h PROVE CallKnows(g)'
            BY <2>1, <3>1, <3>3, <1>0, CallKept
        <3>4. HoldersApart'
            BY <2>1, <3>1, <1>0 DEF HoldersApart, Holds, Free
        <3>5. QED
            BY <3>2, <3>3, <3>4
    <2>4. QED
        BY <2>2, <2>3, <1>4 DEF LockForPair
<1>5. ASSUME NEW h \in Calls, TestRoom(h) PROVE Goal
    <2>1. UNCHANGED <<devices, confirmed>> /\ calls[h].at = "pairTest"
        BY <1>5 DEF TestRoom
    <2>2. CASE Hang(h)
        BY <2>1, <2>2, <1>0, <1>a, ReplyEnds
    <2>3. CASE calls' = [calls EXCEPT ![h].at = "pairWrite"]
        <3>1. /\ calls'[h].at = "pairWrite"
              /\ calls'[h].row = calls[h].row
              /\ calls'[h].room = calls[h].room
              /\ calls'[h].secret = calls[h].secret
              /\ \A g \in Calls : g # h => calls'[g] = calls[g]
            BY <2>3, <1>f DEF Call
        <3>2. CallKnows(h)'
            BY <2>1, <3>1, <1>0 DEF CallKnows, Pairing, Holds
        <3>3. ASSUME NEW g \in Calls, g # h PROVE CallKnows(g)'
            BY <2>1, <3>1, <3>3, <1>0, CallKept
        <3>4. HoldersApart'
            BY <2>1, <3>1, <1>0 DEF HoldersApart, Holds
        <3>5. QED
            BY <3>2, <3>3, <3>4
    <2>4. QED
        BY <2>2, <2>3, <1>5 DEF TestRoom
<1>6. ASSUME NEW h \in Calls, CommitPair(h) PROVE Goal
    <2> DEFINE d == calls[h].row
    <2>1. Holds(h) /\ d \in Devices
        BY <1>6, <1>0 DEF CommitPair, Holds, CallKnows, Pairing
    <2>2. ASSUME NEW g \in Calls, g # h, Holds(g)
          PROVE  devices'[calls[g].row] = devices[calls[g].row]
        <3>1. calls[g].row # d /\ calls[g].row \in Devices
            BY <2>1, <2>2, <1>0 DEF HoldersApart, CallKnows, Pairing, Holds
        <3>2. QED
            BY <2>1, <3>1, <1>6, <1>f DEF CommitPair
    <2>3. QED
        BY <2>2, <1>6, <1>0, <1>a, ReplyEnds DEF CommitPair
<1>7. ASSUME NEW i \in Tvs, NEW h \in Calls, Claim(i, h) PROVE Goal
    <2>1. PICK d \in RowsWithCode(tvs[i].session) : calls' = [calls EXCEPT ![h] =
             [NoCall EXCEPT !.at = "claim", !.row = d, !.tv = i, !.secret = tvs[i].session]]
        BY <1>7 DEF Claim
    <2> DEFINE call == [NoCall EXCEPT !.at = "claim", !.row = d, !.tv = i,
                                    !.secret = tvs[i].session]
    <2>2. call.at = "claim" /\ call.row = d
        BY DEF NoCall
    <2>3. d \in Devices /\ UNCHANGED <<devices, confirmed>>
        BY <1>7 DEF Claim, RowsWithCode
    <2>4. calls' = [calls EXCEPT ![h] = call] /\ calls'[h] = call
        BY <2>1, <1>f
    <2>5. CallKnows(h)'
        BY <2>2, <2>3, <2>4 DEF CallKnows, Pairing, Holds
    <2>6. QED
        BY <2>2, <2>3, <2>4, <2>5, <1>d
<1>8. ASSUME NEW h \in Calls, CommitClaim(h) PROVE Goal
    <2> DEFINE d == calls[h].row
               claimed == [devices[d] EXCEPT !.status = "CLAIMED"]
    <2>1. d \in Devices /\ Free(d) /\ UNCHANGED confirmed
        BY <1>8, <1>0 DEF CommitClaim, CallKnows
    <2>2. devices' = [devices EXCEPT ![d] = claimed] \/ UNCHANGED devices
        BY <1>8 DEF CommitClaim
    <2>3. ASSUME NEW g \in Calls, Holds(g)
          PROVE  devices'[calls[g].row] = devices[calls[g].row]
        BY <2>1, <2>2, <2>3, <1>c
    <2>4. \E s, answer : answer \in Answers /\ Reply(h, answer, s)
        BY <1>8 DEF CommitClaim, Answers
    <2>5. QED
        BY <2>1, <2>3, <2>4, <1>0, <1>a, ReplyEnds
<1>9. ASSUME NEW d \in Devices, Revoke(d) \/ Reset(d) PROVE Goal
    <2>1. PICK row : devices' = [devices EXCEPT ![d] = row]
        BY <1>9 DEF Revoke, Reset
    <2>2. Free(d) /\ UNCHANGED <<calls, confirmed>>
        BY <1>9 DEF Revoke, Reset
    <2>3. QED
        BY <2>1, <2>2, <1>b, <1>c
<1>10. ASSUME NEW d \in Devices, Expire(d) PROVE Goal
    <2>1. \A e \in Devices : /\ devices'[e].status = devices[e].status
                             /\ devices'[e].secret = devices[e].secret
        BY <1>10, <1>f DEF Expire, Row
    <2>2. \A g \in Calls : Holds(g) => calls[g].row \in Devices
        BY <1>0 DEF CallKnows, Pairing, Holds
    <2>3. QED
        BY <2>1, <2>2, <1>10, <1>b DEF Expire
<1>11. CASE StopApi
    <2>1. \A h \in Calls : calls'[h].at = "idle"
        BY <1>11 DEF StopApi, NoCall
    <2>2. QED
        BY <2>1, CallOver DEF HoldersApart
<1>12. ASSUME NEW i \in Tvs, Hear(i) PROVE Goal
    <2>1. tvs[i].call \in Calls /\ Hang(tvs[i].call)
        BY <1>12 DEF Hear, PairingInv, WaitsForCall
    <2>2. QED
        BY <2>1, <1>12, <1>0, <1>a, ReplyEnds DEF Hear
<1>13. ASSUME NEW h \in Calls, Drop(h) PROVE Goal
    BY <1>13, <1>0, <1>a, ReplyEnds DEF Drop
<1>14. ASSUME UNCHANGED <<devices, calls, confirmed>> PROVE Goal
    BY <1>14, <1>b
<1>15. ASSUME NEW i \in Tvs,
              Poll(i) \/ Load(i) \/ SwitchOff(i) \/ Disconnect(i) \/ ShowRoom(i) \/ Hint(i)
       PROVE  Goal
    BY <1>15, <1>14 DEF Poll, Load, SwitchOff, Disconnect, ShowRoom, Hint
<1>16. CASE UNCHANGED vars
    BY <1>16, <1>14 DEF vars
<1> HIDE DEF Goal
<1>17. QED
    BY <1>1, <1>2, <1>3, <1>4, <1>5, <1>6, <1>7, <1>8, <1>9, <1>10, <1>11, <1>12,
       <1>13, <1>15, <1>16 DEF Next, Serve, Run

(* Whoever waits, waits for a call: TVs that fail or are switched off wait  *)
(* no longer.                                                              *)
LEMMA WaitingStep == PairingInv /\ [Next]_vars => WaitsForCall'
<1> SUFFICES ASSUME PairingInv, [Next]_vars PROVE WaitsForCall'
    OBVIOUS
<1>0. tvs \in [Tvs -> Tv] /\ WaitsForCall
    BY DEF PairingInv, TvTypeOK
<1>a. \A tv \in Tv : Failed(tv).mode # "asking"
    BY DEF Failed, NewTv
<1>b. ASSUME NEW i \in Tvs, NEW tv, tvs' = [tvs EXCEPT ![i] = tv],
             tv.mode = "asking" => tv.call \in Calls
      PROVE  WaitsForCall'
    BY <1>0, <1>b DEF WaitsForCall
<1>1. ASSUME NEW i \in Tvs, NEW h \in Calls, Start(i, h) \/ Claim(i, h) PROVE WaitsForCall'
    <2>1. tvs' = [tvs EXCEPT ![i].mode = "asking", ![i].call = h]
        BY <1>1 DEF Start, Claim
    <2>2. QED
        BY <2>1, <1>0 DEF WaitsForCall, Tv
<1>2. ASSUME NEW i \in Tvs, Poll(i) PROVE WaitsForCall'
    <2>1. \/ tvs' = [tvs EXCEPT ![i] = Failed(tvs[i])]
          \/ tvs' = [tvs EXCEPT ![i].mode = "provision", ![i].session = 0]
        BY <1>2 DEF Poll
    <2>2. QED
        BY <2>1, <1>0, <1>a DEF WaitsForCall, Tv
<1>3. ASSUME NEW i \in Tvs, Hear(i) PROVE WaitsForCall'
    <2>1. tvs[i] \in Tv
        BY <1>0
    <2> DEFINE h == tvs[i].call
               heard == [tvs[i] EXCEPT !.mode = "pairing", !.call = None,
                                       !.session = calls[h].secret]
               opened == [tvs[i] EXCEPT !.mode = "loading", !.call = None, !.session = 0,
                                     !.credential = calls[h].secret]
    <2>2. heard.mode # "asking" /\ opened.mode # "asking" /\ Failed(tvs[i]).mode # "asking"
        BY <2>1, <1>a DEF Tv
    <2>3. \/ tvs' = [tvs EXCEPT ![i] = heard]
          \/ tvs' = [tvs EXCEPT ![i] = opened]
          \/ tvs' = [tvs EXCEPT ![i] = Failed(tvs[i])]
        BY <1>3 DEF Hear
    <2> HIDE DEF heard, opened
    <2>4. QED
        BY <2>2, <2>3, <1>b
<1>4. ASSUME NEW i \in Tvs, Load(i) \/ ShowRoom(i) \/ Hint(i) PROVE WaitsForCall'
    BY <1>4, <1>0 DEF Load, ShowRoom, Hint, WaitsForCall, Tv
<1>5. ASSUME NEW i \in Tvs, SwitchOff(i) PROVE WaitsForCall'
    BY <1>5, <1>0 DEF SwitchOff, NewTv, WaitsForCall
<1>6. ASSUME NEW i \in Tvs, Disconnect(i) PROVE WaitsForCall'
    BY <1>6, <1>0, <1>a DEF Disconnect, WaitsForCall
<1>7. CASE StopApi
    BY <1>7, <1>0, <1>a DEF StopApi, WaitsForCall
<1>8. CASE UNCHANGED tvs
    BY <1>8, <1>0 DEF WaitsForCall
<1>9. QED
    BY <1>1, <1>2, <1>3, <1>4, <1>5, <1>6, <1>7, <1>8 DEF Next, vars, Serve, Run,
       OpenSession, LockForPair, TestRoom, CommitPair, CommitClaim, Drop, Pair,
       Revoke, Reset, Expire

-----------------------------------------------------------------------------
(* Rows                                                                    *)

(* The three things that happen to the rows.                               *)
Opens(d) ==
    /\ \E i \in Tvs \cup {None} : devices' = [devices EXCEPT ![d] = Session(i)]
    /\ issued' = issued + 1
    /\ UNCHANGED confirmed

Admits(h) ==
    /\ calls[h].at = "pairWrite"
    /\ ActiveIn(calls[h].room) = {}
    /\ devices' = [devices EXCEPT ![calls[h].row].status = "PAIRED",
                                  ![calls[h].row].room = calls[h].room]
    /\ UNCHANGED <<issued, confirmed>>

Keeps ==
    /\ issued' = issued
    /\ confirmed \subseteq confirmed'
    /\ \A d \in Devices :
          /\ devices'[d].secret = devices[d].secret
          /\ devices'[d].room = devices[d].room
          /\ Active(d)' => Active(d)
          /\ devices[d].status = "REVOKED" => devices'[d].status = "REVOKED"

LEMMA RowStep ==
    PairingInv /\ [Next]_vars =>
        \/ \E d \in Devices : Opens(d)
        \/ \E h \in Calls : Admits(h)
        \/ Keeps
<1> SUFFICES ASSUME PairingInv, [Next]_vars,
                    ~ \E d \in Devices : Opens(d),
                    ~ \E h \in Calls : Admits(h)
             PROVE  Keeps
    OBVIOUS
<1>0. devices \in [Devices -> Row]
    BY DEF PairingInv, TvTypeOK
<1>a. ASSUME UNCHANGED <<devices, issued>>, confirmed \subseteq confirmed' PROVE Keeps
    BY <1>a DEF Keeps, Active
<1>1. ASSUME NEW h \in Calls, OpenSession(h) PROVE FALSE
    <2>1. calls[h].seen \subseteq Devices /\ calls[h].tv \in Tvs \cup {None}
        BY DEF PairingInv, TvTypeOK, Call
    <2>2. PICK d \in Devices : devices' = [devices EXCEPT ![d] = Session(calls[h].tv)]
        BY <2>1, <1>1 DEF OpenSession
    <2>3. Opens(d)
        BY <2>1, <2>2, <1>1 DEF Opens, OpenSession
    <2>4. QED
        BY <2>3
<1>2. ASSUME NEW d \in Devices, Reset(d) PROVE FALSE
    <2>1. devices[d].tv \in Tvs \cup {None}
        BY <1>0 DEF Row
    <2>2. Opens(d)
        BY <2>1, <1>2 DEF Opens, Reset
    <2>3. QED
        BY <2>2
<1>3. ASSUME NEW h \in Calls, CommitPair(h) PROVE Keeps
    <2>1. CASE ActiveIn(calls[h].room) = {}
        BY <2>1, <1>3 DEF CommitPair, Admits
    <2>2. CASE ActiveIn(calls[h].room) # {}
        BY <2>2, <1>3, <1>a DEF CommitPair
    <2>3. QED
        BY <2>1, <2>2
<1>4. ASSUME NEW h \in Calls, CommitClaim(h) PROVE Keeps
    <2> DEFINE d == calls[h].row
    <2>1. CASE Active(d)
        <3>1. /\ d \in Devices
              /\ devices' = [devices EXCEPT ![d].status = "CLAIMED"]
              /\ UNCHANGED <<issued, confirmed>>
            BY <2>1, <1>4 DEF CommitClaim, PairingInv, CallKnows
        <3>2. QED
            BY <2>1, <3>1, <1>0 DEF Keeps, Active, Row
    <2>2. CASE ~Active(d)
        BY <2>2, <1>4, <1>a DEF CommitClaim
    <2>3. QED
        BY <2>1, <2>2
<1>5. ASSUME NEW d \in Devices, Revoke(d) PROVE Keeps
    BY <1>5, <1>0 DEF Revoke, Keeps, Active, Row
<1>6. ASSUME NEW d \in Devices, Expire(d) PROVE Keeps
    BY <1>6, <1>0 DEF Expire, Keeps, Active, Row
<1>7. QED
    BY <1>1, <1>2, <1>3, <1>4, <1>5, <1>6, <1>a DEF Next, vars, Serve, Run,
       Start, LockForPair, TestRoom, Drop, Pair, Claim, Poll, Hear, ShowRoom,
       Load, SwitchOff, Disconnect, Hint, StopApi

-----------------------------------------------------------------------------
(* The properties                                                          *)

(* A row is admitted while nobody is active in its room, and every other   *)
(* step leaves at most the active rows that were there.                    *)
LEMMA RoomStep ==
    PairingInv /\ [Next]_vars => AloneInRoom' /\ NothingAhead' /\ RoomAsConfirmed'
<1> DEFINE Goal == AloneInRoom' /\ NothingAhead' /\ RoomAsConfirmed'
<1> SUFFICES ASSUME PairingInv, [Next]_vars PROVE Goal
    OBVIOUS
<1>0. /\ AloneInRoom /\ NothingAhead /\ RoomAsConfirmed
      /\ devices \in [Devices -> Row]
      /\ issued \in Nat
      /\ \A d \in Devices : devices[d].secret \in Nat
    BY DEF PairingInv, TvTypeOK, Secrets, Row
<1>1. ASSUME NEW d \in Devices, Opens(d) PROVE Goal
    <2>1. PICK i \in Tvs \cup {None} : devices' = [devices EXCEPT ![d] = Session(i)]
        BY <1>1 DEF Opens
    <2>2. /\ devices'[d].secret = issued + 1
          /\ ~Active(d)'
        BY <2>1, <1>0 DEF Session, Active
    <2>3. \A e \in Devices : e # d => devices'[e] = devices[e]
        BY <2>1, <1>0
    <2>4. AloneInRoom'
        BY <2>2, <2>3, <1>0 DEF AloneInRoom, Active
    <2>5. NothingAhead'
        BY <2>2, <2>3, <1>0, <1>1 DEF NothingAhead, Opens
    <2>6. RoomAsConfirmed'
        BY <2>2, <2>3, <1>0, <1>1 DEF RoomAsConfirmed, Active, Opens
    <2>7. QED
        BY <2>4, <2>5, <2>6
<1>2. ASSUME NEW h \in Calls, Admits(h) PROVE Goal
    <2> DEFINE d == calls[h].row
               room == calls[h].room
    <2>1. /\ d \in Devices
          /\ devices[d].secret = calls[h].secret
          /\ <<calls[h].secret, room>> \in confirmed
          /\ \A e \in Devices : Active(e) => devices[e].room # room
        BY <1>2 DEF Admits, ActiveIn, PairingInv, CallKnows, Pairing, Holds
    <2>2. /\ devices'[d].room = room
          /\ devices'[d].secret = devices[d].secret
          /\ \A e \in Devices : e # d => devices'[e] = devices[e]
          /\ confirmed' = confirmed /\ issued' = issued
        BY <2>1, <1>0, <1>2 DEF Admits, Row
    <2>3. AloneInRoom'
        BY <2>1, <2>2, <1>0 DEF AloneInRoom, Active
    <2>4. NothingAhead'
        BY <2>2, <1>0 DEF NothingAhead
    <2>5. RoomAsConfirmed'
        BY <2>1, <2>2, <1>0 DEF RoomAsConfirmed, Active
    <2>6. QED
        BY <2>3, <2>4, <2>5
<1>3. CASE Keeps
    <2>1. AloneInRoom'
        BY <1>0, <1>3 DEF AloneInRoom, Keeps
    <2>2. NothingAhead'
        BY <1>0, <1>3 DEF NothingAhead, Keeps
    <2>3. RoomAsConfirmed'
        BY <1>0, <1>3 DEF RoomAsConfirmed, Keeps
    <2>4. QED
        BY <2>1, <2>2, <2>3
<1> HIDE DEF Goal
<1>4. QED
    BY <1>1, <1>2, <1>3, RowStep

(* The inductive invariant holds of every behaviour.                       *)
THEOREM Inductive == TvSpec => []PairingInv
<1>1. Init => PairingInv
    BY InitPairingInv
<1>2. PairingInv /\ [Next]_vars => PairingInv'
    BY TypeStep, CallsStep, WaitingStep, RoomStep DEF PairingInv
<1>3. QED
    BY <1>1, <1>2, PTL DEF TvSpec

(* Rows, calls and TVs keep their types; an active row has a room and a    *)
(* pending one has none.                                                   *)
THEOREM TvTypeCorrect == TvSpec => []TvTypeOK
<1>1. PairingInv => TvTypeOK
    BY DEF PairingInv
<1>2. QED
    BY <1>1, Inductive, PTL

(* However many receptionists pair, reset and revoke at the same time, no  *)
(* room has two devices that are let in (pair and its unique index).       *)
THEOREM RoomsAreExclusive == TvSpec => []OneTvPerRoom
<1>1. ASSUME AloneInRoom, NEW room \in Rooms PROVE Cardinality(ActiveIn(room)) <= 1
    <2>1. CASE ActiveIn(room) = {}
        BY <2>1, FS_EmptySet
    <2>2. CASE ActiveIn(room) # {}
        <3>1. PICK d : d \in ActiveIn(room)
            BY <2>2
        <3>2. ActiveIn(room) = {d}
            BY <3>1, <1>1 DEF ActiveIn, AloneInRoom
        <3>3. QED
            BY <3>2, FS_Singleton
    <2>3. QED
        BY <2>1, <2>2
<1>2. PairingInv => OneTvPerRoom
    BY <1>1 DEF PairingInv, OneTvPerRoom
<1>3. QED
    BY <1>2, Inductive, PTL

(* A device is let into a room only with the code of its present session,  *)
(* entered for that room (the comparison under the lock in pair).          *)
THEOREM RoomsAreConfirmed == TvSpec => []RoomAsConfirmed
<1>1. PairingInv => RoomAsConfirmed
    BY DEF PairingInv
<1>2. QED
    BY <1>1, Inductive, PTL

(* No step makes a revoked, reset or replaced secret open a room again: a  *)
(* row is admitted only while it is pending, and a claim keeps only active *)
(* rows active.                                                            *)
THEOREM RetiredForGood == TvSpec => RetiredStaysRetired
<1> DEFINE Stays == \A s \in Retired : s \in Retired'
<1>1. ASSUME PairingInv, [Next]_vars PROVE Stays
    <2> SUFFICES ASSUME NEW s \in Retired PROVE s \in Retired'
        OBVIOUS
    <2>0. /\ devices \in [Devices -> Row]
          /\ issued \in Nat
          /\ s \in 1..issued
          /\ \A d \in Devices : devices[d].secret = s => devices[d].status = "REVOKED"
        BY <1>1 DEF PairingInv, TvTypeOK, Secrets, Retired
    <2>1. ASSUME NEW d \in Devices, Opens(d) PROVE s \in Retired'
        <3>1. PICK i \in Tvs \cup {None} : devices' = [devices EXCEPT ![d] = Session(i)]
            BY <2>1 DEF Opens
        <3>2. /\ devices'[d].secret # s
              /\ \A e \in Devices : e # d => devices'[e] = devices[e]
              /\ s \in 1..issued'
            BY <3>1, <2>0, <2>1 DEF Opens, Session
        <3>3. QED
            BY <3>2, <2>0 DEF Retired
    <2>2. ASSUME NEW h \in Calls, Admits(h) PROVE s \in Retired'
        <3> DEFINE d == calls[h].row
        <3>1. d \in Devices /\ devices[d].status = "PENDING"
            BY <1>1, <2>2 DEF Admits, PairingInv, CallKnows, Pairing, Holds
        <3>2. /\ devices'[d].secret = devices[d].secret
              /\ \A e \in Devices : e # d => devices'[e] = devices[e]
              /\ issued' = issued
            BY <3>1, <2>0, <2>2 DEF Admits, Row
        <3>3. devices[d].secret # s
            BY <3>1, <2>0
        <3>4. QED
            BY <3>2, <3>3, <2>0 DEF Retired
    <2>3. CASE Keeps
        BY <2>0, <2>3 DEF Keeps, Retired
    <2>4. QED
        BY <2>1, <2>2, <2>3, <1>1, RowStep
<1>2. PairingInv /\ [Next]_vars => [Stays]_vars
    BY <1>1
<1>3. QED
    BY <1>2, Inductive, PTL DEF TvSpec, RetiredStaysRetired

-----------------------------------------------------------------------------
(* The inductive invariant of the self-update                              *)

(* A file that has its final name passed the verification.                 *)
FilesVerified == \A v \in Versions : final[v] \in {"none", "good"}

(* Where a check works on a release it has found.                          *)
Fetching == {"download", "receive", "staged"}

(* A check that has found an update works on a release above the installed *)
(* one, and has its file when it says so.  A record in the preferences     *)
(* says nothing: a stop may have left it without its file.                 *)
CheckKnows ==
    /\ check.at \in Fetching => check.target \in Versions /\ check.target > installed
    /\ check.at = "staged" => final[check.target] = "good"

(* What the overlay offers is newer than what is installed.                *)
OfferIsNewer == Offered => screen.version \in Versions /\ screen.version > installed

UpdateInv ==
    /\ UpdateTypeOK
    /\ FilesVerified
    /\ CheckKnows
    /\ OfferIsNewer

-----------------------------------------------------------------------------
(* The records the state is made of                                        *)

LEMMA VersionFacts ==
    /\ MaxVersion \in Nat /\ MaxVersion > 0 /\ 1 \in Versions
    /\ Versions \subseteq Nat /\ 0 \notin Versions
    /\ 0..MaxVersion = Versions \cup {0}
BY VersionsAreNumbers DEF Versions

LEMMA ShowsIsScreen ==
    ASSUME NEW what \in {"Idle", "Checking", "UpToDate", "Downloading", "Ready",
                         "PermissionRequired", "Installing", "Failed"},
           NEW v \in 0..MaxVersion
    PROVE  Shows(what, v) \in Screens /\ Shows(what, v).what = what /\ Shows(what, v).version = v
BY DEF Shows, Screens

LEMMA IdleIsScreen == Idle \in Screens /\ Idle.what = "Idle"
<1>1. 0 \in 0..MaxVersion
    BY VersionFacts
<1>2. QED
    BY <1>1, ShowsIsScreen DEF Idle

LEMMA ScreenFields ==
    ASSUME NEW s \in Screens
    PROVE  s.version \in 0..MaxVersion
BY DEF Screens

LEMMA NoCheckIsCheck == NoCheck \in Checks /\ NoCheck.at = "none"
BY VersionFacts, BoundsAreNumbers DEF NoCheck, Checks, Triggers

LEMMA AskingIsCheck ==
    ASSUME NEW trigger \in Triggers
    PROVE  Asking(trigger) \in Checks /\ Asking(trigger).at = "ask"
BY VersionFacts, BoundsAreNumbers DEF Asking, Checks

LEMMA CheckFields ==
    ASSUME NEW c \in Checks
    PROVE  c.trigger \in Triggers /\ c.target \in 0..MaxVersion /\ c.tries \in 0..MaxTries
BY DEF Checks

LEMMA GoingOnIsCheck ==
    ASSUME check \in Checks, NEW where \in Fetching,
           NEW v \in 0..MaxVersion, NEW n \in 0..MaxTries
    PROVE  /\ GoingOn(where, v, n) \in Checks
           /\ GoingOn(where, v, n).at = where /\ GoingOn(where, v, n).target = v
BY DEF GoingOn, Checks, Fetching

LEMMA RestoringIsCheck ==
    /\ [NoCheck EXCEPT !.at = "restore"] \in Checks
    /\ [NoCheck EXCEPT !.at = "restore"].at = "restore"
    /\ [NoCheck EXCEPT !.at = "restore"].trigger = "BACKGROUND"
BY VersionFacts, BoundsAreNumbers DEF NoCheck, Checks, Triggers

LEMMA SavedFields ==
    ASSUME saved \in [pending : 0..MaxVersion, dismissed : 0..MaxVersion]
    PROVE  saved.pending \in 0..MaxVersion /\ saved.dismissed \in 0..MaxVersion
OBVIOUS

LEMMA PartFields ==
    ASSUME NEW p \in Parts
    PROVE  p.bytes \in 0..Size /\ p.good \in BOOLEAN
BY DEF Parts

LEMMA EmptyIsPart == Empty \in Parts
BY BoundsAreNumbers DEF Empty, Parts

LEMMA InitUpdateInv == UpdateInit => UpdateInv
<1> SUFFICES ASSUME UpdateInit PROVE UpdateInv
    OBVIOUS
<1>1. UpdateTypeOK
    <2>1. feed \in Versions \cup {Broken} /\ artifact \in [Versions -> BOOLEAN]
          /\ installed \in Versions /\ allowed \in BOOLEAN
        BY VersionFacts DEF UpdateInit
    <2>2. installer \in 0..MaxVersion /\ pending \in 0..MaxVersion /\ dismissed \in 0..MaxVersion
          /\ saved \in [pending : 0..MaxVersion, dismissed : 0..MaxVersion]
          /\ faults \in 0..MaxFaults
        BY VersionFacts, BoundsAreNumbers DEF UpdateInit
    <2>3. final \in [Versions -> {"none", "good", "bad"}] /\ part \in [Versions -> Parts]
          /\ lately \in BOOLEAN /\ launched \subseteq Triggers \ {"BACKGROUND"}
        BY EmptyIsPart DEF UpdateInit, Triggers
    <2>4. screen \in Screens /\ check \in Checks
        BY IdleIsScreen, NoCheckIsCheck DEF UpdateInit
    <2>5. QED
        BY <2>1, <2>2, <2>3, <2>4 DEF UpdateTypeOK
<1>2. FilesVerified /\ CheckKnows /\ OfferIsNewer
    BY IdleIsScreen, NoCheckIsCheck
    DEF UpdateInit, FilesVerified, CheckKnows, OfferIsNewer, Offered, Fetching
<1>3. QED
    BY <1>1, <1>2 DEF UpdateInv

-----------------------------------------------------------------------------
(* Tame steps                                                              *)

(* Most steps leave the files alone or remove the prepared one, begin, end *)
(* or go on with a check, and offer nothing that was not on offer before.  *)
OtherTypes ==
    /\ feed \in Versions \cup {Broken}
    /\ artifact \in [Versions -> BOOLEAN]
    /\ allowed \in BOOLEAN
    /\ installer \in 0..MaxVersion
    /\ part \in [Versions -> Parts]
    /\ dismissed \in 0..MaxVersion
    /\ saved \in [pending : 0..MaxVersion, dismissed : 0..MaxVersion]
    /\ lately \in BOOLEAN
    /\ launched \subseteq Triggers \ {"BACKGROUND"}
    /\ faults \in 0..MaxFaults

TameFiles == Clear \/ (final' = final /\ pending' \in 0..MaxVersion)

TameCheck ==
    /\ check' \in Checks
    /\ \/ check'.at \in {"none", "restore", "ask"}
       \/ UNCHANGED <<check, final>>
       \/ /\ check.at \in Fetching /\ check'.at \in {"download", "receive"}
          /\ check'.target = check.target

TameScreen ==
    /\ screen' \in Screens
    /\ \/ screen' = screen
       \/ screen'.what \notin {"Ready", "PermissionRequired"}
       \/ screen'.version \in Versions /\ screen'.version > installed

LEMMA TameStep ==
    ASSUME UpdateInv, installed' = installed, OtherTypes', TameFiles, TameCheck, TameScreen
    PROVE  UpdateInv'
<1>1. final' \in [Versions -> {"none", "good", "bad"}] /\ pending' \in 0..MaxVersion
    BY VersionFacts DEF UpdateInv, UpdateTypeOK, TameFiles, Clear
<1>2. UpdateTypeOK'
    BY <1>1 DEF UpdateInv, UpdateTypeOK, OtherTypes, TameCheck, TameScreen
<1>3. FilesVerified'
    BY VersionFacts DEF UpdateInv, UpdateTypeOK, TameFiles, Clear, FilesVerified
<1>4. CheckKnows'
    BY DEF UpdateInv, CheckKnows, TameCheck, Fetching
<1>5. OfferIsNewer'
    BY DEF UpdateInv, OfferIsNewer, Offered, TameScreen
<1>6. QED
    BY <1>2, <1>3, <1>4, <1>5 DEF UpdateInv

LEMMA TypesOfUpdateInv ==
    UpdateInv =>
        /\ OtherTypes /\ installed \in Versions /\ check \in Checks /\ screen \in Screens
        /\ pending \in 0..MaxVersion
BY DEF UpdateInv, UpdateTypeOK, OtherTypes

(* What Published shows is tame if what it is given is.                    *)
LEMMA PublishedIsTame ==
    ASSUME UpdateInv, NEW s \in Screens, Published(s),
           \/ s.what \notin {"Ready", "PermissionRequired"}
           \/ s.version \in Versions /\ s.version > installed
    PROVE  TameScreen
BY TypesOfUpdateInv DEF Published, TameScreen

LEMMA EndCheckIsTame == EndCheck => TameCheck
BY NoCheckIsCheck DEF EndCheck, TameCheck

(* A check begins.                                                         *)
LEMMA BeginningStep ==
    ASSUME UpdateInv, NEW trigger \in launched, BeginLaunched(trigger) \/ AlreadyRunning(trigger)
    PROVE  UpdateInv'
<1>0. trigger \in Triggers
    BY DEF UpdateInv, UpdateTypeOK
<1>1. installed' = installed /\ TameFiles
    BY TypesOfUpdateInv DEF BeginLaunched, AlreadyRunning, world, files, preferences, TameFiles
<1>2. OtherTypes'
    BY TypesOfUpdateInv DEF BeginLaunched, AlreadyRunning, world, files, preferences, OtherTypes
<1>3. TameCheck
    BY <1>0, AskingIsCheck, TypesOfUpdateInv
    DEF BeginLaunched, AlreadyRunning, files, TameCheck
<1>4. TameScreen
    BY VersionFacts, ShowsIsScreen, TypesOfUpdateInv
    DEF BeginLaunched, AlreadyRunning, TameScreen
<1>5. QED
    BY <1>1, <1>2, <1>3, <1>4, TameStep

(* The worker begins, and restores what is prepared or clears it.           *)
LEMMA WorkerStep ==
    ASSUME UpdateInv, BeginWork \/ RestoreFinds \/ RestoreClears
    PROVE  UpdateInv'
<1>1. installed' = installed /\ TameFiles
    BY TypesOfUpdateInv DEF BeginWork, RestoreFinds, RestoreClears, world, files, TameFiles
<1>2. OtherTypes'
    BY TypesOfUpdateInv
    DEF BeginWork, RestoreFinds, RestoreClears, world, files, Succeeded, OtherTypes
<1>3. check' \in {[NoCheck EXCEPT !.at = "restore"], Asking("BACKGROUND"), NoCheck}
      /\ screen' = screen
    BY DEF BeginWork, RestoreFinds, RestoreClears, EndCheck
<1>4. TameCheck /\ TameScreen
    BY <1>3, RestoringIsCheck, AskingIsCheck, NoCheckIsCheck, TypesOfUpdateInv
    DEF TameCheck, TameScreen, Triggers
<1>5. QED
    BY <1>1, <1>2, <1>4, TameStep

(* The manifest has nothing to download.                                   *)
LEMMA NothingFoundStep ==
    ASSUME UpdateInv, FindNothing \/ FindInvalid \/ FindPutOff
    PROVE  UpdateInv'
<1>1. installed' = installed /\ TameFiles /\ EndCheck
    BY TypesOfUpdateInv DEF FindNothing, FindInvalid, FindPutOff, world, files, TameFiles
<1>2. OtherTypes'
    BY TypesOfUpdateInv
    DEF FindNothing, FindInvalid, FindPutOff, world, files, Succeeded, OtherTypes
<1>3. TameCheck
    BY <1>1, EndCheckIsTame
<1>4. PICK s : Published(s) /\ s \in {Idle, Shows("UpToDate", 0), Shows("Failed", 0)}
    BY DEF FindNothing, FindInvalid, FindPutOff
<1>5. s \in Screens /\ s.what \notin {"Ready", "PermissionRequired"}
    BY <1>4, VersionFacts, ShowsIsScreen, IdleIsScreen
<1>6. TameScreen
    BY <1>4, <1>5, PublishedIsTame
<1>7. QED
    BY <1>1, <1>2, <1>3, <1>6, TameStep

(* No answer: what is offered instead is the prepared release, if newer.   *)
LEMMA ManifestFailsStep ==
    ASSUME UpdateInv, ManifestFails
    PROVE  UpdateInv'
<1>1. installed' = installed /\ TameFiles /\ EndCheck
    BY TypesOfUpdateInv DEF ManifestFails, world, TameFiles
<1>2. OtherTypes'
    <2>1. faults' \in 0..MaxFaults
        BY BoundsAreNumbers, TypesOfUpdateInv DEF ManifestFails, OtherTypes
    <2>2. QED
        BY <2>1, TypesOfUpdateInv DEF ManifestFails, world, OtherTypes
<1>3. TameCheck
    BY <1>1, EndCheckIsTame
<1>4. PICK s : /\ Published(s)
               /\ \/ s \in {Idle, Shows("Failed", 0)}
                  \/ Restorable /\ s = Shows("Ready", pending)
    BY DEF ManifestFails
<1>5. CASE s \in {Idle, Shows("Failed", 0)}
    <2>1. s \in Screens /\ s.what \notin {"Ready", "PermissionRequired"}
        BY <1>5, VersionFacts, ShowsIsScreen, IdleIsScreen
    <2>2. TameScreen
        BY <1>4, <2>1, PublishedIsTame
    <2>3. QED
        BY <1>1, <1>2, <1>3, <2>2, TameStep
<1>6. CASE Restorable /\ s = Shows("Ready", pending)
    <2>1. pending \in 0..MaxVersion /\ pending > installed /\ installed \in Versions
        BY <1>6 DEF Restorable, UpdateInv, UpdateTypeOK
    <2>2. pending \in Versions
        BY <2>1, VersionFacts
    <2>3. s \in Screens /\ s.version = pending
        BY <1>6, <2>1, ShowsIsScreen
    <2>4. TameScreen
        BY <1>4, <2>1, <2>2, <2>3, PublishedIsTame
    <2>5. QED
        BY <1>1, <1>2, <1>3, <2>4, TameStep
<1>7. QED
    BY <1>4, <1>5, <1>6

(* The download goes on or is given up.                                    *)
Downloads ==
    \/ Answered \/ Receive \/ RejectPart \/ RangeRejected
    \/ AttemptFails \/ DownloadRefused

LEMMA DownloadStep ==
    ASSUME UpdateInv, Downloads
    PROVE  UpdateInv'
<1> USE DEF Downloads
<1>0. /\ check.at \in {"download", "receive"} /\ check.target \in Versions
      /\ check \in Checks /\ screen \in Screens /\ OtherTypes /\ pending \in 0..MaxVersion
    BY TypesOfUpdateInv
    DEF UpdateInv, CheckKnows, Fetching, Answered, Receive, RejectPart, Received,
        RangeRejected, AttemptFails, DownloadRefused
<1>1. final' = final /\ pending' = pending /\ saved' = saved
      /\ installed' = installed /\ lately' = lately /\ launched' = launched
      /\ dismissed' = dismissed /\ UNCHANGED <<feed, artifact, allowed, installer>>
    BY DEF Answered, Receive, RejectPart, RangeRejected, AttemptFails, DownloadRefused,
           TryAgain, GiveUp, world, preferences
<1>2. TameFiles
    BY <1>0, <1>1 DEF TameFiles
<1>3. part' \in [Versions -> Parts]
    <2>1. part[check.target] \in Parts /\ artifact[check.target] \in BOOLEAN
        BY <1>0 DEF OtherTypes
    <2>2. CASE Receive
        <3>1. [bytes |-> part[check.target].bytes + 1,
               good |-> part[check.target].good /\ artifact[check.target]] \in Parts
            BY <2>1, <2>2, BoundsAreNumbers DEF Receive, Parts
        <3>2. QED
            BY <1>0, <2>2, <3>1 DEF Receive, OtherTypes
    <2>3. CASE ~Receive
        BY <1>0, <2>1, <2>3, EmptyIsPart
        DEF Answered, RejectPart, RangeRejected, AttemptFails, DownloadRefused, OtherTypes
    <2>4. QED
        BY <2>2, <2>3
<1>4. faults' \in 0..MaxFaults
    BY <1>0, BoundsAreNumbers
    DEF Answered, Receive, RejectPart, RangeRejected, AttemptFails, DownloadRefused, OtherTypes
<1>5. OtherTypes'
    BY <1>0, <1>1, <1>3, <1>4 DEF OtherTypes
<1>6. CASE GiveUp
    <2>1. Shows("Failed", check.target) \in Screens
          /\ Shows("Failed", check.target).what = "Failed"
        BY <1>0, VersionFacts, ShowsIsScreen
    <2>2. TameScreen /\ TameCheck
        BY <1>6, <2>1, PublishedIsTame, EndCheckIsTame DEF GiveUp
    <2>3. QED
        BY <1>1, <1>2, <1>5, <2>2, TameStep
<1>7. CASE ~GiveUp
    <2>1. screen' = screen
        BY <1>7 DEF Answered, Receive, RejectPart, RangeRejected, AttemptFails, DownloadRefused,
                    TryAgain
    <2>2. TameScreen
        BY <1>0, <2>1 DEF TameScreen
    <2>3. TameCheck
        <3>1. CASE check' = check
            BY <1>0, <1>1, <3>1 DEF TameCheck
        <3>2. CASE Answered
            BY <1>0, <3>2, CheckFields, VersionFacts, GoingOnIsCheck
            DEF Answered, TameCheck, Fetching
        <3>3. CASE check.tries < MaxTries
                   /\ check' = GoingOn("download", check.target, check.tries + 1)
            <4>1. check.tries + 1 \in 0..MaxTries /\ check.target \in 0..MaxVersion
                BY <1>0, <3>3, BoundsAreNumbers, CheckFields
            <4>2. QED
                BY <1>0, <3>3, <4>1, GoingOnIsCheck DEF TameCheck, Fetching
        <3>4. QED
            BY <1>7, <3>1, <3>2, <3>3
            DEF Receive, RejectPart, RangeRejected, AttemptFails, DownloadRefused, TryAgain
    <2>4. QED
        BY <1>1, <1>2, <1>5, <2>2, <2>3, TameStep
<1>8. QED
    BY <1>6, <1>7

-----------------------------------------------------------------------------
(* Steps that put a file or a version in its place                         *)

(* An update is found: a verified file that is there is not fetched again. *)
LEMMA FindUpdateStep ==
    ASSUME UpdateInv, FindUpdate
    PROVE  UpdateInv'
<1>0. /\ feed \in Versions /\ feed > installed /\ feed \in 0..MaxVersion
      /\ check \in Checks /\ OtherTypes
      /\ final \in [Versions -> {"none", "good", "bad"}]
      /\ UNCHANGED <<world, part, preferences, launched, faults>>
    BY TypesOfUpdateInv, VersionFacts DEF FindUpdate, UpdateInv, UpdateTypeOK, Newer
<1>1. PICK where \in {"download", "staged"}, n \in 0..MaxTries :
          /\ check' = GoingOn(where, feed, n)
          /\ \/ where = "staged" /\ final' = final /\ final[feed] = "good"
             \/ /\ where = "download" /\ final[feed] # "good"
                /\ final' = [final EXCEPT ![feed] = "none"]
    <2>1. 0 \in 0..MaxTries /\ 1 \in 0..MaxTries
        BY BoundsAreNumbers
    <2>2. QED
        BY <2>1 DEF FindUpdate
<1>2. check' \in Checks /\ check'.at = where /\ check'.target = feed
    BY <1>0, <1>1, GoingOnIsCheck DEF Fetching
<1>3. TameScreen
    <2>1. Shows("Downloading", feed) \in Screens /\ Shows("Downloading", feed).what = "Downloading"
        BY <1>0, ShowsIsScreen
    <2>2. QED
        BY <2>1, PublishedIsTame DEF FindUpdate
<1>4. UpdateTypeOK'
    <2>1. final' \in [Versions -> {"none", "good", "bad"}]
        BY <1>0, <1>1
    <2>2. QED
        BY <1>0, <1>2, <1>3, <2>1 DEF UpdateTypeOK, UpdateInv, world, preferences, TameScreen
<1>5. FilesVerified'
    BY <1>0, <1>1 DEF UpdateInv, FilesVerified
<1>6. CheckKnows'
    BY <1>0, <1>1, <1>2 DEF CheckKnows, Fetching, world
<1>7. OfferIsNewer'
    BY <1>0, <1>3 DEF UpdateInv, OfferIsNewer, Offered, TameScreen, world
<1>8. QED
    BY <1>4, <1>5, <1>6, <1>7 DEF UpdateInv

LEMMA VerifyStep ==
    ASSUME UpdateInv, Verify
    PROVE  UpdateInv'
<1>0. /\ check.target \in Versions /\ check.target > installed /\ check \in Checks
      /\ final \in [Versions -> {"none", "good", "bad"}] /\ OtherTypes
      /\ final' = [final EXCEPT ![check.target] = "good"]
      /\ part' = [part EXCEPT ![check.target] = Empty]
      /\ check' = GoingOn("staged", check.target, check.tries)
      /\ UNCHANGED <<world, preferences, screen, launched, faults>>
    BY TypesOfUpdateInv
    DEF Verify, Received, UpdateInv, CheckKnows, Fetching, UpdateTypeOK
<1>1. check' \in Checks /\ check'.at = "staged" /\ check'.target = check.target
    <2>1. check.tries \in 0..MaxTries /\ check.target \in 0..MaxVersion
        BY <1>0, CheckFields
    <2>2. QED
        BY <1>0, <2>1, GoingOnIsCheck DEF Fetching
<1>2. UpdateTypeOK'
    <2>1. part' \in [Versions -> Parts] /\ final' \in [Versions -> {"none", "good", "bad"}]
        BY <1>0, EmptyIsPart DEF OtherTypes
    <2>2. QED
        BY <1>0, <1>1, <2>1 DEF UpdateTypeOK, UpdateInv, world, preferences
<1>3. FilesVerified'
    BY <1>0 DEF UpdateInv, FilesVerified
<1>4. CheckKnows' /\ OfferIsNewer'
    BY <1>0, <1>1 DEF UpdateInv, CheckKnows, Fetching, OfferIsNewer, Offered, world
<1>5. QED
    BY <1>2, <1>3, <1>4 DEF UpdateInv

(* What is remembered and offered is the release the check has verified.   *)
LEMMA PersistStep ==
    ASSUME UpdateInv, Persist
    PROVE  UpdateInv'
<1>0. /\ check.target \in Versions /\ check.target > installed
      /\ check.target \in 0..MaxVersion /\ final[check.target] = "good"
      /\ pending' = check.target /\ EndCheck /\ Succeeded
      /\ UNCHANGED <<world, files, dismissed, saved, launched, faults>>
    BY VersionFacts DEF Persist, UpdateInv, CheckKnows, Fetching
<1>1. TameScreen
    <2>1. /\ Shows("Ready", check.target) \in Screens
          /\ Shows("Ready", check.target).version = check.target
        BY <1>0, ShowsIsScreen
    <2>2. QED
        BY <1>0, <2>1, PublishedIsTame DEF Persist
<1>2. check' \in Checks /\ check'.at = "none"
    BY <1>0, NoCheckIsCheck DEF EndCheck
<1>3. UpdateTypeOK'
    BY <1>0, <1>1, <1>2 DEF UpdateTypeOK, UpdateInv, world, files, Succeeded, TameScreen
<1>4. FilesVerified'
    BY <1>0 DEF UpdateInv, FilesVerified, files
<1>5. CheckKnows' /\ OfferIsNewer'
    BY <1>0, <1>1, <1>2
    DEF UpdateInv, CheckKnows, Fetching, OfferIsNewer, Offered, TameScreen, world
<1>6. QED
    BY <1>3, <1>4, <1>5 DEF UpdateInv

(* The new version starts without a check and without an offer.            *)
LEMMA ConfirmStep ==
    ASSUME UpdateInv, ConfirmInstall
    PROVE  UpdateInv'
<1>1. /\ check' \in Checks /\ check'.at = "none"
      /\ screen' \in Screens /\ screen'.what = "Idle"
    BY NoCheckIsCheck, IdleIsScreen DEF ConfirmInstall, Reopened, EndCheck
<1>2. installed' \in Versions /\ installer' \in 0..MaxVersion
    BY VersionFacts DEF ConfirmInstall, UpdateInv, UpdateTypeOK
<1>3. pending' \in 0..MaxVersion /\ dismissed' \in 0..MaxVersion
    BY SavedFields DEF ConfirmInstall, Reopened, UpdateInv, UpdateTypeOK
<1>4. UpdateTypeOK'
    BY <1>1, <1>2, <1>3
    DEF UpdateTypeOK, UpdateInv, ConfirmInstall, Reopened, files, Triggers
<1>5. QED
    BY <1>1, <1>4
    DEF UpdateInv, FilesVerified, CheckKnows, Fetching, OfferIsNewer, Offered,
        ConfirmInstall, Reopened, files

-----------------------------------------------------------------------------
(* The remote control, Android and the release owner                       *)

LEMMA OutsideStep ==
    ASSUME UpdateInv,
           \/ AskForUpdates \/ Retry \/ Dismiss \/ Install
           \/ AllowInstalling \/ RefuseInstall \/ StopApp \/ ReturnToApp \/ TimePasses
           \/ SavePreferences
           \/ \E v \in Versions \cup {Broken} : SetFeed(v)
           \/ \E v \in Versions : UploadWrong(v) \/ UploadRight(v)
    PROVE  UpdateInv'
<1> USE DEF world, files, preferences
<1>0. /\ OtherTypes /\ screen \in Screens /\ check \in Checks /\ pending \in 0..MaxVersion
      /\ saved.pending \in 0..MaxVersion /\ saved.dismissed \in 0..MaxVersion
    BY TypesOfUpdateInv, SavedFields DEF OtherTypes
<1>1. installed' = installed /\ TameFiles
    BY <1>0 DEF AskForUpdates, Retry, Dismiss, Install, AllowInstalling, RefuseInstall, StopApp,
           ReturnToApp, TimePasses, SavePreferences, SetFeed, UploadWrong, UploadRight, Reopened, TameFiles
<1>2. TameCheck
    BY <1>0, EndCheckIsTame
    DEF AskForUpdates, Retry, Dismiss, Install, AllowInstalling, RefuseInstall, StopApp,
        ReturnToApp, TimePasses, SavePreferences, SetFeed, UploadWrong, UploadRight, Reopened, TameCheck
<1>3. TameScreen
    <2>1. CASE Install
        <3>1. screen.version \in Versions /\ screen.version > installed
              /\ screen.version \in 0..MaxVersion /\ 0 \in 0..MaxVersion
            BY <2>1, VersionFacts DEF Install, UpdateInv, OfferIsNewer
        <3>2. screen' \in {Shows("Failed", screen.version), Shows("Installing", 0),
                           Shows("PermissionRequired", screen.version)}
            BY <2>1 DEF Install
        <3>3. QED
            BY <3>1, <3>2, ShowsIsScreen DEF TameScreen
    <2>2. CASE screen' \in {screen, Idle}
        BY <1>0, <2>2, IdleIsScreen DEF TameScreen
    <2>3. QED
        BY <2>1, <2>2
        DEF AskForUpdates, Retry, Dismiss, AllowInstalling, RefuseInstall, StopApp,
            ReturnToApp, TimePasses, SavePreferences, SetFeed, UploadWrong, UploadRight, Reopened
<1>4. OtherTypes'
    <2>1. /\ screen.version \in 0..MaxVersion /\ 0 \in 0..MaxVersion
          /\ MaxFaults \in Nat
        BY <1>0, ScreenFields, VersionFacts, BoundsAreNumbers
    <2>2. feed' \in Versions \cup {Broken} /\ artifact' \in [Versions -> BOOLEAN]
        BY <1>0
        DEF AskForUpdates, Retry, Dismiss, Install, AllowInstalling, RefuseInstall, StopApp,
            ReturnToApp, TimePasses, SavePreferences, SetFeed, UploadWrong, UploadRight, OtherTypes,
            Reopened
    <2>3. /\ allowed' \in BOOLEAN /\ part' \in [Versions -> Parts] /\ lately' \in BOOLEAN
          /\ installer' \in 0..MaxVersion /\ dismissed' \in 0..MaxVersion
        BY <1>0, <2>1
        DEF AskForUpdates, Retry, Dismiss, Install, AllowInstalling, RefuseInstall, StopApp,
            ReturnToApp, TimePasses, SavePreferences, SetFeed, UploadWrong, UploadRight, OtherTypes,
            Reopened
    <2>0. saved' \in [pending : 0..MaxVersion, dismissed : 0..MaxVersion]
        <3>1. saved' = saved \/ saved' = [pending |-> pending, dismissed |-> dismissed]
            BY DEF AskForUpdates, Retry, Dismiss, Install, AllowInstalling, RefuseInstall,
                   StopApp, ReturnToApp, TimePasses, SavePreferences, SetFeed, UploadWrong,
                   UploadRight, Reopened
        <3>2. QED
            BY <1>0, <3>1 DEF OtherTypes
    <2>4. launched' \subseteq Triggers \ {"BACKGROUND"}
        BY <1>0
        DEF AskForUpdates, Retry, Dismiss, Install, AllowInstalling, RefuseInstall, StopApp,
            ReturnToApp, TimePasses, SavePreferences, SetFeed, UploadWrong, UploadRight, OtherTypes, Launch,
            Reopened, Triggers
    <2>5. faults' \in 0..MaxFaults
        BY <1>0, <2>1
        DEF AskForUpdates, Retry, Dismiss, Install, AllowInstalling, RefuseInstall, StopApp,
            ReturnToApp, TimePasses, SavePreferences, SetFeed, UploadWrong, UploadRight, OtherTypes,
            Reopened
    <2>6. QED
        BY <2>0, <2>2, <2>3, <2>4, <2>5 DEF OtherTypes
<1>5. QED
    BY <1>1, <1>2, <1>3, <1>4, TameStep

LEMMA StepUpdateInv == UpdateInv /\ [UpdateNext]_updateVars => UpdateInv'
<1> SUFFICES ASSUME UpdateInv, [UpdateNext]_updateVars PROVE UpdateInv'
    OBVIOUS
<1>1. CASE UNCHANGED updateVars
    BY <1>1 DEF updateVars, world, files, preferences, UpdateInv, UpdateTypeOK, FilesVerified,
                CheckKnows, Fetching, OfferIsNewer, Offered
<1>2. CASE BeginWork
    BY <1>2, WorkerStep
<1>3. ASSUME NEW trigger \in launched, BeginLaunched(trigger) \/ AlreadyRunning(trigger)
      PROVE  UpdateInv'
    BY <1>3, BeginningStep
<1>4. CASE Goes \/ ManifestFails \/ AttemptFails \/ DownloadRefused
    BY <1>4, WorkerStep, NothingFoundStep, FindUpdateStep, DownloadStep, VerifyStep,
       PersistStep, ManifestFailsStep
    DEF Goes, Downloads
<1>5. CASE ConfirmInstall
    BY <1>5, ConfirmStep
<1>6. CASE \/ AskForUpdates \/ Retry \/ Dismiss \/ Install
           \/ AllowInstalling \/ RefuseInstall \/ StopApp \/ ReturnToApp \/ TimePasses
           \/ SavePreferences
           \/ \E v \in Versions \cup {Broken} : SetFeed(v)
           \/ \E v \in Versions \ {1} : UploadWrong(v) \/ UploadRight(v)
    BY <1>6, OutsideStep
<1>7. QED
    BY <1>1, <1>2, <1>3, <1>4, <1>5, <1>6 DEF UpdateNext

LEMMA SpecUpdateInv == UpdateSpec => []UpdateInv
<1>1. QED
    BY InitUpdateInv, StepUpdateInv, PTL DEF UpdateSpec

-----------------------------------------------------------------------------
(* Checks and what was put off                                            *)

(* A check somebody sees holds the overlay until it ends: nothing can be    *)
(* put off meanwhile.                                                      *)
CheckIsShown ==
    check.at # "none" /\ Forced(check.trigger) => screen.what \in {"Checking", "Downloading"}

(* The check of an app that was opened leaves alone what was put off.      *)
CheckRespects ==
    check.at \in Fetching /\ check.trigger = "FOREGROUND" => ~PutOff(check.target)

RespectInv == CheckIsShown /\ CheckRespects

LEMMA RespectInitially == UpdateInit => RespectInv
BY NoCheckIsCheck DEF UpdateInit, RespectInv, CheckIsShown, CheckRespects, Fetching

(* A step that keeps a check, the overlay and what is put off as they are, *)
(* or ends the check, keeps both.                                          *)
LEMMA StillRespected ==
    ASSUME RespectInv, EndCheck \/ UNCHANGED <<check, screen, dismissed>>
    PROVE  RespectInv'
BY NoCheckIsCheck DEF RespectInv, CheckIsShown, CheckRespects, Fetching, EndCheck, PutOff

LEMMA AskingFields ==
    ASSUME NEW trigger
    PROVE  Asking(trigger).at = "ask" /\ Asking(trigger).trigger = trigger
BY DEF Asking

LEMMA GoingOnFields ==
    ASSUME NEW where, NEW v, NEW n
    PROVE  /\ GoingOn(where, v, n).at = where /\ GoingOn(where, v, n).target = v
           /\ GoingOn(where, v, n).trigger = check.trigger
BY DEF GoingOn

LEMMA ShowsFields ==
    ASSUME NEW what, NEW v
    PROVE  Shows(what, v).what = what /\ Shows(what, v).version = v
BY DEF Shows

LEMMA StepRespects == UpdateInv /\ RespectInv /\ [UpdateNext]_updateVars => RespectInv'
<1> SUFFICES ASSUME UpdateInv, RespectInv, [UpdateNext]_updateVars PROVE RespectInv'
    OBVIOUS
<1>1. CASE UNCHANGED updateVars
    BY <1>1, StillRespected DEF updateVars, preferences
<1>2. CASE BeginWork \/ RestoreFinds \/ RestoreClears
    <2>1. check' \in {NoCheck, [NoCheck EXCEPT !.at = "restore"], Asking("BACKGROUND")}
        BY <1>2 DEF BeginWork, RestoreFinds, RestoreClears, EndCheck
    <2>2. check'.at \notin Fetching /\ (check'.at # "none" => check'.trigger = "BACKGROUND")
        BY <2>1, NoCheckIsCheck, RestoringIsCheck, AskingFields DEF Fetching
    <2>3. QED
        BY <2>2 DEF RespectInv, CheckIsShown, CheckRespects, Forced
<1>3. ASSUME NEW trigger \in launched, BeginLaunched(trigger) PROVE RespectInv'
    BY <1>3, AskingFields, ShowsFields
    DEF BeginLaunched, RespectInv, CheckIsShown, CheckRespects, Fetching
<1>4. CASE FindUpdate
    <2>1. check'.at \in Fetching /\ check'.target = feed /\ check'.trigger = check.trigger
        BY <1>4, GoingOnFields DEF FindUpdate, Fetching
    <2>2. Forced(check.trigger) => screen' = Shows("Downloading", feed)
        BY <1>4 DEF FindUpdate, Published
    <2>3. check.trigger = "FOREGROUND" => ~PutOff(feed)
        BY <1>4 DEF FindUpdate, Respected
    <2>4. dismissed' = dismissed
        BY <1>4 DEF FindUpdate, preferences
    <2>5. QED
        BY <2>1, <2>2, <2>3, <2>4, ShowsFields
        DEF RespectInv, CheckIsShown, CheckRespects, Forced, PutOff
<1>5. CASE (Answered \/ Verify \/ RangeRejected \/ AttemptFails) /\ ~EndCheck
    <2>1. /\ check.at \in Fetching
          /\ \E n \in Int : \E where \in Fetching : check' = GoingOn(where, check.target, n)
          /\ UNCHANGED <<screen, dismissed>>
        <3>1. check.tries \in Int
            BY CheckFields, BoundsAreNumbers DEF UpdateInv, UpdateTypeOK
        <3>2. QED
            BY <1>5, <3>1
            DEF Answered, Verify, Received, RangeRejected, AttemptFails, TryAgain, GiveUp,
                preferences, Fetching
    <2>2. check'.at \in Fetching /\ check'.target = check.target
          /\ check'.trigger = check.trigger
        BY <2>1, GoingOnFields
    <2>3. check.at # "none" /\ screen' = screen /\ dismissed' = dismissed
        BY <2>1 DEF Fetching
    <2>4. CheckIsShown'
        BY <2>2, <2>3 DEF RespectInv, CheckIsShown, Forced
    <2>5. CheckRespects'
        BY <2>1, <2>2, <2>3 DEF RespectInv, CheckRespects, PutOff
    <2>6. QED
        BY <2>4, <2>5 DEF RespectInv
<1>6. CASE EndCheck
    BY <1>6, StillRespected
<1>7. CASE \/ FindNothing \/ FindInvalid \/ FindPutOff \/ RejectPart \/ Persist
           \/ ManifestFails \/ DownloadRefused \/ StopApp \/ ConfirmInstall
    BY <1>6, <1>7
    DEF FindNothing, FindInvalid, FindPutOff, RejectPart, GiveUp, Persist, ManifestFails,
        DownloadRefused, StopApp, ConfirmInstall, Reopened
<1>8. CASE Retry \/ Dismiss \/ Install
    <2>1. screen.what \notin {"Checking", "Downloading"} /\ check' = check
        BY <1>8 DEF Retry, Dismiss, Install, Offered
    <2>2. ~(check.at # "none" /\ Forced(check.trigger))
        BY <2>1 DEF RespectInv, CheckIsShown
    <2>3. QED
        BY <2>1, <2>2 DEF RespectInv, CheckIsShown, CheckRespects, Forced, Fetching
<1>9. ASSUME \/ Receive \/ AskForUpdates \/ AllowInstalling \/ RefuseInstall \/ ReturnToApp
             \/ TimePasses \/ SavePreferences
             \/ \E trigger \in launched : AlreadyRunning(trigger)
             \/ \E v \in Versions \cup {Broken} : SetFeed(v)
             \/ \E v \in Versions : UploadWrong(v) \/ UploadRight(v)
      PROVE  RespectInv'
    <2>1. UNCHANGED <<check, screen, dismissed>>
        BY <1>9 DEF Receive, AskForUpdates, AllowInstalling, RefuseInstall, ReturnToApp,
                    TimePasses, SavePreferences, AlreadyRunning, SetFeed, UploadWrong,
                    UploadRight, preferences
    <2>2. QED
        BY <2>1, StillRespected
<1>10. QED
    BY <1>1, <1>2, <1>3, <1>4, <1>5, <1>6, <1>7, <1>8, <1>9 DEF UpdateNext, Goes


-----------------------------------------------------------------------------
(* Theorems                                                                *)

(* The files, the preferences, the overlay and the check of the app keep   *)
(* their types, wherever TvUpdateManager is stopped.                       *)
THEOREM UpdateTypeCorrect == UpdateSpec => []UpdateTypeOK
<1>1. UpdateInv => UpdateTypeOK
    BY DEF UpdateInv
<1>2. QED
    BY <1>1, SpecUpdateInv, PTL

(* What a step puts on offer comes from a check that has its file, from a  *)
(* restored release that was verified, or was on offer before.             *)
LEMMA WhatIsOffered ==
    ASSUME UpdateNext, Offered', screen' # screen
    PROVE  ManifestFails \/ Persist \/ Install
BY ShowsFields
DEF Offered, UpdateNext, BeginWork, RestoreFinds, RestoreClears, SavePreferences,
    BeginLaunched, AlreadyRunning, Goes, FindNothing, FindInvalid, FindPutOff, FindUpdate,
    Answered, Receive, RangeRejected, TryAgain, Verify, RejectPart, Published, AttemptFails,
    DownloadRefused, GiveUp, AskForUpdates, Retry, Dismiss, AllowInstalling, ConfirmInstall,
    RefuseInstall, StopApp, ReturnToApp, TimePasses, SetFeed, UploadWrong, UploadRight,
    Reopened, Idle

(* What the TV comes to offer has its verified file and is newer than the  *)
(* app, whatever record a stop has left without its file.                  *)
THEOREM OffersAreVerified == UpdateSpec => OfferedIsVerified
<1>1. UpdateInv /\ [UpdateNext]_updateVars =>
          [Offered' /\ screen' # screen =>
              final'[screen'.version] = "good" /\ screen'.version > installed']_updateVars
    <2> SUFFICES ASSUME UpdateInv, UpdateNext, Offered', screen' # screen
                 PROVE  final'[screen'.version] = "good" /\ screen'.version > installed'
        BY DEF updateVars
    <2>1. CASE ManifestFails
        <3>1. Restorable /\ screen' = Shows("Ready", pending)
            BY <2>1, ShowsFields DEF ManifestFails, Published, Offered, Idle
        <3>2. final' = final /\ installed' = installed
            BY <2>1, <3>1 DEF ManifestFails, world
        <3>3. QED
            BY <3>1, <3>2, ShowsFields DEF Restorable
    <2>2. CASE Persist
        <3>1. screen' = Shows("Ready", check.target) /\ check.at = "staged"
              /\ final' = final /\ installed' = installed
            BY <2>2 DEF Persist, Published, world, files
        <3>2. QED
            BY <3>1, ShowsFields DEF UpdateInv, CheckKnows, Fetching
    <2>3. CASE Install
        <3>1. screen' = Shows("PermissionRequired", screen.version)
              /\ Offered /\ final[screen.version] # "none"
              /\ final' = final /\ installed' = installed
            BY <2>3, ShowsFields DEF Install, Offered, files
        <3>2. QED
            BY <3>1, ShowsFields DEF UpdateInv, OfferIsNewer, FilesVerified
    <2>4. QED
        BY <2>1, <2>2, <2>3, WhatIsOffered
<1>2. QED
    BY <1>1, SpecUpdateInv, PTL DEF UpdateSpec, OfferedIsVerified

(* Android is only asked to install a verified file of a newer version.    *)
THEOREM InstallerGetsVerified == UpdateSpec => OnlyVerifiedInstalled
<1>1. UpdateInv /\ [UpdateNext]_updateVars =>
          [installer' \notin {0, installer} =>
              final[installer'] = "good" /\ installer' > installed]_updateVars
    <2> SUFFICES ASSUME UpdateInv, UpdateNext, installer' \notin {0, installer}
                 PROVE  final[installer'] = "good" /\ installer' > installed
        BY DEF updateVars
    <2>1. Install
        BY DEF UpdateNext, BeginWork, RestoreFinds, RestoreClears, SavePreferences,
               BeginLaunched, AlreadyRunning, Goes, FindNothing, FindInvalid, FindPutOff,
               FindUpdate, Answered, Receive, RangeRejected, TryAgain, Verify, RejectPart,
               Persist, ManifestFails, AttemptFails, DownloadRefused, GiveUp, AskForUpdates,
               Retry, Dismiss, AllowInstalling, ConfirmInstall, RefuseInstall, StopApp,
               ReturnToApp, TimePasses, SetFeed, UploadWrong, UploadRight, world
    <2>2. installer' = screen.version /\ final[screen.version] # "none" /\ Offered
        BY <2>1 DEF Install
    <2>3. QED
        BY <2>2 DEF UpdateInv, OfferIsNewer, FilesVerified
<1>2. QED
    BY <1>1, SpecUpdateInv, PTL DEF UpdateSpec, OnlyVerifiedInstalled

(* A release put off for later comes back on the overlay only through a    *)
(* check that somebody asked for.                                          *)
THEOREM PutOffIsRespected == UpdateSpec => PutOffStaysAway
<1>1. UpdateInv /\ RespectInv /\ [UpdateNext]_updateVars =>
          [screen'.what = "Ready" /\ screen # screen' /\ PutOff(screen'.version) =>
              check.trigger \in {"MANUAL", "RETRY"}]_updateVars
    <2> SUFFICES ASSUME UpdateInv, RespectInv, UpdateNext, screen'.what = "Ready",
                        screen # screen', PutOff(screen'.version)
                 PROVE  check.trigger \in {"MANUAL", "RETRY"}
        BY DEF updateVars
    <2>1. ManifestFails \/ Persist
        <3>1. ManifestFails \/ Persist \/ Install
            BY WhatIsOffered DEF Offered
        <3>2. ~Install
            BY ShowsFields DEF Install
        <3>3. QED
            BY <3>1, <3>2
    <2>2. check.trigger \in Triggers /\ Forced(check.trigger)
        BY <2>1, CheckFields DEF ManifestFails, Persist, Published, UpdateInv, UpdateTypeOK
    <2>3. ASSUME ManifestFails PROVE check.trigger \in {"MANUAL", "RETRY"}
        <3>1. screen' = IF Restorable /\ (PutOff(pending) =>
                                             check.trigger \in {"MANUAL", "RETRY"})
                          THEN Shows("Ready", pending)
                          ELSE IF check.trigger = "MANUAL" THEN Shows("Failed", 0) ELSE Idle
            BY <2>2, <2>3 DEF ManifestFails, Published
        <3>2. QED
            BY <3>1, ShowsFields DEF Idle
    <2>4. ASSUME Persist PROVE check.trigger \in {"MANUAL", "RETRY"}
        <3>1. check.at = "staged" /\ screen' = Shows("Ready", check.target)
            BY <2>2, <2>4 DEF Persist, Published
        <3>2. PutOff(check.target)
            BY <3>1, ShowsFields
        <3>3. check.trigger # "FOREGROUND"
            BY <3>1, <3>2 DEF RespectInv, CheckRespects, Fetching
        <3>4. QED
            BY <2>2, <3>3 DEF Triggers, Forced
    <2>5. QED
        BY <2>1, <2>3, <2>4
<1>2. UpdateSpec => []RespectInv
    BY RespectInitially, StepRespects, SpecUpdateInv, PTL DEF UpdateSpec
<1>3. QED
    BY <1>1, <1>2, SpecUpdateInv, PTL DEF UpdateSpec, PutOffStaysAway

=============================================================================
