--------------------------- MODULE TvProvisioning ---------------------------
(***************************************************************************)
(* How a TV gets the credential of a room.  The TV asks for a pairing code *)
(* and shows it; a receptionist enters the code for a room; the TV, which  *)
(* polls, then claims its credential.  Receptionists can revoke a device   *)
(* or reset it for another pairing at any time.                            *)
(*                                                                         *)
(* Server calls are taken apart where other calls can run in between: the  *)
(* service looks a code up without a lock and hands the row on to a        *)
(* transaction of the repository, and pairing reads a second time after it *)
(* has locked its row.  A TV is what TvViewModel does with the answers.    *)
(***************************************************************************)
EXTENDS Naturals, FiniteSets

CONSTANTS
    Tvs,          \* installations of the TV app
    Rooms,
    Devices,      \* rows hotel_tv_devices can have, numbered by created_at
    Calls,        \* server calls that can be in flight at once
    None,         \* no TV, room, row or call
    MaxSecrets    \* bound: pairing sessions that are opened

ASSUME DevicesAreNumbered == Devices \subseteq Nat
ASSUME NoneIsNobody == None \notin Tvs \cup Rooms \cup Devices \cup Calls
ASSUME MaxSecretsIsNat == MaxSecrets \in Nat

VARIABLES
    devices,    \* hotel_tv_devices
    issued,     \* number of the last secret
    calls,      \* server calls in flight, lost when the API stops
    tvs,        \* the TV apps
    confirmed   \* what receptionists entered: <<secret, room>>  (history variable)

vars == <<devices, issued, calls, tvs, confirmed>>

-----------------------------------------------------------------------------
(* Rows, calls and TVs                                                     *)

(* Pairing code and credential of a row are drawn together, so one number  *)
(* stands for both; 0 is none.  Random values that come up twice are left  *)
(* out.                                                                    *)
Secrets == 0..MaxSecrets

Row == [status  : {"none", "PENDING", "PAIRED", "CLAIMED", "REVOKED"},
        tv      : Tvs \cup {None},
        room    : Rooms \cup {None},
        secret  : Secrets,
        expired : BOOLEAN]

NoRow == [status |-> "none", tv |-> None, room |-> None, secret |-> 0, expired |-> FALSE]

Answers == {"session", "credential", "refused"}

Call == [at     : {"idle", "start", "pairLock", "pairTest", "pairWrite", "claim"} \cup Answers,
         row    : Devices \cup {None},
         seen   : SUBSET Devices,      \* what the SELECT of createPending finds
         tv     : Tvs \cup {None},
         room   : Rooms \cup {None},
         secret : Secrets]

NoCall == [at |-> "idle", row |-> None, seen |-> {}, tv |-> None, room |-> None, secret |-> 0]

Tv == [mode       : {"off", "provision", "asking", "pairing", "loading", "ready", "error"},
       call       : Calls \cup {None},
       caught     : BOOLEAN,     \* the coroutine it runs shows its errors
       session    : Secrets,     \* the code on the screen
       credential : Secrets]     \* what the key store keeps, also when the TV is off

NewTv == [mode |-> "off", call |-> None, caught |-> TRUE, session |-> 0, credential |-> 0]

Exists(d) == devices[d].status # "none"
Active(d) == devices[d].status \in {"PAIRED", "CLAIMED"}

(* Every value has its type; an active row has a room, a pending one none.  *)
TvTypeOK ==
    /\ devices \in [Devices -> Row]
    /\ issued \in Secrets
    /\ calls \in [Calls -> Call]
    /\ tvs \in [Tvs -> Tv]
    /\ confirmed \subseteq Secrets \X Rooms
    /\ \A d \in Devices :
          /\ Exists(d) <=> devices[d].secret # 0
          /\ Active(d) => devices[d].room # None
          /\ devices[d].status = "PENDING" => devices[d].room = None

(* findByPairingCode                                                       *)
RowsWithCode(s) == {d \in Devices : Exists(d) /\ devices[d].secret = s}

(* findByCredential                                                        *)
Accepted(s) == \E d \in Devices : Active(d) /\ devices[d].secret = s

ActiveIn(room) == {d \in Devices : Active(d) /\ devices[d].room = room}

(* Only pairing keeps a row locked over several statements.                *)
Holds(h) == calls[h].at \in {"pairTest", "pairWrite"}
Free(d) == \A h \in Calls : ~(Holds(h) /\ calls[h].row = d)

Reply(h, answer, s) ==
    calls' = [calls EXCEPT ![h] = [NoCall EXCEPT !.at = answer, !.secret = s]]

Hang(h) == calls' = [calls EXCEPT ![h] = NoCall]

(* An error ends on the screen that offers "retry" if loadOrProvision      *)
(* catches it, and stops the app otherwise.                                *)
Failed(tv) == [NewTv EXCEPT !.mode = IF tv.caught THEN "error" ELSE "off",
                            !.credential = tv.credential]

-----------------------------------------------------------------------------
(* startProvisioning                                                       *)

(* The SELECT of createPending finds the rows of the installation that are *)
(* not revoked.                                                            *)
Start(i, h) ==
    /\ tvs[i].mode = "provision" /\ calls[h].at = "idle"
    /\ calls' = [calls EXCEPT ![h] =
          [NoCall EXCEPT !.at = "start", !.tv = i,
                       !.seen = {d \in Devices : /\ devices[d].tv = i
                                                  /\ devices[d].status # "REVOKED"}]]
    /\ tvs' = [tvs EXCEPT ![i].mode = "asking", ![i].call = h]
    /\ UNCHANGED <<devices, issued, confirmed>>

(* What a row holds when a pairing session of its TV opens.                *)
Session(i) == [status |-> "PENDING", tv |-> i, room |-> None,
               secret |-> issued + 1, expired |-> FALSE]

(* FOR UPDATE waits for the latest of them that has not been revoked       *)
(* meanwhile.  When none is left a row is inserted: two calls of one TV    *)
(* may both insert one.                                                    *)
OpenSession(h) ==
    LET rows == {d \in calls[h].seen : devices[d].status # "REVOKED"} IN
    /\ calls[h].at = "start"
    /\ issued < MaxSecrets
    /\ issued' = issued + 1
    /\ \/ \E d \in rows :
             /\ \A e \in rows : d >= e
             /\ Free(d)
             /\ devices' = [devices EXCEPT ![d] = Session(calls[h].tv)]
       \/ /\ rows = {}
          /\ \E new \in Devices :
                /\ \A e \in Devices : Exists(e) <=> e < new
                /\ devices' = [devices EXCEPT ![new] = Session(calls[h].tv)]
    /\ Reply(h, "session", issued + 1)
    /\ UNCHANGED <<tvs, confirmed>>

-----------------------------------------------------------------------------
(* pairDevice                                                              *)

(* A receptionist enters a code for a room; the service looks it up.       *)
Pair(h, s, room) ==
    /\ calls[h].at = "idle"
    /\ \E d \in RowsWithCode(s) :
          /\ ~devices[d].expired
          /\ calls' = [calls EXCEPT ![h] =
                [NoCall EXCEPT !.at = "pairLock", !.row = d, !.room = room, !.secret = s]]
    /\ confirmed' = confirmed \cup {<<s, room>>}
    /\ UNCHANGED <<devices, issued, tvs>>

(* Seeded error: the code is not compared again under the lock.            *)
BugLockForPair(h) ==
    LET d == calls[h].row IN
    /\ calls[h].at = "pairLock"
    /\ Free(d)
    /\ IF devices[d].status = "PENDING" /\ ~devices[d].expired
         THEN calls' = [calls EXCEPT ![h].at = "pairTest"]
         ELSE Hang(h)
    /\ UNCHANGED <<devices, issued, tvs, confirmed>>

(* The row is locked and read again: it may have been paired, opened anew  *)
(* or have expired since the lookup.                                       *)
LockForPair(h) ==
    LET d == calls[h].row IN
    /\ calls[h].at = "pairLock"
    /\ Free(d)
    /\ IF /\ devices[d].status = "PENDING"
          /\ devices[d].secret = calls[h].secret
          /\ ~devices[d].expired
         THEN calls' = [calls EXCEPT ![h].at = "pairTest"]
         ELSE Hang(h)
    /\ UNCHANGED <<devices, issued, tvs, confirmed>>

(* Another active device of the room is a conflict.  The rows it selects   *)
(* are active, and active rows are never locked for longer.                *)
TestRoom(h) ==
    /\ calls[h].at = "pairTest"
    /\ IF ActiveIn(calls[h].room) = {}
         THEN calls' = [calls EXCEPT ![h].at = "pairWrite"]
         ELSE Hang(h)
    /\ UNCHANGED <<devices, issued, tvs, confirmed>>

(* Seeded error: no unique index stands behind the test.                   *)
BugCommitPair(h) ==
    /\ calls[h].at = "pairWrite"
    /\ devices' = [devices EXCEPT ![calls[h].row].status = "PAIRED",
                                  ![calls[h].row].room = calls[h].room]
    /\ Hang(h)
    /\ UNCHANGED <<issued, tvs, confirmed>>

(* UPDATE and COMMIT.  The partial index hotel_tv_devices_one_active_room  *)
(* refuses a second active device that was paired since the test.          *)
CommitPair(h) ==
    /\ calls[h].at = "pairWrite"
    /\ devices' = IF ActiveIn(calls[h].room) = {}
                    THEN [devices EXCEPT ![calls[h].row].status = "PAIRED",
                                         ![calls[h].row].room = calls[h].room]
                    ELSE devices
    /\ Hang(h)
    /\ UNCHANGED <<issued, tvs, confirmed>>

-----------------------------------------------------------------------------
(* claimProvisioning                                                       *)

(* The answers the service gives from the row it looked up; PAIRING_PENDING *)
(* leaves the TV polling.                                                  *)
Poll(i) ==
    LET found == {d \in RowsWithCode(tvs[i].session) : devices[d].tv = i} IN
    /\ tvs[i].mode = "pairing"
    /\ \/ /\ found = {}
          /\ tvs' = [tvs EXCEPT ![i] = Failed(@)]
       \/ \E d \in found :
             \/ /\ devices[d].expired
                /\ tvs' = [tvs EXCEPT ![i].mode = "provision", ![i].session = 0]
             \/ /\ ~devices[d].expired
                /\ devices[d].status = "REVOKED" /\ devices[d].room = None
                /\ tvs' = [tvs EXCEPT ![i] = Failed(@)]
    /\ UNCHANGED <<devices, issued, calls, confirmed>>

Claim(i, h) ==
    /\ tvs[i].mode = "pairing" /\ calls[h].at = "idle"
    /\ \E d \in RowsWithCode(tvs[i].session) :
          /\ devices[d].tv = i
          /\ ~devices[d].expired
          /\ devices[d].status # "PENDING" /\ devices[d].room # None
          /\ calls' = [calls EXCEPT ![h] =
                [NoCall EXCEPT !.at = "claim", !.row = d, !.tv = i, !.secret = tvs[i].session]]
    /\ tvs' = [tvs EXCEPT ![i].mode = "asking", ![i].call = h]
    /\ UNCHANGED <<devices, issued, confirmed>>

(* Seeded error: the transaction relies on what the service has read.      *)
BugCommitClaim(h) ==
    LET d == calls[h].row IN
    /\ calls[h].at = "claim"
    /\ Free(d)
    /\ devices' = [devices EXCEPT ![d].status = "CLAIMED"]
    /\ Reply(h, "credential", devices[d].secret)
    /\ UNCHANGED <<issued, tvs, confirmed>>

(* The row decides again, and the credential it has now is the answer.     *)
CommitClaim(h) ==
    LET d == calls[h].row IN
    /\ calls[h].at = "claim"
    /\ Free(d)
    /\ IF Active(d)
         THEN /\ devices' = [devices EXCEPT ![d].status = "CLAIMED"]
              /\ Reply(h, "credential", devices[d].secret)
         ELSE Reply(h, "refused", 0) /\ UNCHANGED devices
    /\ UNCHANGED <<issued, tvs, confirmed>>

-----------------------------------------------------------------------------
(* revokeDevice, resetDevice and time                                      *)

Revoke(d) ==
    /\ Exists(d) /\ Free(d)
    /\ devices' = [devices EXCEPT ![d].status = "REVOKED"]
    /\ UNCHANGED <<issued, calls, tvs, confirmed>>

(* A reset opens a new session of the row; nobody is told the code.        *)
Reset(d) ==
    /\ Exists(d) /\ Free(d)
    /\ issued < MaxSecrets
    /\ issued' = issued + 1
    /\ devices' = [devices EXCEPT ![d] = Session(devices[d].tv)]
    /\ UNCHANGED <<calls, tvs, confirmed>>

Expire(d) ==
    /\ Exists(d) /\ ~devices[d].expired
    /\ devices' = [devices EXCEPT ![d].expired = TRUE]
    /\ UNCHANGED <<issued, calls, tvs, confirmed>>

(* Open transactions are rolled back; whoever waits gets an error.         *)
StopApi ==
    /\ calls' = [h \in Calls |-> NoCall]
    /\ tvs' = [i \in Tvs |-> IF tvs[i].mode = "asking" THEN Failed(tvs[i]) ELSE tvs[i]]
    /\ UNCHANGED <<devices, issued, confirmed>>

-----------------------------------------------------------------------------
(* The TV app (TvViewModel)                                                *)

(* Somebody starts the app or selects "retry" on its error screen.         *)
Load(i) ==
    /\ tvs[i].mode \in {"off", "error"}
    /\ tvs' = [tvs EXCEPT ![i].mode = IF tvs[i].credential = 0 THEN "provision" ELSE "loading"]
    /\ UNCHANGED <<devices, issued, calls, confirmed>>

SwitchOff(i) ==
    /\ tvs[i].mode # "off"
    /\ tvs' = [tvs EXCEPT ![i] = [NewTv EXCEPT !.credential = tvs[i].credential]]
    /\ UNCHANGED <<devices, issued, calls, confirmed>>

(* A request fails on its way or on its way back; the server may well go   *)
(* on with it.                                                             *)
Disconnect(i) ==
    /\ tvs[i].mode \in {"provision", "asking", "pairing", "loading"}
    /\ tvs' = [tvs EXCEPT ![i] = Failed(@)]
    /\ UNCHANGED <<devices, issued, calls, confirmed>>

Hear(i) ==
    LET h == tvs[i].call IN
    /\ tvs[i].mode = "asking" /\ calls[h].at \in Answers
    /\ tvs' = [tvs EXCEPT ![i] =
          CASE calls[h].at = "session" ->
                 [@ EXCEPT !.mode = "pairing", !.call = None, !.session = calls[h].secret]
            [] calls[h].at = "credential" ->
                 [@ EXCEPT !.mode = "loading", !.call = None, !.session = 0,
                           !.credential = calls[h].secret]
            [] OTHER -> Failed(@)]
    /\ Hang(h)
    /\ UNCHANGED <<devices, issued, confirmed>>

(* Nobody waits for this answer any more.                                  *)
Drop(h) ==
    /\ calls[h].at \in Answers
    /\ \A i \in Tvs : tvs[i].call # h
    /\ Hang(h)
    /\ UNCHANGED <<devices, issued, tvs, confirmed>>

(* loadReady: a 401 of getContext clears the credential.                   *)
ShowRoom(i) ==
    /\ tvs[i].mode = "loading"
    /\ tvs' = [tvs EXCEPT ![i] =
          IF Accepted(@.credential) THEN [@ EXCEPT !.mode = "ready", !.caught = TRUE]
          ELSE [@ EXCEPT !.mode = "provision", !.credential = 0]]
    /\ UNCHANGED <<devices, issued, calls, confirmed>>

(* guest.assignment.updated makes the TV load its room again, outside of   *)
(* loadOrProvision.  A hint while it loads starts a second load: left out. *)
Hint(i) ==
    /\ tvs[i].mode = "ready"
    /\ tvs' = [tvs EXCEPT ![i].mode = "loading", ![i].caught = FALSE]
    /\ UNCHANGED <<devices, issued, calls, confirmed>>

-----------------------------------------------------------------------------

Init ==
    /\ devices = [d \in Devices |-> NoRow]
    /\ issued = 0
    /\ calls = [h \in Calls |-> NoCall]
    /\ tvs = [i \in Tvs |-> NewTv]
    /\ confirmed = {}

Serve(h) ==
    \/ OpenSession(h)
    \/ LockForPair(h) \/ TestRoom(h) \/ CommitPair(h)
    \/ CommitClaim(h)
    \/ Drop(h)

Run(i) ==
    \/ \E h \in Calls : Start(i, h) \/ Claim(i, h)
    \/ Poll(i) \/ Hear(i) \/ ShowRoom(i)

Next ==
    \/ \E h \in Calls :
          \/ Serve(h)
          \/ \E s \in 1..issued, room \in Rooms : Pair(h, s, room)
    \/ \E i \in Tvs : Run(i) \/ Load(i) \/ SwitchOff(i) \/ Disconnect(i) \/ Hint(i)
    \/ \E d \in Devices : Revoke(d) \/ Reset(d) \/ Expire(d)
    \/ StopApi

TvSpec == Init /\ [][Next]_vars

(* The event loops of server and TV go on with what they have begun; codes *)
(* expire.  Nobody has to enter a code, press a key or change a guest.     *)
FairTvSpec ==
    /\ TvSpec
    /\ \A h \in Calls : WF_vars(Serve(h))
    /\ \A i \in Tvs : WF_vars(Run(i))
    /\ \A d \in Devices : WF_vars(Expire(d))

-----------------------------------------------------------------------------
(* Properties                                                              *)

(* A room never has two devices that are let in, whoever pairs, renews,    *)
(* revokes and resets at the same time.                                    *)
OneTvPerRoom == \A room \in Rooms : Cardinality(ActiveIn(room)) <= 1

(* A device is let into a room only if a receptionist entered this room    *)
(* with the very code of its present session: not with a code that was     *)
(* replaced between the lookup and the lock.                               *)
RoomAsConfirmed ==
    \A d \in Devices : Active(d) => <<devices[d].secret, devices[d].room>> \in confirmed

(* Secrets that open nothing and that no open session can bring to life.   *)
Retired == {s \in 1..issued : \A d \in Devices :
                devices[d].secret = s => devices[d].status = "REVOKED"}

(* A credential that was revoked, reset or replaced never opens a room     *)
(* again, also when a claim or a pairing of its session was under way.     *)
RetiredStaysRetired == [][\A s \in Retired : s \in Retired']_vars

(* "The TV will show a new code": when a device is reset, its TV, if it is  *)
(* switched on, does not go on showing the room.                           *)
ResetTvLeavesRoom ==
    \A i \in Tvs :
        /\ tvs[i].mode = "ready" /\ ~Accepted(tvs[i].credential)
        /\ \E d \in Devices : devices[d].tv = i /\ devices[d].status = "PENDING"
        ~> tvs[i].mode # "ready"

=============================================================================
