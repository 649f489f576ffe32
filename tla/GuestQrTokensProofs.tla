------------------------ MODULE GuestQrTokensProofs -------------------------
(***************************************************************************)
(* What holds of GuestQrTokens for every number of rooms, tokens and       *)
(* calls: types, one QR code per room, and that the calls implement        *)
(* RoomTokens.                                                             *)
(***************************************************************************)
EXTENDS GuestQrTokens, FiniteSetTheorems, SequenceTheorems, TLAPS

-----------------------------------------------------------------------------
(* The inductive invariant                                                 *)

(* How far a call has come in its list of rooms.                           *)
Shape(c) ==
    /\ at[c] = "idle" => /\ ~issues[c] /\ work[c] = <<>> /\ done[c] = 0
                         /\ inserted[c] = {} /\ retired[c] = {}
    /\ at[c] # "idle" => Len(work[c]) > 0
    /\ done[c] <= Len(work[c])
    /\ at[c] \in {"look", "update", "insert"} => done[c] < Len(work[c])
    /\ at[c] = "commit" /\ issues[c] => done[c] = Len(work[c])
    /\ at[c] = "insert" => issues[c]
    /\ ~issues[c] => inserted[c] = {} /\ Len(work[c]) <= 1
    /\ \A i, j \in 1..Len(work[c]) : work[c][i] = work[c][j] => i = j

(* What a call has inserted: one token for each room it has done, and it   *)
(* has retired whatever opened the room.                                   *)
Inserts(c) ==
    /\ \A t \in inserted[c] :
          /\ state[t] = "free"
          /\ \E i \in 1..done[c] : roomOf[t] = work[c][i]
    /\ issues[c] => \A i \in 1..done[c] : \E t \in inserted[c] : roomOf[t] = work[c][i]
    /\ \A t, u \in inserted[c] : roomOf[t] = roomOf[u] => t = u
    /\ \A t \in inserted[c], u \in Tokens :
          state[u] = "active" /\ roomOf[u] = roomOf[t] => u \in retired[c]

(* What a call has retired opens one of its rooms until it commits.        *)
Retirees(c) ==
    \A t \in retired[c] : state[t] = "active" /\ \E i \in 1..Len(work[c]) : roomOf[t] = work[c][i]

CallKnows(c) == Shape(c) /\ Inserts(c) /\ Retirees(c)

(* Two calls neither retire the same row nor insert for the same room.     *)
CallsApart ==
    \A c, d \in Calls :
        c # d => /\ retired[c] \cap retired[d] = {}
                 /\ \A t \in inserted[c], u \in inserted[d] : roomOf[t] # roomOf[u]

(* OneCodePerRoom without cardinalities.                                   *)
AloneInRoom ==
    \A t, u \in Tokens :
        state[t] = "active" /\ state[u] = "active" /\ roomOf[t] = roomOf[u] => t = u

IInv ==
    /\ QrTypeOK
    /\ \A c \in Calls : CallKnows(c)
    /\ CallsApart
    /\ AloneInRoom

LEMMA InitIInv == QrInit => IInv
<1> SUFFICES ASSUME QrInit PROVE IInv
    OBVIOUS
<1>1. QrTypeOK
    BY DEF QrInit, QrTypeOK
<1>2. ASSUME NEW c \in Calls PROVE CallKnows(c)
    <2>1. Len(work[c]) = 0
        BY DEF QrInit
    <2>2. QED
        BY <2>1 DEF QrInit, CallKnows, Shape, Inserts, Retirees
<1>3. CallsApart /\ AloneInRoom
    BY DEF QrInit, CallsApart, AloneInRoom
<1>4. QED
    BY <1>1, <1>2, <1>3 DEF IInv

-----------------------------------------------------------------------------
(* Steps that leave the rows alone                                         *)

(* A call nothing of which changes, while the rows stay.                   *)
LEMMA OthersKnow ==
    ASSUME NEW d \in Calls, CallKnows(d), UNCHANGED rowVars,
           at'[d] = at[d], issues'[d] = issues[d], work'[d] = work[d], done'[d] = done[d],
           retired'[d] = retired[d], inserted'[d] = inserted[d]
    PROVE  CallKnows(d)'
BY DEF CallKnows, Shape, Inserts, Retirees, rowVars

(* A list of rooms is a sequence of them.                                  *)
LEMMA ListsAreSequences ==
    ASSUME NEW rooms \in Lists
    PROVE  /\ rooms \in Seq(Rooms) /\ Len(rooms) > 0
           /\ \A i, j \in 1..Len(rooms) : rooms[i] = rooms[j] => i = j
<1>1. Cardinality(Rooms) \in Nat
    BY FinitelyManyRooms, FS_CardinalityType
<1>2. PICK n \in 1..Cardinality(Rooms) : rooms \in [1..n -> Rooms]
    BY DEF Lists
<1>3. n \in Nat /\ n > 0 /\ rooms \in Seq(Rooms) /\ Len(rooms) = n
    BY <1>1, <1>2
<1>4. \A i, j \in 1..Len(rooms) : rooms[i] = rooms[j] => i = j
    BY <1>2, <1>3 DEF Lists, IsInjective
<1>5. QED
    BY <1>3, <1>4

LEMMA BeginningStep ==
    ASSUME IInv, NEW c \in Calls, NEW issue \in BOOLEAN, NEW rooms \in Seq(Rooms),
           Len(rooms) > 0, ~issue => Len(rooms) <= 1,
           \A i, j \in 1..Len(rooms) : rooms[i] = rooms[j] => i = j,
           Begin(c, issue, rooms)
    PROVE  IInv'
<1> USE DEF IInv, Begin
<1>0. /\ at[c] = "idle" /\ at'[c] = "look" /\ issues'[c] = issue /\ work'[c] = rooms
      /\ done[c] = 0 /\ inserted[c] = {} /\ retired[c] = {}
      /\ UNCHANGED <<rowVars, done, seen, retired, inserted>>
    BY DEF QrTypeOK, CallKnows, Shape
<1>1. QrTypeOK'
    BY <1>0 DEF QrTypeOK, rowVars
<1>2. ASSUME NEW d \in Calls PROVE CallKnows(d)'
    <2>1. CASE d = c
        BY <1>0, <2>1 DEF CallKnows, Shape, Inserts, Retirees
    <2>2. CASE d # c
        <3>1. at'[d] = at[d] /\ issues'[d] = issues[d] /\ work'[d] = work[d]
            BY <2>2 DEF QrTypeOK
        <3>2. QED
            BY <1>0, <3>1, OthersKnow
    <2>3. QED
        BY <2>1, <2>2
<1>3. CallsApart' /\ AloneInRoom'
    BY <1>0 DEF CallsApart, AloneInRoom, rowVars
<1>4. QED
    BY <1>1, <1>2, <1>3

LEMMA LookingStep ==
    ASSUME IInv, NEW c \in Calls, Look(c)
    PROVE  IInv'
<1> USE DEF IInv, Look
<1>0. at'[c] = "update" /\ UNCHANGED <<rowVars, issues, work, done, retired, inserted>>
    BY DEF QrTypeOK
<1>1. QrTypeOK'
    BY <1>0 DEF QrTypeOK, rowVars
<1>2. ASSUME NEW d \in Calls PROVE CallKnows(d)'
    <2>1. CASE d = c
        BY <1>0, <2>1 DEF CallKnows, Shape, Inserts, Retirees, rowVars
    <2>2. CASE d # c
        <3>1. at'[d] = at[d]
            BY <2>2 DEF QrTypeOK
        <3>2. QED
            BY <1>0, <3>1, OthersKnow
    <2>3. QED
        BY <2>1, <2>2
<1>3. CallsApart' /\ AloneInRoom'
    BY <1>0 DEF CallsApart, AloneInRoom, rowVars
<1>4. QED
    BY <1>1, <1>2, <1>3

(* The UPDATE takes a row no other call has retired, of its room.          *)
LEMMA UpdatingStep ==
    ASSUME IInv, NEW c \in Calls, Update(c)
    PROVE  IInv'
<1>0. /\ QrTypeOK /\ CallsApart /\ AloneInRoom
      /\ \A d \in Calls : CallKnows(d)
      /\ at[c] = "update" /\ ~Waits(c)
      /\ at' = [at EXCEPT ![c] = IF issues[c] THEN "insert" ELSE "commit"]
      /\ retired' = [retired EXCEPT ![c] = retired[c] \cup Retires(c)]
      /\ UNCHANGED <<rowVars, issues, work, done, seen, inserted>>
    BY DEF IInv, Update
<1>a. /\ at'[c] = IF issues[c] THEN "insert" ELSE "commit"
      /\ retired'[c] = retired[c] \cup Retires(c)
      /\ \A d \in Calls \ {c} : at'[d] = at[d] /\ retired'[d] = retired[d]
    BY <1>0 DEF QrTypeOK
<1>b. /\ Retires(c) \subseteq Tokens
      /\ \A t \in Retires(c) : t = seen[c] /\ state[t] = "active" /\ roomOf[t] = RoomFor(c)
    BY DEF Retires, ActiveIn
<1>c. done[c] + 1 \in 1..Len(work[c])
    BY <1>0 DEF CallKnows, Shape, QrTypeOK
<1>1. QrTypeOK'
    BY <1>0, <1>b DEF QrTypeOK, rowVars
<1>2. ASSUME NEW d \in Calls PROVE CallKnows(d)'
    <2>1. CASE d = c
        <3>1. Shape(c)'
            BY <1>0, <1>a DEF CallKnows, Shape
        <3>2. Inserts(c)'
            BY <1>0, <1>a DEF CallKnows, Inserts, rowVars
        <3>3. Retirees(c)'
            BY <1>0, <1>a, <1>b, <1>c DEF CallKnows, Retirees, rowVars, RoomFor
        <3>4. QED
            BY <2>1, <3>1, <3>2, <3>3 DEF CallKnows
    <2>2. CASE d # c
        <3>1. at'[d] = at[d] /\ retired'[d] = retired[d]
            BY <1>a, <2>2
        <3>2. QED
            BY <1>0, <3>1, OthersKnow
    <2>3. QED
        BY <2>1, <2>2
<1>3. CallsApart'
    <2>1. \A d \in Calls \ {c} : Retires(c) \cap retired[d] = {}
        BY <1>0, <1>b DEF Waits, WaitsFor
    <2>2. QED
        BY <1>0, <1>a, <2>1 DEF CallsApart, rowVars
<1>4. AloneInRoom'
    BY <1>0 DEF AloneInRoom, rowVars
<1>5. QED
    BY <1>1, <1>2, <1>3, <1>4 DEF IInv

-----------------------------------------------------------------------------
(* Steps that write                                                        *)

(* The row that is inserted opens nothing yet, and no other row opens its  *)
(* room or will: the unique index has looked.                              *)
LEMMA InsertingStep ==
    ASSUME IInv, NEW c \in Calls, Insert(c)
    PROVE  IInv'
<1> DEFINE t == Draw
           r == RoomFor(c)
<1>0. /\ QrTypeOK /\ CallsApart /\ AloneInRoom
      /\ \A d \in Calls : CallKnows(d)
      /\ at[c] = "insert" /\ ~Waits(c) /\ ActiveIn(r) \subseteq retired[c]
      /\ roomOf' = [roomOf EXCEPT ![t] = r]
      /\ inserted' = [inserted EXCEPT ![c] = inserted[c] \cup {t}]
      /\ done' = [done EXCEPT ![c] = done[c] + 1]
      /\ at' = [at EXCEPT ![c] = IF done[c] + 1 = Len(work[c]) THEN "commit" ELSE "look"]
      /\ UNCHANGED <<state, issues, work, seen, retired>>
    BY DEF IInv, Insert, Taken
<1>a. t \in Tokens /\ state[t] = "free" /\ roomOf[t] = None
    BY DEF Insert, Draw, Unused
<1>b. /\ issues[c] /\ done[c] \in Nat /\ Len(work[c]) \in Nat /\ done[c] < Len(work[c])
      /\ r = work[c][done[c] + 1] /\ r \in Rooms /\ r # None
    BY <1>0, NoneIsNothing DEF CallKnows, Shape, QrTypeOK, RoomFor
<1>c. /\ roomOf'[t] = r
      /\ \A u \in Tokens \ {t} : roomOf'[u] = roomOf[u]
      /\ inserted'[c] = inserted[c] \cup {t} /\ done'[c] = done[c] + 1
      /\ at'[c] = IF done[c] + 1 = Len(work[c]) THEN "commit" ELSE "look"
      /\ \A d \in Calls \ {c} :
            inserted'[d] = inserted[d] /\ done'[d] = done[d] /\ at'[d] = at[d]
    BY <1>0, <1>a DEF QrTypeOK
<1>d. \A d \in Calls : t \notin inserted[d] /\ t \notin retired[d]
    <2>1. ASSUME NEW d \in Calls, t \in inserted[d] PROVE FALSE
        <3>1. PICK i \in 1..done[d] : roomOf[t] = work[d][i]
            BY <1>0, <2>1 DEF CallKnows, Inserts
        <3>2. work[d] \in Seq(Rooms) /\ i \in 1..Len(work[d])
            BY <1>0 DEF CallKnows, Shape, QrTypeOK
        <3>3. work[d][i] \in Rooms
            BY <3>2
        <3>4. QED
            BY <1>a, <3>1, <3>3, NoneIsNothing
    <2>2. QED
        BY <1>0, <1>a, <2>1 DEF CallKnows, Retirees
<1>e. \A d \in Calls \ {c} : \A u \in inserted[d] : roomOf[u] # r
    BY <1>0 DEF Waits, WaitsFor, Undecided
<1>f. \A u \in inserted[c] : roomOf[u] # r
    <2>1. \A i \in 1..done[c] : work[c][i] # work[c][done[c] + 1]
        BY <1>0, <1>b DEF CallKnows, Shape
    <2>2. QED
        BY <1>0, <1>b, <2>1 DEF CallKnows, Inserts
<1>1. QrTypeOK'
    BY <1>0, <1>a, <1>b DEF QrTypeOK
<1>2. ASSUME NEW d \in Calls PROVE CallKnows(d)'
    <2>0. /\ inserted[d] \subseteq Tokens /\ retired[d] \subseteq Tokens
          /\ issues'[d] = issues[d] /\ work'[d] = work[d] /\ retired'[d] = retired[d]
        BY <1>0 DEF QrTypeOK
    <2>1. CASE d = c
        <3>1. Shape(c)'
            BY <1>0, <1>b, <1>c DEF CallKnows, Shape
        <3>2. Inserts(c)'
            <4>1. ASSUME NEW u \in inserted'[c]
                  PROVE  state'[u] = "free" /\ \E i \in 1..done'[c] : roomOf'[u] = work'[c][i]
                <5>1. CASE u = t
                    BY <1>0, <1>a, <1>b, <1>c, <5>1
                <5>2. CASE u # t
                    <6>1. u \in inserted[c] /\ u \in Tokens
                        BY <1>c, <2>0, <2>1, <5>2
                    <6>2. state[u] = "free" /\ \E i \in 1..done[c] : roomOf[u] = work[c][i]
                        BY <1>0, <6>1 DEF CallKnows, Inserts
                    <6>3. PICK i \in 1..done[c] : roomOf[u] = work[c][i]
                        BY <6>2
                    <6>4. i \in 1..done'[c] /\ roomOf'[u] = work'[c][i]
                        BY <1>0, <1>b, <1>c, <5>2, <6>1, <6>3
                    <6>5. QED
                        BY <1>0, <6>2, <6>4
                <5>3. QED
                    BY <5>1, <5>2
            <4>2. ASSUME NEW i \in 1..done'[c]
                  PROVE  \E u \in inserted'[c] : roomOf'[u] = work'[c][i]
                <5>1. CASE i = done[c] + 1
                    BY <1>0, <1>b, <1>c, <5>1
                <5>2. CASE i # done[c] + 1
                    <6>1. i \in 1..done[c]
                        BY <1>b, <1>c, <5>2
                    <6>2. PICK u \in inserted[c] : roomOf[u] = work[c][i]
                        BY <1>0, <1>b, <6>1 DEF CallKnows, Inserts
                    <6>3. u # t /\ u \in Tokens
                        BY <1>d, <2>0, <2>1, <6>2
                    <6>4. QED
                        BY <1>0, <1>c, <6>2, <6>3
                <5>3. QED
                    BY <5>1, <5>2
            <4>3. \A u, v \in inserted'[c] : roomOf'[u] = roomOf'[v] => u = v
                BY <1>0, <1>c, <1>d, <1>f, <2>0, <2>1 DEF CallKnows, Inserts
            <4>4. ASSUME NEW u \in inserted'[c], NEW v \in Tokens,
                         state'[v] = "active", roomOf'[v] = roomOf'[u]
                  PROVE  v \in retired'[c]
                <5>1. v # t /\ roomOf'[v] = roomOf[v] /\ state[v] = "active"
                    BY <1>0, <1>a, <1>c, <4>4
                <5>2. CASE u = t
                    BY <1>0, <1>c, <4>4, <5>1, <5>2 DEF ActiveIn
                <5>3. CASE u # t
                    BY <1>0, <1>c, <2>0, <2>1, <4>4, <5>1, <5>3 DEF CallKnows, Inserts
                <5>4. QED
                    BY <5>2, <5>3
            <4>5. QED
                BY <4>1, <4>2, <4>3, <4>4 DEF Inserts
        <3>3. Retirees(c)'
            BY <1>0, <1>c, <1>d, <2>0, <2>1 DEF CallKnows, Retirees
        <3>4. QED
            BY <2>1, <3>1, <3>2, <3>3 DEF CallKnows
    <2>2. CASE d # c
        <3>1. inserted'[d] = inserted[d] /\ done'[d] = done[d] /\ at'[d] = at[d]
            BY <1>c, <2>2
        <3>2. \A u \in inserted[d] \cup retired[d] : u \in Tokens /\ roomOf'[u] = roomOf[u]
            BY <1>c, <1>d, <2>0
        <3>3. Shape(d)'
            BY <1>0, <2>0, <3>1 DEF CallKnows, Shape
        <3>4. Inserts(d)'
            <4>1. \A u \in Tokens : state'[u] = "active" => u # t /\ roomOf'[u] = roomOf[u]
                BY <1>0, <1>a, <1>c
            <4>2. QED
                BY <1>0, <2>0, <3>1, <3>2, <4>1 DEF CallKnows, Inserts
        <3>5. Retirees(d)'
            BY <1>0, <2>0, <3>2 DEF CallKnows, Retirees
        <3>6. QED
            BY <3>3, <3>4, <3>5 DEF CallKnows
    <2>3. QED
        BY <2>1, <2>2
<1>3. CallsApart'
    <2>1. ASSUME NEW d \in Calls, NEW e \in Calls, d # e,
                 NEW u \in inserted'[d], NEW v \in inserted'[e]
          PROVE  roomOf'[u] # roomOf'[v]
        <3>1. \A x \in Calls : inserted[x] \subseteq Tokens
            BY <1>0 DEF QrTypeOK
        <3>2. u # t => u \in inserted[d] /\ roomOf'[u] = roomOf[u]
            BY <1>c, <2>1, <3>1
        <3>3. v # t => v \in inserted[e] /\ roomOf'[v] = roomOf[v]
            BY <1>c, <2>1, <3>1
        <3>4. (u = t => d = c) /\ (v = t => e = c)
            BY <1>c, <1>d, <2>1
        <3>5. QED
            BY <1>0, <1>c, <1>e, <2>1, <3>2, <3>3, <3>4 DEF CallsApart
    <2>2. QED
        BY <1>0, <2>1 DEF CallsApart
<1>4. AloneInRoom'
    BY <1>0, <1>a, <1>c DEF AloneInRoom
<1>5. QED
    BY <1>1, <1>2, <1>3, <1>4 DEF IInv

LEMMA UndoneStep ==
    ASSUME IInv, NEW c \in Calls, Undone(c)
    PROVE  IInv'
<1>0. /\ QrTypeOK /\ CallsApart /\ AloneInRoom
      /\ \A d \in Calls : CallKnows(d)
      /\ Ended(c)
      /\ roomOf' = [t \in Tokens |-> IF t \in inserted[c] THEN None ELSE roomOf[t]]
      /\ state' = state
    BY DEF IInv, Undone
<1>a. /\ at'[c] = "idle" /\ ~issues'[c] /\ work'[c] = <<>> /\ done'[c] = 0
      /\ retired'[c] = {} /\ inserted'[c] = {}
      /\ \A d \in Calls \ {c} :
            /\ at'[d] = at[d] /\ issues'[d] = issues[d] /\ work'[d] = work[d]
            /\ done'[d] = done[d] /\ retired'[d] = retired[d] /\ inserted'[d] = inserted[d]
    BY <1>0 DEF QrTypeOK, Ended
<1>b. \A d \in Calls : inserted[d] \subseteq Tokens /\ retired[d] \subseteq Tokens
    BY <1>0 DEF QrTypeOK
<1>c. \A t \in Tokens : state[t] # "free" => roomOf'[t] = roomOf[t]
    BY <1>0 DEF CallKnows, Inserts
<1>d. \A d \in Calls \ {c} : \A t \in inserted[d] : t \in Tokens /\ roomOf'[t] = roomOf[t]
    BY <1>0, <1>b DEF CallsApart
<1>1. QrTypeOK'
    <2>1. <<>> \in Seq(Rooms)
        OBVIOUS
    <2>2. QED
        BY <1>0, <2>1 DEF QrTypeOK, Ended
<1>2. ASSUME NEW d \in Calls PROVE CallKnows(d)'
    <2>1. CASE d = c
        <3>1. Len(work'[c]) = 0
            BY <1>a
        <3>2. QED
            BY <1>a, <2>1, <3>1 DEF CallKnows, Shape, Inserts, Retirees
    <2>2. CASE d # c
        <3>1. /\ at'[d] = at[d] /\ issues'[d] = issues[d] /\ work'[d] = work[d]
              /\ done'[d] = done[d] /\ retired'[d] = retired[d] /\ inserted'[d] = inserted[d]
              /\ CallKnows(d)
            BY <1>0, <1>a, <2>2
        <3>2. Shape(d)'
            BY <3>1 DEF CallKnows, Shape
        <3>3. Inserts(d)'
            <4>1. \A t \in inserted[d] : t \in Tokens /\ roomOf'[t] = roomOf[t]
                BY <1>d, <2>2
            <4>2. \A u \in Tokens : state[u] = "active" => roomOf'[u] = roomOf[u]
                BY <1>c
            <4>3. Inserts(d)
                BY <3>1 DEF CallKnows
            <4>4. ASSUME NEW t \in inserted[d]
                  PROVE  state'[t] = "free" /\ \E i \in 1..done'[d] : roomOf'[t] = work'[d][i]
                BY <1>0, <3>1, <4>1, <4>3 DEF Inserts
            <4>5. ASSUME issues[d], NEW i \in 1..done[d]
                  PROVE  \E t \in inserted'[d] : roomOf'[t] = work'[d][i]
                BY <3>1, <4>1, <4>3, <4>5 DEF Inserts
            <4>6. \A t, u \in inserted[d] : roomOf'[t] = roomOf'[u] => t = u
                BY <4>1, <4>3 DEF Inserts
            <4>7. ASSUME NEW t \in inserted[d], NEW u \in Tokens,
                         state[u] = "active", roomOf'[u] = roomOf'[t]
                  PROVE  u \in retired[d]
                BY <4>1, <4>2, <4>3, <4>7 DEF Inserts
            <4>8. QED
                BY <1>0, <3>1, <4>4, <4>5, <4>6, <4>7 DEF Inserts
        <3>4. Retirees(d)'
            BY <1>0, <1>b, <1>c, <3>1 DEF CallKnows, Retirees
        <3>5. QED
            BY <3>2, <3>3, <3>4 DEF CallKnows
    <2>3. QED
        BY <2>1, <2>2
<1>3. CallsApart'
    BY <1>0, <1>a, <1>d DEF CallsApart
<1>4. AloneInRoom'
    BY <1>0, <1>c DEF AloneInRoom
<1>5. QED
    BY <1>1, <1>2, <1>3, <1>4 DEF IInv

(* The rows a call makes active open rooms it has cleared.                 *)
LEMMA CommittingStep ==
    ASSUME IInv, NEW c \in Calls, Commit(c)
    PROVE  IInv'
<1>0. /\ QrTypeOK /\ CallsApart /\ AloneInRoom
      /\ \A d \in Calls : CallKnows(d)
      /\ Ended(c)
      /\ state' = [t \in Tokens |-> IF t \in inserted[c] THEN "active"
                                    ELSE IF t \in retired[c] THEN "revoked"
                                    ELSE state[t]]
      /\ roomOf' = roomOf
    BY DEF IInv, Commit
<1>a. /\ at'[c] = "idle" /\ ~issues'[c] /\ work'[c] = <<>> /\ done'[c] = 0
      /\ retired'[c] = {} /\ inserted'[c] = {}
      /\ \A d \in Calls \ {c} :
            /\ at'[d] = at[d] /\ issues'[d] = issues[d] /\ work'[d] = work[d]
            /\ done'[d] = done[d] /\ retired'[d] = retired[d] /\ inserted'[d] = inserted[d]
    BY <1>0 DEF QrTypeOK, Ended
<1>b. \A d \in Calls : inserted[d] \subseteq Tokens /\ retired[d] \subseteq Tokens
    BY <1>0 DEF QrTypeOK
<1>c. \A d \in Calls \ {c} : \A t \in inserted[d] : t \notin inserted[c] /\ t \notin retired[c]
    BY <1>0 DEF CallsApart, CallKnows, Inserts, Retirees
<1>d. \A d \in Calls \ {c} : \A t \in retired[d] : t \notin inserted[c] /\ t \notin retired[c]
    BY <1>0 DEF CallsApart, CallKnows, Inserts, Retirees
<1>1. QrTypeOK'
    <2>1. <<>> \in Seq(Rooms)
        OBVIOUS
    <2>2. QED
        BY <1>0, <2>1 DEF QrTypeOK, Ended
<1>2. ASSUME NEW d \in Calls PROVE CallKnows(d)'
    <2>1. CASE d = c
        <3>1. Len(work'[c]) = 0
            BY <1>a
        <3>2. QED
            BY <1>a, <2>1, <3>1 DEF CallKnows, Shape, Inserts, Retirees
    <2>2. CASE d # c
        <3>1. /\ at'[d] = at[d] /\ issues'[d] = issues[d] /\ work'[d] = work[d]
              /\ done'[d] = done[d] /\ retired'[d] = retired[d] /\ inserted'[d] = inserted[d]
              /\ CallKnows(d)
            BY <1>0, <1>a, <2>2
        <3>2. Shape(d)'
            BY <3>1 DEF CallKnows, Shape
        <3>3. \A t \in inserted[d] \cup retired[d] : t \in Tokens /\ state'[t] = state[t]
            BY <1>0, <1>b, <1>c, <1>d, <2>2
        <3>4. ASSUME NEW t \in inserted[d], NEW u \in Tokens,
                     state'[u] = "active", roomOf[u] = roomOf[t]
              PROVE  u \in retired[d]
            <4>1. u \notin inserted[c]
                BY <1>0, <2>2, <3>4 DEF CallsApart
            <4>2. state[u] = "active"
                BY <1>0, <3>4, <4>1
            <4>3. QED
                BY <3>1, <3>4, <4>2 DEF CallKnows, Inserts
        <3>5. Inserts(d)'
            BY <1>0, <3>1, <3>3, <3>4 DEF CallKnows, Inserts
        <3>6. Retirees(d)'
            <4>1. \A t \in retired[d] :
                      state[t] = "active" /\ \E i \in 1..Len(work[d]) : roomOf[t] = work[d][i]
                BY <3>1 DEF CallKnows, Retirees
            <4>2. QED
                BY <1>0, <3>1, <3>3, <4>1 DEF Retirees
        <3>7. QED
            BY <3>2, <3>5, <3>6 DEF CallKnows
    <2>3. QED
        BY <2>1, <2>2
<1>3. CallsApart'
    BY <1>0, <1>a DEF CallsApart
<1>4. AloneInRoom'
    <2>1. CallKnows(c)
        BY <1>0
    <2>2. QED
        BY <1>0, <2>1 DEF AloneInRoom, CallKnows, Inserts
<1>5. QED
    BY <1>1, <1>2, <1>3, <1>4 DEF IInv

(* Every action is a step of one of these kinds, or stutters.              *)
LEMMA StepIInv == IInv /\ [QrNext]_qrVars => IInv'
<1> SUFFICES ASSUME IInv, [QrNext]_qrVars PROVE IInv'
    OBVIOUS
<1>1. CASE UNCHANGED qrVars
    BY <1>1 DEF qrVars, rowVars, IInv, QrTypeOK, CallKnows, Shape, Inserts, Retirees, CallsApart,
                AloneInRoom
<1>2. ASSUME NEW c \in Calls, NEW rooms \in Lists, BeginIssue(c, rooms) PROVE IInv'
    <2>1. /\ rooms \in Seq(Rooms) /\ Len(rooms) > 0
          /\ \A i, j \in 1..Len(rooms) : rooms[i] = rooms[j] => i = j
        BY ListsAreSequences
    <2>2. Begin(c, TRUE, rooms)
        BY <1>2 DEF BeginIssue
    <2>3. QED
        BY <2>1, <2>2, BeginningStep
<1>3. ASSUME NEW c \in Calls, NEW r \in Rooms, BeginRevoke(c, r) PROVE IInv'
    <2>1. PICK rooms : rooms = <<r>>
        OBVIOUS
    <2>2. rooms \in Seq(Rooms) /\ Len(rooms) = 1
        BY <2>1
    <2>3. /\ Len(rooms) > 0 /\ (~FALSE => Len(rooms) <= 1)
          /\ \A i, j \in 1..Len(rooms) : rooms[i] = rooms[j] => i = j
        BY <2>2
    <2>4. Begin(c, FALSE, rooms) /\ FALSE \in BOOLEAN
        BY <1>3, <2>1 DEF BeginRevoke
    <2>5. QED
        BY <2>2, <2>3, <2>4, BeginningStep, Zenon
<1>4. ASSUME NEW c \in Calls, Look(c) PROVE IInv'
    BY <1>4, LookingStep
<1>5. ASSUME NEW c \in Calls, Update(c) PROVE IInv'
    BY <1>5, UpdatingStep
<1>6. ASSUME NEW c \in Calls, Insert(c) PROVE IInv'
    BY <1>6, InsertingStep
<1>7. ASSUME NEW c \in Calls, InsertFails(c) \/ AbortDeadlock(c) \/ CutOff(c) PROVE IInv'
    BY <1>7, UndoneStep DEF InsertFails, AbortDeadlock, CutOff
<1>8. ASSUME NEW c \in Calls, Commit(c) PROVE IInv'
    BY <1>8, CommittingStep
<1>9. QED
    BY <1>1, <1>2, <1>3, <1>4, <1>5, <1>6, <1>7, <1>8 DEF QrNext, Step

LEMMA SpecIInv == QrSpec => []IInv
<1>1. QED
    BY InitIInv, StepIInv, PTL DEF QrSpec

-----------------------------------------------------------------------------
(* Theorems                                                                *)

(* The rows and the calls of issueForRooms and revokeForRoom keep their    *)
(* types, whatever list of rooms they go through and wherever they are cut *)
(* off.                                                                    *)
THEOREM QrTypeCorrect == QrSpec => []QrTypeOK
<1>1. IInv => QrTypeOK
    BY DEF IInv
<1>2. QED
    BY <1>1, SpecIInv, PTL

(* At most one QR code opens a room, for any number of calls of            *)
(* issueForRooms and revokeForRoom.                                        *)
THEOREM RoomsHaveOneCode == QrSpec => []OneCodePerRoom
<1>1. IInv => OneCodePerRoom
    <2> SUFFICES ASSUME IInv, NEW r \in Rooms PROVE Cardinality(ActiveIn(r)) <= 1
        BY DEF OneCodePerRoom
    <2>1. CASE ActiveIn(r) = {}
        BY <2>1, FS_EmptySet
    <2>2. ASSUME NEW t \in ActiveIn(r) PROVE Cardinality(ActiveIn(r)) <= 1
        <3>1. ActiveIn(r) = {t}
            BY <2>2 DEF IInv, AloneInRoom, ActiveIn
        <3>2. Cardinality({t}) = 1
            BY FS_Singleton
        <3>3. QED
            BY <3>1, <3>2
    <2>3. QED
        BY <2>1, <2>2
<1>2. QED
    BY <1>1, SpecIInv, PTL

-----------------------------------------------------------------------------
(* The refinement                                                          *)

(* The code of a room is the token that is active in it.                   *)
LEMMA CodeOfIsActive ==
    ASSUME AloneInRoom, NEW r \in Rooms
    PROVE  /\ ActiveIn(r) = {} => CodeOf(r) = None
           /\ \A t \in ActiveIn(r) : CodeOf(r) = t /\ t \in Tokens
<1>1. ActiveIn(r) = {} => CodeOf(r) = None
    BY DEF CodeOf
<1>2. ASSUME NEW t \in ActiveIn(r) PROVE CodeOf(r) = t /\ t \in Tokens
    <2>1. \A u \in ActiveIn(r) : u = t
        BY DEF AloneInRoom, ActiveIn
    <2>2. (CHOOSE u \in ActiveIn(r) : TRUE) \in ActiveIn(r)
        BY <1>2
    <2>3. QED
        BY <2>1, <2>2 DEF CodeOf, ActiveIn
<1>3. QED
    BY <1>1, <1>2

(* A room with the same active rows keeps its code.                        *)
LEMMA CodeOfStays ==
    ASSUME NEW r \in Rooms, ActiveIn(r)' = ActiveIn(r)
    PROVE  CodeOf(r)' = CodeOf(r)
BY DEF CodeOf

(* The rooms of a list are its elements.                                   *)
LEMMA RoomsOfList ==
    ASSUME NEW rooms \in Seq(Rooms)
    PROVE  /\ Range(rooms) \subseteq Rooms
           /\ \A r : r \in Range(rooms) <=> \E i \in 1..Len(rooms) : r = rooms[i]
           /\ Len(rooms) > 0 => Range(rooms) # {}
           /\ Len(rooms) = 0 => Range(rooms) = {}
<1>1. rooms \in [1..Len(rooms) -> Rooms] /\ Len(rooms) \in Nat
    OBVIOUS
<1>2. Range(rooms) = {rooms[i] : i \in 1..Len(rooms)}
    BY <1>1 DEF Range
<1>3. Len(rooms) > 0 => 1 \in 1..Len(rooms)
    BY <1>1
<1>4. Len(rooms) = 0 => 1..Len(rooms) = {}
    BY <1>1
<1>5. QED
    BY <1>1, <1>2, <1>3, <1>4

(* What a request asks for, while its call is under way or not.            *)
LEMMA RequestOfCall ==
    ASSUME IInv, NEW c \in Calls
    PROVE  /\ at[c] = "idle" => Request(c) = Abstract!Nothing
           /\ at[c] # "idle" => Request(c) # Abstract!Nothing
<1>1. CallKnows(c) /\ work[c] \in Seq(Rooms)
    BY DEF IInv, QrTypeOK
<1>2. at[c] = "idle" => ~issues[c] /\ Range(work[c]) = {}
    BY <1>1, RoomsOfList DEF CallKnows, Shape
<1>3. at[c] # "idle" => Range(work[c]) # {}
    BY <1>1, RoomsOfList DEF CallKnows, Shape
<1>4. issues[c] \in BOOLEAN
    BY DEF IInv, QrTypeOK
<1>5. QED
    BY <1>2, <1>3, <1>4 DEF Request, Abstract!Nothing

(* A call that ends answers its request, and no other.                     *)
LEMMA EndAnswers ==
    ASSUME IInv, NEW c \in Calls, Ended(c)
    PROVE  Abstract!Answered(c)
<1>1. /\ ~issues'[c] /\ work'[c] = <<>> /\ issues'[c] \in BOOLEAN
      /\ \A d \in Calls \ {c} : issues'[d] = issues[d] /\ work'[d] = work[d]
    BY DEF IInv, QrTypeOK, Ended
<1>2. Range(work'[c]) = {}
    BY <1>1 DEF Range
<1>3. Request(c)' = Abstract!Nothing
    BY <1>1, <1>2 DEF Request, Abstract!Nothing
<1>4. \A d \in Calls \ {c} : Request(d)' = Request(d)
    BY <1>1 DEF Request
<1>5. QED
    BY <1>3, <1>4 DEF Abstract!Answered

LEMMA BeginAsks ==
    ASSUME IInv, NEW c \in Calls, NEW issue \in BOOLEAN, NEW rooms \in Seq(Rooms),
           Len(rooms) > 0, Begin(c, issue, rooms)
    PROVE  Abstract!TokenNext
<1>1. at[c] = "idle" /\ rowVars' = rowVars
    BY DEF Begin
<1>2. Range(rooms) \in (SUBSET Rooms) \ {{}}
    BY RoomsOfList
<1>3. /\ issues'[c] = issue /\ work'[c] = rooms
      /\ \A d \in Calls \ {c} : issues'[d] = issues[d] /\ work'[d] = work[d]
    BY DEF IInv, QrTypeOK, Begin
<1>4. Request(c) = Abstract!Nothing
    BY <1>1, RequestOfCall
<1>5. Request(c)' = [issues |-> issue, rooms |-> Range(rooms)]
    BY <1>3 DEF Request
<1>6. \A d \in Calls \ {c} : Request(d)' = Request(d)
    BY <1>3 DEF Request
<1>7. Abstract!Ask(c, issue, Range(rooms))
    <2>1. state' = state /\ \A r \in Rooms : CodeOf(r)' = CodeOf(r)
        BY <1>1 DEF rowVars, CodeOf, ActiveIn
    <2>2. QED
        BY <1>4, <1>5, <1>6, <2>1 DEF Abstract!Ask
<1>8. QED
    BY <1>2, <1>7 DEF Abstract!TokenNext

(* A call that is undone leaves no trace: its rows were not active.        *)
LEMMA UndoneRefuses ==
    ASSUME IInv, NEW c \in Calls, at[c] # "idle", Undone(c)
    PROVE  Abstract!TokenNext
<1>1. Request(c) # Abstract!Nothing
    BY RequestOfCall
<1>2. Ended(c) /\ state' = state
    BY DEF Undone
<1>3. Abstract!Answered(c)
    BY <1>2, EndAnswers
<1>4. ASSUME NEW r \in Rooms PROVE CodeOf(r)' = CodeOf(r)
    <2>1. \A t \in Tokens : state[t] = "active" => roomOf'[t] = roomOf[t]
        BY DEF Undone, IInv, CallKnows, Inserts
    <2>2. ActiveIn(r)' = ActiveIn(r)
        BY <1>2, <2>1 DEF ActiveIn
    <2>3. QED
        BY <2>2, CodeOfStays
<1>5. Abstract!Refuse(c)
    BY <1>1, <1>2, <1>3, <1>4 DEF Abstract!Refuse
<1>6. QED
    BY <1>5 DEF Abstract!TokenNext

(* The commit of issueForRooms gives all its rooms their new codes.        *)
LEMMA CommitIssues ==
    ASSUME IInv, IInv', NEW c \in Calls, Commit(c), issues[c]
    PROVE  Abstract!TokenNext
<1> DEFINE rooms == Range(work[c])
<1>0. /\ QrTypeOK /\ AloneInRoom /\ AloneInRoom' /\ CallKnows(c)
      /\ at[c] = "commit" /\ Ended(c) /\ roomOf' = roomOf
      /\ state' = [t \in Tokens |-> IF t \in inserted[c] THEN "active"
                                    ELSE IF t \in retired[c] THEN "revoked"
                                    ELSE state[t]]
      /\ inserted[c] \subseteq Tokens /\ retired[c] \subseteq Tokens
      /\ work[c] \in Seq(Rooms) /\ done[c] = Len(work[c])
    BY DEF IInv, Commit, CallKnows, Shape, QrTypeOK
<1>1. /\ rooms \subseteq Rooms
      /\ \A r : r \in rooms <=> \E i \in 1..Len(work[c]) : r = work[c][i]
    BY <1>0, RoomsOfList
<1>2. \A t \in inserted[c] : state[t] = "free" /\ state'[t] = "active" /\ roomOf[t] \in rooms
    BY <1>0, <1>1 DEF CallKnows, Inserts
<1>3. \A t \in retired[c] : state[t] = "active" /\ roomOf[t] \in rooms
    BY <1>0, <1>1 DEF CallKnows, Retirees
<1>4. ASSUME NEW t \in inserted[c], NEW r, roomOf[t] = r PROVE r \in Rooms /\ CodeOf(r)' = t
    <2>1. r \in Rooms /\ t \in ActiveIn(r)'
        BY <1>0, <1>1, <1>2, <1>4 DEF ActiveIn
    <2>2. \A u \in ActiveIn(r)' : u = t
        BY <1>0, <1>4, <2>1 DEF ActiveIn, AloneInRoom
    <2>3. CodeOf(r)' \in ActiveIn(r)'
        BY <2>1 DEF CodeOf
    <2>4. QED
        BY <2>1, <2>2, <2>3
<1>5. ASSUME NEW r \in rooms PROVE \E t \in inserted[c] : roomOf[t] = r
    <2>1. PICK i \in 1..Len(work[c]) : r = work[c][i]
        BY <1>1
    <2>2. QED
        BY <1>0, <2>1 DEF CallKnows, Inserts
<1>6. ASSUME NEW r \in Rooms, r \notin rooms PROVE CodeOf(r)' = CodeOf(r)
    <2>1. ActiveIn(r)' = ActiveIn(r)
        BY <1>0, <1>2, <1>3, <1>6 DEF ActiveIn
    <2>2. QED
        BY <2>1, CodeOfStays
<1>7. ASSUME NEW t \in inserted[c], NEW q \in Rooms, CodeOf(q)' = t PROVE q = roomOf[t]
    <2>1. ActiveIn(q)' # {}
        BY <1>0, <1>7, NoneIsNothing DEF CodeOf
    <2>2. (CHOOSE u \in ActiveIn(q)' : TRUE) \in ActiveIn(q)'
        BY <2>1
    <2>3. t \in ActiveIn(q)'
        BY <1>7, <2>1, <2>2 DEF CodeOf
    <2>4. QED
        BY <1>0, <2>3 DEF ActiveIn
<1>8. {t \in Tokens : state'[t] # "free"} = {t \in Tokens : state[t] # "free"} \cup inserted[c]
    BY <1>0, <1>3
<1>9. {t \in Tokens : state[t] # "free"} \cap inserted[c] = {}
    BY <1>2
<1>10. Abstract!Answered(c)
    BY <1>0, EndAnswers
<1>11. Request(c).issues /\ Request(c).rooms = rooms
    BY DEF Request
<1>12. Abstract!Issue(c)
    <2>1. ASSUME NEW r \in rooms
          PROVE  /\ r \in Rooms /\ CodeOf(r)' \in inserted[c]
                 /\ \A q \in Rooms \ {r} : CodeOf(q)' # CodeOf(r)'
        <3>1. PICK t \in inserted[c] : roomOf[t] = r
            BY <1>5
        <3>2. CodeOf(r)' = t /\ r \in Rooms
            BY <1>4, <3>1
        <3>3. QED
            BY <1>7, <3>1, <3>2
    <2>2. \A t \in inserted[c] : \E r \in rooms : CodeOf(r)' = t
        BY <1>2, <1>4
    <2>3. QED
        BY <1>1, <1>6, <1>8, <1>9, <1>10, <1>11, <2>1, <2>2 DEF Abstract!Issue
<1>13. QED
    BY <1>12 DEF Abstract!TokenNext

(* The commit of revokeForRoom closes its room, unless it found no code.   *)
LEMMA CommitRevokes ==
    ASSUME IInv, NEW c \in Calls, Commit(c), ~issues[c]
    PROVE  Abstract!TokenNext
<1> DEFINE rooms == Range(work[c])
<1>0. /\ QrTypeOK /\ AloneInRoom /\ CallKnows(c)
      /\ at[c] = "commit" /\ Ended(c) /\ roomOf' = roomOf
      /\ state' = [t \in Tokens |-> IF t \in inserted[c] THEN "active"
                                    ELSE IF t \in retired[c] THEN "revoked"
                                    ELSE state[t]]
      /\ inserted[c] = {} /\ retired[c] \subseteq Tokens
      /\ work[c] \in Seq(Rooms) /\ Len(work[c]) > 0 /\ Len(work[c]) <= 1
    BY DEF IInv, Commit, CallKnows, Shape, QrTypeOK
<1>1. \A r : r \in rooms <=> r = work[c][1]
    <2>1. work[c] \in Seq(Rooms) /\ Len(work[c]) > 0 /\ Len(work[c]) <= 1
        BY <1>0
    <2>2. Len(work[c]) \in Nat
        BY <2>1
    <2>3. \A n \in Nat : n > 0 /\ n <= 1 => n = 1
        OBVIOUS
    <2>4. Len(work[c]) = 1
        BY <2>1, <2>2, <2>3, Zenon
    <2>5. QED
        BY <2>1, <2>4, RoomsOfList
<1>2. \A t \in retired[c] : state[t] = "active" /\ roomOf[t] \in rooms
    BY <1>0, <1>1 DEF CallKnows, Retirees
<1>3. Abstract!Answered(c)
    BY <1>0, EndAnswers
<1>4. {t \in Tokens : state'[t] # "free"} = {t \in Tokens : state[t] # "free"}
    BY <1>0, <1>2
<1>5. ~Request(c).issues /\ Request(c).rooms = rooms /\ Request(c) # Abstract!Nothing
    BY <1>0, RequestOfCall DEF Request
<1>6. ASSUME NEW r \in Rooms, r \notin rooms PROVE CodeOf(r)' = CodeOf(r)
    <2>1. ActiveIn(r)' = ActiveIn(r)
        BY <1>0, <1>2, <1>6 DEF ActiveIn
    <2>2. QED
        BY <2>1, CodeOfStays
<1>7. CASE retired[c] = {}
    <2>1. \A r \in Rooms : ActiveIn(r)' = ActiveIn(r)
        BY <1>0, <1>7 DEF ActiveIn
    <2>2. \A r \in Rooms : CodeOf(r)' = CodeOf(r)
        BY <2>1, CodeOfStays
    <2>3. Abstract!Refuse(c)
        BY <1>3, <1>4, <1>5, <2>2 DEF Abstract!Refuse
    <2>4. QED
        BY <2>3 DEF Abstract!TokenNext
<1>8. CASE retired[c] # {}
    <2>1. PICK t \in retired[c] : TRUE
        BY <1>8
    <2>2. ASSUME NEW r \in Rooms, r \in rooms PROVE CodeOf(r)' = None
        <3>1. \A u \in Tokens : state[u] = "active" /\ roomOf[u] = r => u \in retired[c]
            BY <1>0, <1>1, <1>2, <2>1, <2>2 DEF AloneInRoom
        <3>2. ActiveIn(r)' = {}
            BY <1>0, <3>1 DEF ActiveIn
        <3>3. QED
            BY <3>2 DEF CodeOf
    <2>3. Abstract!Revoke(c)
        BY <1>3, <1>4, <1>5, <1>6, <2>2 DEF Abstract!Revoke
    <2>4. QED
        BY <2>3 DEF Abstract!TokenNext
<1>9. QED
    BY <1>7, <1>8

(* Every other statement is nobody's business.                             *)
LEMMA QuietSteps ==
    ASSUME IInv, NEW c \in Calls, Look(c) \/ Update(c) \/ Insert(c)
    PROVE  UNCHANGED Abstract!tokenVars
<1>1. state' = state /\ issues' = issues /\ work' = work
    BY DEF Look, Update, Insert, rowVars
<1>2. \A t \in Tokens : state[t] = "active" => roomOf'[t] = roomOf[t]
    BY DEF Look, Update, Insert, rowVars, Draw, Unused, IInv, QrTypeOK
<1>3. \A r \in Rooms : ActiveIn(r)' = ActiveIn(r)
    BY <1>1, <1>2 DEF ActiveIn
<1>4. \A r \in Rooms : CodeOf(r)' = CodeOf(r)
    BY <1>3, CodeOfStays
<1>5. QED
    BY <1>1, <1>4 DEF Abstract!tokenVars, Request

(* The calls, statement by statement, in any interleaving, ended by the    *)
(* unique index or a deadlock or cut off, implement RoomTokens.            *)
THEOREM CallsImplementTokens == QrSpec => ImplementsTokens
<1>1. QrInit => Abstract!TokenInit
    <2> SUFFICES ASSUME QrInit PROVE Abstract!TokenInit
        OBVIOUS
    <2>1. \A r \in Rooms : CodeOf(r) = None
        BY DEF QrInit, CodeOf, ActiveIn
    <2>2. IInv /\ \A c \in Calls : at[c] = "idle"
        BY InitIInv DEF QrInit
    <2>3. \A c \in Calls : Request(c) = Abstract!Nothing
        BY <2>2, RequestOfCall
    <2>4. QED
        BY <2>1, <2>3 DEF QrInit, Abstract!TokenInit
<1>2. IInv /\ IInv' /\ [QrNext]_qrVars => [Abstract!TokenNext]_(Abstract!tokenVars)
    <2> SUFFICES ASSUME IInv, IInv', [QrNext]_qrVars
                 PROVE  Abstract!TokenNext \/ UNCHANGED Abstract!tokenVars
        OBVIOUS
    <2>1. CASE UNCHANGED qrVars
        BY <2>1 DEF qrVars, rowVars, Abstract!tokenVars, CodeOf, ActiveIn, Request
    <2>2. ASSUME NEW c \in Calls, NEW rooms \in Lists, BeginIssue(c, rooms)
          PROVE  Abstract!TokenNext
        BY <2>2, ListsAreSequences, BeginAsks DEF BeginIssue
    <2>3. ASSUME NEW c \in Calls, NEW r \in Rooms, BeginRevoke(c, r)
          PROVE  Abstract!TokenNext
        <3>1. PICK rooms : rooms = <<r>>
            OBVIOUS
        <3>2. rooms \in Seq(Rooms) /\ Len(rooms) > 0
            BY <3>1
        <3>3. Begin(c, FALSE, rooms) /\ FALSE \in BOOLEAN
            BY <2>3, <3>1 DEF BeginRevoke
        <3>4. QED
            BY <3>2, <3>3, BeginAsks, Zenon
    <2>4. ASSUME NEW c \in Calls, Look(c) \/ Update(c) \/ Insert(c)
          PROVE  UNCHANGED Abstract!tokenVars
        BY <2>4, QuietSteps
    <2>5. ASSUME NEW c \in Calls, InsertFails(c) \/ AbortDeadlock(c) \/ CutOff(c)
          PROVE  Abstract!TokenNext
        <3>1. at[c] # "idle" /\ Undone(c)
            BY <2>5 DEF InsertFails, AbortDeadlock, CutOff, InACircle, WaitsFor
        <3>2. QED
            BY <3>1, UndoneRefuses
    <2>6. ASSUME NEW c \in Calls, Commit(c) PROVE Abstract!TokenNext
        <3>1. issues[c] \in BOOLEAN
            BY DEF IInv, QrTypeOK
        <3>2. QED
            BY <2>6, <3>1, CommitIssues, CommitRevokes
    <2>7. QED
        BY <2>1, <2>2, <2>3, <2>4, <2>5, <2>6 DEF QrNext, Step
<1>3. QED
    BY <1>1, <1>2, SpecIInv, PTL DEF QrSpec, ImplementsTokens, Abstract!TokenSpec

=============================================================================
