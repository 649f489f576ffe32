# A verification project for the hotel room-service system

The repository is a room-service system for hotels: guests order on a TV or a
phone, staff work the orders off, the reception checks guests in and out, and
the API keeps everything in PostgreSQL. These TLA+ modules model the protocols
of the system: the stock of *Butik Indonesia* and the life of an order, stays
and QR codes, how a TV is let into a room and updates itself, staff accounts,
and what the screens of guests and staff show and send. TLC checks what has to
hold of them on small instances; for the most important statements TLAPS proves
them for instances of every size.

    tlc -workers 2 -config RequestFulfilmentSingle.cfg MCRequestFulfilment
    tlapm RequestFulfilmentProofs.tla

Paths below are relative to the repository; `api/` is short for
`apps/api/src/`, `tv/` for
`apps/tv-shell/app/src/main/java/com/roomservice/tv/`, `staff/` for
`apps/staff-web/src/`.

## 1. Inventory of the system

### Components

| Component | Where | State | Operations that change it |
|---|---|---|---|
| Boutique stock | `api/boutique/boutique.repository.ts` | `boutique_product_variants` (active, stock_on_hand, reserved_quantity), `boutique_inventory_movements` | reserve, release, fulfil, adjust, create, (de)activate |
| Guest ordering | `api/guest/guest.service.ts` | `service_requests` | createRequest, createRequestGroup |
| Request life cycle | `api/requests/request.service.ts`, `request.repository.ts` | `service_requests.status`, `reservation_expires_at` | confirm, complete (+ revert), cancel, expire |
| Reservation expiry worker | `api/requests/boutique-reservation-expiry.worker.ts`, `request.controller.ts` | none of its own | starts a sweep every interval; staff can start one by HTTP |
| Room assignment | `api/receptionist/*` | `guest_room_assignments`: who stays in which room | assign, edit, check out |
| Guest QR access | `api/guest/guest-qr.*`, `guest-context.resolver.ts` | one token per room | issue, issue a batch, revoke, resolve |
| TV provisioning | `api/tv/tv.service.ts`, `postgres-tv-device.repository.ts` | device, pairing code, credential | start, pair, claim, reset, revoke |
| TV self-update | `tv/update/TvUpdateManager.kt`, `TvUpdateWorker.kt` | files, preferences, overlay, running check | check, download, verify, stage, offer, dismiss, install |
| TV app | `tv/presentation/TvViewModel.kt` | screen, credential; cart, pending request id, submission | load, provision, show the room; add, submit, follow events, take late answers |
| Guest web app | `apps/guest-web/src/App.tsx` | context, cart, client request id | read, add, submit, reload |
| Staff web app | `staff/*Workspace.tsx`, `*Dashboard.tsx` | rooms or orders shown, reads, refresh timer, socket | read, poll, hear, call, take the answer |
| Realtime events | `api/realtime`, `api/tv/tv.realtime.gateway.ts`, `api/receptionist/*events*` | channels of connected sockets | publish after commit, join, leave, recheck |
| Staff accounts | `api/management/*` | `staff_users`, `staff_roles` | create, edit, deactivate users; create, edit, delete roles |
| Boutique catalogue | `api/boutique/*` | categories, products, prices; base price copied into the menu | create, update, archive |
| Menu, media, login, in-memory twins, contracts, tools | see `PROJECT.json` | texts, files, sessions | reads and single-row edits |

Most repositories also have an in-memory twin for development and tests. The
modules follow the PostgreSQL adapters, which are what a hotel runs.

### How the components interact

```
 TV app / guest web ──HTTP──► GuestService ──► current stay of the room
                                   ├────────► BoutiqueService.reserveStock   (transaction 1)
                                   ├────────► RequestRepository.createBatch    (transaction 2)
                                   └─catch──► BoutiqueService.releaseStock     (transaction 3)

 staff web ──HTTP──► RequestService.confirm   ──► one conditional UPDATE           ──► event
                     RequestService.complete  ──► claim UPDATE, fulfillStock       ──► event
                                                  on error revert, without an event
                     RequestService.cancel    ──► read, claim UPDATE, releaseStock ──► event
 worker / HTTP ────► RequestService.expire    ──► list due orders, for each: claim, releaseStock
 staff web ──HTTP──► ReceptionistService      ──► 1 transaction per call           ──► event
                     GuestQrService           ──► 1 transaction per call, rooms in the order asked for
                     ManagementService        ──► single queries, no transaction
 TV app ──HTTP────► TvService.startProvisioning ──► createPending            (1 transaction)
                     TvService.claimProvisioning ──► find by code, then claim (1 transaction)
 staff web ──HTTP──► TvService.pairDevice        ──► find by code, then pair  (1 transaction)
                     TvService.reset / revoke    ──► 1 transaction each
 TV app ──HTTP────► update manifest, APK (by byte ranges) ──► Android's installer

 event ──socket──► TVs of the room, receptionists' pages, pages of the unit
                   ──► they read again; an event a socket misses is lost
```

No transaction spans `service_requests` and the stock tables, no transaction
spans a change and its event, and no screen holds a lock. Every arrow is a
statement or transaction of its own, and between two of them any other call may
run, the statement may fail, or the process may stop. What keeps the data
together is (a) the order of the steps — the stock is reserved before the order
exists, the terminal status is claimed before the stock moves —, (b) conditional
`UPDATE … WHERE status = expected`, which one caller wins, (c) unique indexes:
on stay, client request id and unit; on the active token and the active device
of a room, (d) row locks held from the test of a row to its write, and (e)
movements keyed by client request id, which make reserve and release repeatable.
What keeps the screens right is that they read again and that a newer read
takes the place of an older one.

### What is hard, and what makes a component correct

| Component | Hard behaviour | Correct when |
|---|---|---|
| Boutique stock | several rows locked one by one; movements of a key read without a lock of the key; computed sums written later | nothing is promised that is not on the shelf; counter and movements agree; a key reserves once; calls behave as if each were one step; nobody waits in a circle; every call ends |
| Guest ordering | double taps and retries with one key; insert fails after the reservation; restart in between | a stored order has its stock; a refused one leaves none behind; a success answer means stored orders |
| Request life cycle | completion, cancellation, expiry race; delivery fails after the claim; the revert fails | one wins and it alone moves the stock; a delivered order stays COMPLETED; an undelivered one does not |
| Expiry | sweeps overlap, lose claims, stop early | no order waits for ever; the stock of a cancelled order returns |
| Room assignment | two calls want a room and its stay in opposite orders; the event follows the commit | a room has one stay; calls behave as one step each; they all end; changes are announced |
| Guest QR access | batches lock rooms in the order asked for; an UPDATE looks again only at the row it waited for | one current token per room; a batch is all or nothing; retired codes stay retired; deadlocks end |
| TV provisioning | claim and pair check a record read earlier; two pairings of one room; answers lost, TV or API restarted in between | at most one active device per room; it got in with its present code, entered for that room; a retired credential opens nothing again |
| TV self-update | the app is stopped between file, preference and disk; artifacts are replaced while a download is resumed | only verified newer files are offered and installed; a record without its file is repaired; a put-off release stays away; an update gets prepared and stays at hand |
| Staff accounts | each call is several queries; permissions are stored beside the roles they come from | a Superadmin remains; assigned roles exist; permissions follow roles; the deactivated go offline |
| Guests' screens | late answers after a change of guest; a cart edited while an answer is missing; the gap between read and channel | no cart is charged twice; a cart stays with its guest; nobody waits for ever |
| Staff pages | lists read one by one while orders move; events lost, merged, overtaken; late answers | an overtaken read never comes back; pages catch up; a quiet dashboard shows what is stored; every order gets done |

`PROJECT.json` lists every hazard at its line, with the properties about it or
the reason why there is none.

## 2. Modules

| Module | Stands for |
|---|---|
| `BoutiqueInventory` | the stock as its callers see it: every repository call is one step. The abstract specification of the next module and the foundation of the third. |
| `StockTransactions` | the same calls statement by statement: row locks in id order, the read of the movements, the test, the COMMIT. Implements `BoutiqueInventory`. |
| `RequestFulfilment` | guest ordering, the request life cycle and the expiry worker over `BoutiqueInventory`: one step per statement or transaction, several calls in flight. |
| `RoomStays` | who stays in which room, one step per call of the reception. Abstract specification, and the foundation of the screens. |
| `RoomAssignment` | the reception's calls statement by statement, with the event. Implements `RoomStays`. |
| `RoomTokens` | the QR codes of the rooms, one step per request. Abstract specification. |
| `GuestQrTokens` | the QR calls statement by statement. Implements `RoomTokens`. |
| `TvProvisioning` | pairing, claiming, resetting and revoking TVs: the server's calls with their unlocked lookups and row locks, and the TV app that drives them. |
| `TvUpdate` | a TV that updates itself. |
| `StaffAccounts` | accounts and roles query by query, and the sockets of the staff. |
| `StaffRaces` | `StaffAccounts` with a memory of which calls were overtaken by the write of another. |
| `GuestScreens` | the TVs of a room and the page behind its QR code, over `RoomStays`. |
| `ReceptionPages` | the receptionists' pages, over `RoomStays`. |
| `HotelScreens` | composes the two over the same stays: one change of the reception, one event for all. |
| `OrderBoards` | the order list of a department's dashboard or of the boutique's page. |
| `…Proofs` | the theorems of section 5, eight modules: one each for `BoutiqueInventory`, `StockTransactions`, `RequestFulfilment`, `RoomAssignment`, `GuestQrTokens`; `TvProofs` for `TvProvisioning` and `TvUpdate`; `StaffProofs` for `OrderBoards`, `StaffAccounts` and `StaffRaces`; `HotelScreensProofs` for `GuestScreens`, `ReceptionPages` and `HotelScreens`. |
| `MC…` | values for the constants TLC needs. |

A module with several processes keeps the statement a call executes next in
`at[c]` and its arguments in `job[c]` or a record of its own; "idle" is no call.

### `BoutiqueInventory`

A stock line list is a function from variants to quantities — what
`aggregateLines` makes of the items of a cart. `stock`, `reserved`, `active` are
the columns of `boutique_product_variants`; `listed` the rows that exist.
`ledger[key][v]` is the sum over the movement rows of a key (RESERVE minus
RELEASE minus FULFILL), `history` the keys that have a row at all; the code
derives both by the query in `previousReservations`. `Answer(op, key, lines)` is
the decision of a call in the order of the code: do the rows exist, what do the
movements of the key say (`KeyVerdict`), do the rows allow it (`RowsAllow`). Its
values are the repository's outcomes: "done" (moved stock), "already" (returned
without moving any), and the errors. The actions `ReserveStock`, `ReleaseStock`,
`FulfilStock`, `AdjustStock`, `CreateVariant`, `SetVariantActive` are the
methods of the same names. `MaxStock` bounds the model only.

Left out: which staff member did it, the text of the movement, the catalogue
fields of a variant.

### `StockTransactions`

`locked[p]` are the rows the transaction of caller `p` holds, `change[p]` the
sum `adjustStock` computed when it read its row. `Begin` is the call, `LockRow`
one `SELECT … FOR UPDATE` returning (rows are taken in id order: `NextRow`),
`RefuseRow` the missing or too small row that rolls the call back,
`ReadMovements` the query for the key, `TestRows` the second loop,
`CommitLines`/`CommitAdjust` the writes, visible at COMMIT. Between the first
lock and COMMIT no other transaction sees a write of this one, so the writes are
one step. `Rollback` is a lost connection at any point; `UpdateActive` and
`InsertVariant` are single statements of others.

`KeyLines` says which line lists the clients send with one key. The refinement
holds where the lists of a key share a variant: then two calls with it meet at a
row lock. Where they need not, the code does something else (section 4).

### `RequestFulfilment`

`orders` is `service_requests` by stay, key and unit, with the columns the
calls decide by: status, reservation window (NULL, open, over), stock lines.
`handlers[h]` is a call in flight with its local variables — the submission, the
flag `reserved`, the order it claimed, the status it read, the rest of a sweep's
list — and `at` is the statement that comes next:

| Code | Steps |
|---|---|
| `GuestService.createRequestGroup`, `createRequest`, `persistRequestBatch` | `Submit` (lookup) → `CheckItems` (availability, unlocked) → `Reserve` → `InsertOrders` or `InsertRefused` → `UndoReservation` → `LookAgain` |
| `RequestService.confirm` | `Confirm` |
| `RequestService.complete` | `ClaimCompletion` → `Fulfil` → on failure `RevertCompletion` |
| `RequestService.cancel` | `ReadForCancel` → `ClaimCancellation` or `LoseCancellation` → `Release` |
| `expireBoutiqueReservations`, the worker, its endpoint | `StartSweep` → for every order `ClaimCancellation`/`LoseCancellation` → `Release` |
| the database | `StatementFails`: the next statement of a call fails and commits nothing; the `catch` clauses are `AfterFault` |
| the process, time, staff | `Crash` (all calls are gone, the tables stay), `WindowPasses` (30 minutes), `ManageStock` |

The module extends `BoutiqueInventory` and uses its actions inside its own, so
that an order step and the stock transaction it makes are one step.

`accepted` (submissions answered with success), `fulfilled` (orders whose goods
left) are history variables; `attempts`, `faults`, `crashes` count against
`MaxAttempts`, `MaxFaults`, `MaxCrashes`.

Abstractions: a guest's stay does not end (an order of a guest who leaves
meanwhile is the business of `GuestScreens`); who may see which unit is left
out, because those checks only refuse; a sweep takes its orders in any order;
the texts, prices and snapshots of an order are left out. A statement that fails
commits nothing — a COMMIT whose answer is lost is not modelled.

### `RoomStays` and `RoomAssignment`

`current[r]` is the stay of a room and `names[s]` the name of a stay; `CheckIn`,
`EditGuest`, `CheckOut` are the three calls of the reception.

`RoomAssignment` has the columns `roomOf`, `nameOf`, `status` of
`guest_room_assignments` and the rows `locks[c]` each transaction holds:

| Code | Steps |
|---|---|
| `assignGuest` | `BeginAssign` → `LockRoom` → `FindVacant` or `FindOccupied` (the active stay, once nobody changes it) → `CommitAssign` → `Publish` |
| `updateGuestAssignment` | `BeginUpdate` → `LockJoined` for the stay and the room, in either order → `TestStatus` → `CommitUpdate` → `Publish` |
| `checkoutGuestAssignment` | `BeginCheckout` → the same → `CommitCheckout` → `Publish` |
| PostgreSQL | `AbortDeadlock` ends one of two calls that wait for each other; `CutOff` is a lost connection or a restart |

The unique index on the active stay is left out on purpose: one stay per room is
shown to rest on the locks alone. `unannounced` are rooms changed since an event
about them was published. The abstract `current[r]` is the active row of `r`.

### `RoomTokens` and `GuestQrTokens`

`code[r]` is the token that opens a room, `issued` what was ever handed out,
`request[c]` what a call asks for; `Issue`, `Revoke` do a request for all its
rooms in one step, `Refuse` not at all.

| Code | Steps |
|---|---|
| `issueForRooms` | `BeginIssue` → for each room `Look` (the UPDATE finds its row) → `Update` (once no other transaction has changed it, and only if it is still active) → `Insert` or, on the unique index, `InsertFails` → `Commit` |
| `revokeForRoom` | `BeginRevoke` → `Look` → `Update` → `Commit` |
| PostgreSQL | `AbortDeadlock` for a member of any circle, `CutOff` |

At READ COMMITTED an UPDATE that has waited looks again at the row it waited for
and at no other, so a second batch can miss the token the first one inserted;
then its own insert meets the unique index. `retired[c]` and `inserted[c]` are
the uncommitted writes; an insert waits while the conflicting one is undecided.

### `TvProvisioning`

`devices` is `hotel_tv_devices`: rows are numbered by `created_at`, the pairing
code and the credential of a row are drawn together, so one number, `secret`,
stands for both; `expired` is the comparison of `pairing_expires_at` with the
clock. `calls[h]` is a server call in flight with the row its service has
looked up. `tvs[i]` is a TV: the state of `TvViewModel`, the code on its screen,
and the credential in its key store, which survives a restart.

| Code | Steps |
|---|---|
| `startProvisioning`, `createPending` | `Start` (the SELECT: which rows it finds) → `OpenSession` (the row locked and renewed, or a row inserted) |
| `pairDevice`, `pair` | `Pair` (lookup and expiry) → `LockForPair` (lock, status, code, expiry) → `TestRoom` → `CommitPair` (UPDATE with the unique index, COMMIT) |
| `claimProvisioning`, `claim` | `Poll` (answers without a transaction) or `Claim` (lookup) → `CommitClaim` |
| `revokeDevice`, `resetDevice`, time | `Revoke`, `Reset`, `Expire` |
| the API process | `StopApi`: open transactions are rolled back |
| `loadOrProvision`, `beginProvisioning`, `loadReady` | `Load`, `Hear` (an answer arrives), `ShowRoom`; `Disconnect` (a request fails, while the server may well go on with it), `SwitchOff` |
| `onRealtimeAssignmentUpdated` | `Hint` |

Only pairing keeps a row locked over several statements, so `Free(d)` is all
that is left of the locks. `caught` tells whether the running coroutine is
`loadOrProvision`, whose `catch` shows an error, or the one started by a hint,
where an exception ends the app. `confirmed` is a history variable: which code
was entered for which room.

Left out: rate limits (they only refuse), device metadata, a room number that
does not match its id (it only refuses), random values that come up twice, a
hint that arrives while the TV is loading. `MaxSecrets` bounds the sessions.

### `TvUpdate`

`feed` is what the manifest announces (`Broken`: not a valid one), `artifact[v]`
whether the file the API serves for it is sound; `part[v]` and `final[v]` are
the partial and the finished file on the TV, `pending` and `dismissed` the
preferences in memory and `saved` the two as they are on disk, where `apply()`
brings them later; `screen` is the overlay, `check` the one check that has set
`checkInFlight`, `launched` a coroutine that has not looked at the flag yet,
`installer` what Android was asked to install.

| Code | Steps |
|---|---|
| `checkForUpdateAndAwait`, whoever asks first | `BeginLaunched`, `AlreadyRunning` → `FindNothing`, `FindInvalid`, `FindPutOff`, `FindUpdate` or `ManifestFails` |
| the worker | `BeginWork` → `RestoreFinds` (an offer is at hand: done) or `RestoreClears` → the same |
| the download with its ranges and attempts | `Answered` (from where the part ends, or from the start) → `Receive` (a byte, from a file that may have been replaced) → `Verify` or `RejectPart`; `RangeRejected` (416: the part was complete already), `AttemptFails`, both with `TryAgain`; `DownloadRefused`; `GiveUp` |
| staging | `Persist` (the preference, a step after the file) |
| `clearPreparedUpdate` | `Clear`, in the step of the check that calls it: the file and the record in memory. The record on disk stays |
| `apply()` | `SavePreferences` |
| the overlay and Android | `AskForUpdates`, `Retry`, `Dismiss`, `Install`, `AllowInstalling`, `ConfirmInstall`, `RefuseInstall` |
| the app and the world | `StopApp`, `ReturnToApp`, `TimePasses`, `SetFeed`, `UploadWrong`, `UploadRight` |

A stop takes the preferences back to `saved`. So the deletion of a file and the
end of its record are two steps, as far as anybody can tell who survives a stop:
stopped in between, the TV has a record without its file, and one step earlier
in `Persist` a file without its record. `Clear` may take the record out of
memory at once because only the check itself reads it there. The content of an
APK is whether it passes the verification, its length `Size`.

### `StaffAccounts`

`user[u]` is a row of `staff_users` with the permissions stored beside the
roles, `grants[r]` a role, `online` the accounts with a socket. Every query is a
step: `BeginUpdateUser` → `ReadUser` → `ResolveRoles` → `TestContinuity` →
`ReadCurrent` → `WriteUser`; `BeginUpdateRole` → `ReadRole` → `WriteRole` →
`ListUsers` → for each user `ResolveNext`, `ReadNext`, `WriteNext` →
`EndUpdateRole`; `BeginDeleteRole` → `ReadRole` → `FindAssigned` → `DeleteRole`.
`CutOff` stops a call between two queries. `GoOnline`, `Recheck` (the gateway's
look at each socket, once a minute) and `Leave` are the sockets. Passwords,
names and the login are left out.

`StaffRaces` adds two history variables that restrict nothing. `overtaken` are
the calls in flight since whose beginning another call has written an account or
a role (`Overtaken`); `raced` says that one of these has written, or ended the
update of a role, on what it had read before (`Raced`). Nothing in the code
keeps this from happening; what it does then is finding 2 of section 4. The
properties of the accounts are stated up to that moment.

### `GuestScreens`, `ReceptionPages`, `HotelScreens`

`GuestScreens` is one room with its TVs and QR pages. `load[x]` are the reads
under way, `view[x]` the stay the screen shows, `cart[x]`, `key[x]`, `busy[x]`
the cart, its client request id and the button's lock, `send[x]` the
submissions under way — the TV starts a new one while an old one is unanswered
after a change of guest, so there are two slots —, `link[x]` and `hint[x]` the
TV's socket and an undelivered event. `orders` is what the API has stored, by
stay and key.

| Code | Steps |
|---|---|
| `loadReady`, `loadOrProvision`; the page's `load` | `OpenTv`, `FollowHint`, `Focus` → `ReadContext` → `ReadRest` → `ShowTv`/`ShowPage`, or `LoseLoad` → `ShowError`, `Crash`, `ShowPageError` |
| `submitCart`, the page's submission | `FillCart`, `EmptyCart`, `Submit` → `Resolve` (the API finds the stay) → `Create` (inserts, or finds the key taken) → `Confirmed`, or `LoseSend` → `Failed` |
| the socket | `Join` (after the connection stands), `LoseLink`, `Noticed` (an event of the room) |
| `App.tsx` reloaded | `ReloadPage`: cart and key are gone |

`ReceptionPages` has for each page the two latest reads and the one that counts
(`roomLoadSequence`), the timer, the socket and the call under way.
`LoadRooms` → `ReadRooms` → `ShowRooms` or `DropRead` (overtaken) or `LoseRead`;
`Connect`, `TimerFires`, `Poll` begin reads; `AssignGuest`, `UpdateGuest`,
`CheckoutGuest` → `Carry` (the transaction, its event) or `Refuse` →
`TakeAnswer`, which puts the answer into the list beside the reads, or
`TakeRefusal`; `LoseCall` loses either.

`HotelScreens` conjoins the actions of both over the same `RoomStays`: a change
is one step with its event to TVs and pages. That `RoomAssignment` implements
`RoomStays` justifies the one step; that `ChangesAreAnnounced` holds there, the
event.

### `OrderBoards`

One page, a dashboard or the boutique's, chosen in the initial state. `answers`
is a load under way: for each list (one per status, `PageSize` newest orders)
what it has read. `StartLoad` aborts the one before.

| Code | Steps |
|---|---|
| `loadDashboard`, `loadOrders` | `RefreshQueued` (160 ms after an event), `Poll` (interval, focus), `Connect`, `TakeAnswer` begin it → `Read(s)` for every list → `Show`, or `LoadFails` |
| the gateway | `Join` (a moment after `Connect`), `Break` |
| `RequestService` and its event | `Order`, `Others`, `Serve` (`MoveOrder`); for the boutique `Settle` publishes after the stock has moved, `SettleFails` reverts without an event |
| the buttons | `Click` → `Serve` → `TakeAnswer` or `TakeRefusal`; `AnswerLost` |

`joinedThen` and `settled` are history variables: whether the load under way,
and the last one shown, began when the socket was in the channel. `Poll` begins
only when no load is under way: a load does not take 15 seconds.

### Seeded errors

Operators whose names begin with `Bug`, each right before the definition it
distorts, are plausible mistakes in the same code: a guard dropped, a comparison
turned round, a movement not written. No specification uses them. They show that
the properties can tell: with the definition's body replaced by its seeded
error, TLC finds the property violated under the unchanged configuration
(`PROJECT.json`, `mutants`).

## 3. Runs

Each run is exhaustive for its bounds and takes between half a minute and two
and a half.

| Run (configuration) | Shows | Instance |
|---|---|---|
| `transactions` (`StockTransactions.cfg`) | two stock calls interleaved by statement: `TestedRowsStayValid`, `NoLockCycle`, `ImplementsInventory`, `NoResurrection`, `EveryCallEnds` | 2 callers, 2 variants, 2 keys, stock ≤ 1, corrections ±1 |
| `orders` (`RequestFulfilmentSingle.cfg`) | the order protocol: the properties below | 2 carts for one variant, 3 calls at once, 1 failing statement, 1 restart, each cart sent once, stock ≤ 2, corrections |
| `order_groups` (`RequestFulfilmentGroups.cfg`) | `AcceptedIsStored`, `FulfilledStaysCompleted` | a cart of two units with two stock lines and a competing cart, each sent up to twice, 2 calls at once, 1 restart |
| `rooms` (`RoomAssignment.cfg`) | `OneStayPerRoom`, `ImplementsStays`, `EveryCallEnds`, `ChangesAreAnnounced` | 2 calls, 2 rooms, 2 stays, 2 names |
| `qr_tokens` (`GuestQrTokens.cfg`) | `OneCodePerRoom`, `ImplementsTokens`, `EveryCallEnds` | 2 calls, 2 rooms, 4 tokens |
| `tv_pairing` (`TvProvisioning.cfg`) | `OneTvPerRoom`, `RoomAsConfirmed`, `RetiredStaysRetired` | 2 TVs, 2 rooms, 2 rows, 2 server calls at once, 2 sessions; any number of lost answers, restarts and revocations |
| `tv_update` (`TvUpdate.cfg`) | `OfferedIsVerified`, `RecordIsRepaired`, `OnlyVerifiedInstalled`, `PutOffStaysAway`, `UpdateGetsPrepared` | version 1 installed, 2 optional; files of 2 bytes, 2 attempts, 3 faults |
| `staff_accounts` (`StaffAccounts.cfg`) | `LastSuperadminStays`, `NoRoleVanishes`, `PermissionsAreCurrent`, `DeactivatedGoesOffline` | 2 accounts, 2 custom roles, 1 permission; 1 call at a time, cut off anywhere |
| `hotel_screens` (`HotelScreens.cfg`) | `NoCartTwice`, `CartStaysWithGuest`, `NobodyWaitsForever`, `LatestReadWins`, `DesksCatchUp` | 1 room, 2 stays, 2 names; a TV, a QR page and a desk of which one is used; 2 carts, 1 fault, 3 changes of the reception |
| `order_boards` (`OrderBoards.cfg`) | `QuietDashboardIsCurrent`, `EveryOrderGetsDone` | 2 orders on a dashboard or 1 on the boutique's page, lists of 1 order, 1 change by others, 2 disturbances |
| `double_tap`, `two_superadmins` | findings 1 and 2 of section 4 | the smallest instance each |

The properties of `orders`: `LedgerAgrees` (the counters of the variants are the
sums of the movements), `ClaimsExclusive` (who moves the stock of an order owns
the status it claimed, alone), `OpenOrderHoldsReservation` (an order that can
still be completed has its stock), `RestReconciles` (without failures exactly
the open orders hold stock once all calls have ended),
`FailedDeliveryIsReverted`, `NoOrderWaitsForever` and `CancelledGivesBack`.

Of `tv_update`, `OfferedIsVerified` and `OnlyVerifiedInstalled` say that what the
overlay offers and what the installer gets is newer than the app and has its
verified file at that moment, whatever record a stop has left;
`RecordIsRepaired` that a record without its file does not stay;
`UpdateGetsPrepared` that a TV nobody touches comes to have an update at hand for
good, if the manifest goes on announcing a sound one. `TvUpdateThreeReleases.cfg`
is a larger instance for the safety properties: a third release that is
mandatory, 2 faults.

In `staff_accounts` one call is made at a time, so `raced` never becomes true and
the first three are `SuperadminRemains`, `AssignedRolesExist` and
`PermissionsFollowRoles` themselves, for calls cut off anywhere. What they say of
several calls at once is proved, for any number of them (section 5): two calls
have far too many states to be explored exhaustively.

The types of the modules are theorems of section 5, and so is every safety
property of a passing run, under the hypotheses named there; the runs show the
same on small instances, and the liveness properties besides.

**Why the bounds are enough.** The theorems of section 5 do without them; where
there is none:

- *Orders.* The races are between two calls about one order and a third that
  changes the stock, so three calls and two carts reach every combination of
  steps. Two variants are the least that can be locked in two orders and give a
  cart two lines; a stock of 1 makes the carts exclude each other, of 2 lets both
  pass. One failing statement reaches every `catch`, two the failure of a
  `catch`. Two attempts are a double tap. One restart reaches every point of
  every call.
- *Rooms and codes.* Only a room and one stay of it are wanted at once, so two
  calls show every circle of waiting; two batches over two rooms in opposite
  order do for the codes. Four tokens let both batches run on rooms that have
  codes already.
- *TV update.* The installed release and a newer one that may be put off show
  every way of an update; with a third one, mandatory, the preferences, the
  overlay and the files are about different releases at once. A file of two
  bytes is the least whose download is interrupted in the middle, so that the
  part is continued from a replaced artifact. Three faults are a wrong artifact,
  a broken connection and a stop, or a stop at each of three steps.
- *Accounts.* A call may be cut off between any two queries. Two accounts are
  one that acts and another; a role granting the managing permission and one
  without are two custom roles.
- *Screens.* Three changes are check-out, check-in and check-in after a change
  of name, or any other three: enough for an answer to meet a guest who came
  after the one who asked, and the one after. Screens share nothing but the
  stays and the orders of a key, and keys are never shared; so the run uses one
  screen at a time, while the others follow events and read.
- *Order lists.* Lists of one order make the older of two drop out, which is all
  the limit of the query does. Two disturbances are a broken socket and a failed
  read, or a reverted completion and a lost answer.

Handlers, rooms, TVs and calls are interchangeable; symmetry is used in
`order_groups` and `tv_pairing`, which have no liveness. Every action and every
disjunct of the next-state relations fires in at least one passing run.
Deadlock is checked except in `HotelScreens.cfg` and
`GuestScreensStaleTv.cfg`: there the stays of all guests, the carts and the
changes are used up in the end, a bound of the model.

**Submissions sent once or twice.** In `orders` every cart is sent once: with a
second attempt `OpenOrderHoldsReservation` does not hold (section 4). The
properties that survive double taps are checked with two attempts in
`order_groups`.

**Fairness.**

- `FairTxSpec`, `FairRoomSpec`, `FairQrSpec`: strong fairness of a call's steps.
  A waiter for a row lock may find the row free again and again without getting
  it, but PostgreSQL queues waiters, and it ends one of those who wait in a
  circle. Lost connections are not fair.
- `FairSpec` of the orders: weak fairness of each call's next step (the event
  loop runs what is ready, and `Proceed` is always possible for a call in
  flight) and of the passing of time, strong fairness of starting a sweep: the
  worker's interval fires again and again; it is strong only because the model
  has few handlers and other calls may occupy them, a limit the API does not
  have. Guests and staff are not fair: nobody has to order or to confirm.
- `FairUpdateSpec`: time passes (`TimePasses`); WorkManager runs the worker
  again and again (`BeginWork`); a check that runs goes on (`Goes`). All three
  are strong, because time passes only while no check runs, and checks that
  others began come in between. Nobody opens the app or touches the remote
  control, and the preferences need not reach the disk.
- `FairRacesSpec`: the gateway's interval looks at every socket.
- `FairHotelSpec`: calls are answered or fail, sockets of the TV connect, events
  arrive, the interval of the receptionist's page fires. Neither guests nor
  receptionists have to do anything, and the receptionist's page does not need
  its socket.
- `FairSpec` of the order lists: the API and the page go on, the interval
  passes. `EveryOrderGetsDone` also assumes a user who works off what the page
  keeps showing (strong fairness of `Click`, since the order may go and come
  back). Nothing is assumed of guests, of other users or of the socket.

## 4. Where the code and its documents disagree

In the first two, TLC finds the counterexample of a listed run; the trace is the
shortest.

1. `double_tap` — of two equal submissions A reserves, B finds the reservation
   and inserts the order; A's insert meets the unique index and A's `catch`
   releases the reservation of B's order. The order stays NEW without stock.
2. `two_superadmins` — `assertSuperadminContinuity` looks two queries before the
   UPDATE, outside of any transaction. Two Superadmins who demote each other at
   once both find another one; afterwards there is none, although the refusal
   says "At least one active Superadmin must remain." `AssignedRolesExist` and
   `PermissionsFollowRoles` break in the same way, and in no other: that a call
   which was overtaken goes on to write is the only way (theorems of section 5).

These have a configuration of their own, whose property TLC refutes:

3. `StockTransactionsTwoCarts.cfg` (`OneReservationPerKey`) — two calls with one
   key and disjoint carts lock no common row, both see no movement of the key,
   and both reserve. When they run one after the other the second gets "This
   client request ID is already associated with a different stock reservation."
4. `RequestFulfilmentRetry.cfg` (`OpenOrderHoldsReservation`) — the insert fails
   and the reservation is undone; the retry is told by `reserveStock` that there
   is nothing to do and stores an order without stock.
5. `RequestFulfilmentRestart.cfg` (`CancelledHoldsNothing`) — a restart between
   the claim of a cancellation and the release leaves the stock reserved for
   good; no later call looks for it.
6. `TvProvisioningReset.cfg` (`ResetTvLeavesRoom`) — the staff page says of a
   reset "The TV will show a new code." A TV that shows its room is told nothing
   and asks for nothing: it goes on showing the room until it is restarted or a
   guest of the room is edited.
7. `GuestScreensStaleTv.cfg` (`TvShowsStay`) — `Docs/Additional-Scope.md:257`
   says that the TV of the room gets the latest data. A change between the TV's
   read and its joining of the channel is neither read nor announced to it, and
   a late answer of an earlier read may be shown last; the TV then keeps the old
   guest until the next event.

Two remarks. `FailedDeliveryIsReverted` is stated for at most one failing
statement: when delivery and revert both fail (`CompletedIsFulfilled` without
its premise), the order stays COMPLETED with its goods on the shelf, although
the comment at `api/requests/request.service.ts:156` says the claim is reverted.
And `QuietDashboardIsCurrent` speaks of dashboards only: the boutique's page may
be quiet and outdated until its next interval, because a reverted completion is
not announced and the answer of a call replaces the order whatever a later read
has shown.

## 5. Theorems

For every set of variants, keys, line lists, stays, units, submissions, rooms,
tokens, TVs, rows, releases, orders and calls, and every bound:

| Theorem | States |
|---|---|
| `InventoryTypeCorrect`, `StockAlwaysCovered`, `KeysReserveOnce` | `InventorySpec` implies `[]InventoryTypeOK`, `[]StockCovered`, `NoResurrection` |
| `TxTypeCorrect`, `TestsHoldUntilCommit`, `LocksNeverCycle` | `TxSpec` implies `[]TxTypeOK`, `[]TestedRowsStayValid`, `[]NoLockCycle` |
| `CallsImplementInventory` | `CartsOfAKeyMeet` and `TxSpec` imply `InventorySpec` |
| `TypeCorrect`, `ClaimsAreExclusive`, `DeliveredOrdersStay`, `OrdersNeverOverpromise` | `Spec` of the orders implies `[]TypeOK`, `[]ClaimsExclusive`, `[]FulfilledStaysCompleted`, `[]StockCovered` |
| `MovementsExplainReserved`, `OrdersLeaveLedgerTrue` | for finitely many keys, `InventorySpec` and `Spec` of the orders imply `[]LedgerAgrees` |
| `AcceptedOrdersExist` | `OneCartPerStay`: it implies `[]AcceptedIsStored` |
| `OpenOrdersHoldTheirStock`, `OpenOrdersKeepTheirStock`, `FailedDeliveriesAreReverted` | `OneCartPerKey`, each cart sent once, finitely many keys: it implies `[]OpenOrderHoldsReservation`, `OpenOrderKeepsReservation`, `[]FailedDeliveryIsReverted` |
| `RestLeavesNothingBehind` | and for finitely many orders, `[]RestReconciles` |
| `RoomTypeCorrect`, `RoomsTakeOneStay` | `RoomSpec` implies `[]RoomTypeOK`, `[]OneStayPerRoom` |
| `CallsImplementStays` | it implies `StaySpec` of `RoomStays` |
| `QrTypeCorrect`, `RoomsHaveOneCode` | `QrSpec` implies `[]QrTypeOK`, `[]OneCodePerRoom` |
| `CallsImplementTokens` | it implies `TokenSpec` of `RoomTokens` |
| `TvTypeCorrect`, `RoomsAreExclusive`, `RoomsAreConfirmed`, `RetiredForGood` | `TvSpec` implies `[]TvTypeOK`, `[]OneTvPerRoom`, `[]RoomAsConfirmed`, `RetiredStaysRetired` |
| `UpdateTypeCorrect`, `OffersAreVerified`, `InstallerGetsVerified` | `UpdateSpec` implies `[]UpdateTypeOK`, `OfferedIsVerified`, `OnlyVerifiedInstalled` |
| `PutOffIsRespected` | it implies `PutOffStaysAway` |
| `BoardTypeCorrect`, `QuietDashboardsAreCurrent` | `Spec` of the order lists implies `[]BoardTypeOK`, `[]QuietDashboardIsCurrent` |
| `AccountsTypeCorrect` | `RacesSpec` implies `[]RacesTypeOK` |
| `SomebodyCanManage`, `RolesExistWhileAssigned`, `PermissionsAreThoseOfRoles` | for any number of calls at once: it implies `[]LastSuperadminStays`, `[]NoRoleVanishes`, `[]PermissionsAreCurrent` |
| `HotelTypeCorrect` | `HotelSpec` implies `[]HotelTypeOK` |
| `CartsAreTakenOnce`, `CartsStayWithTheirGuests` | `ScreensSpec` and `HotelSpec` imply `[]NoCartTwice`, `CartStaysWithGuest` |
| `LatestReadsWin` | `PagesSpec` and `HotelSpec` imply `LatestReadWins` |
| `HotelIsItsParts` | `HotelSpec` implies `ScreensSpec`, `PagesSpec` and `StaySpec`: the composition |

**Assumptions.** The named `ASSUME`s of the modules: variants are numbers,
line lists name at least one variant with a positive quantity (the validators of
the HTTP layer and `persistRequestBatch` see to it), a correction is not 0, the
Butik is a unit, a submission is a cart, `None` is none of them, rooms are not
stays, there are finitely many variants and rooms, bounds, versions and the
numbers of device rows are natural numbers, and the mark of a field a call leaves
out is no value of a field.

Some theorems have hypotheses besides, and they are there because without them
the code does something else:

- *Each cart is sent once, under a key no other cart has* (`OneCartPerKey`,
  `MaxAttempts <= 1`). A second attempt can take the stock of the first (finding
  1) or store an order without any (finding 4), and two stays that use the same
  key share one reservation. The hypotheses say nothing of how many guests,
  carts, calls, failing statements and restarts there are.
- *A stay sends a key with one cart* (`OneCartPerStay`). A page that keeps its
  key while the guest edits the cart is told that the old cart was ordered. The
  number of attempts does not matter.
- *Finitely many keys, finitely many orders*: the properties are about sums over
  them.

**The stock.** `InventoryIInv` is types and `StockCovered`, and is inductive:
every action tests the rows it is going to change. That a counter is never
negative — the types' `Nat` — depends on these tests, so type correctness is not
a matter of form. `KeysReserveOnce` is a fact about one step: `KeyVerdict` lets
a reservation proceed only for a key without movements.

**The sums.** `LedgerAgrees` compares a counter of a variant with the sum of its
movements over all keys. That every step changes both by the same amount needs
facts about sums over a finite set (`SumsExist` to `SumTakes` in
`BoutiqueInventoryProofs`): above all that one changed summand changes the sum
by as much (`SumFollows`). The prover has no induction rule to offer; instead,
among the sets for which such a statement were false there would be a smallest
one (`SetsHaveSmallest`), and taking an element out of it gives the
contradiction. `LedgerIInv` adds that nothing is reserved of a variant that has
no row yet.

**The stock, statement by statement.** `CallKnows(p)` is what a transaction
relies on: it has locked its rows in order (`Progress`), and these still pass
the tests it made (`RowsAsTested`); `LocksApart` says that a row has one holder,
which is why no other call's write can spoil it. `NoLockCycle` follows from the
order: in a set of waiters each of whom waits for a member, take the greatest
row anybody in the set waits for; its holder waits for a row greater still. For
the refinement one thing more is needed, that the verdict on the key still
stands at COMMIT (`VerdictsStand`), though no lock protects the movements:
the lists of a key share a variant (`CartsOfAKeyMeet`), so another call with the
key would have to hold a row this one holds. Without the assumption it is false
(section 4, 3).

**The orders.** `ClaimsExclusive` is not inductive. A call that is *about* to
claim, undo or release must be known to be able to: `CallKnows(h)` adds what a
call in flight knows about the tables (its submission exists; it expects an open
status; what it undoes has lines; what it delivers or releases has lines and is
in the status it claimed), `Apart(g, h)` that two calls never work on the same
claimed order. `IInv` is these together with `InventoryIInv`, `TypeOK` and
`FulfilledStaysCompleted`. The proof rests on one observation, stated as lemmas
(`CallStep`, `TableStep`, `UnclaimedMayChange`): a step moves one call on, and
changes no order another call has claimed, because claimed orders are terminal
and every UPDATE expects an open status. Then there is one lemma per action.

**The stock of the orders.** `AcceptedIsStored` needs that a key under which
anything is stored has every order of its cart (`StoredWhole`): the insert
stores a cart as a whole, and a refused one stores nothing. The properties about
the reservation of an order need more. `OnceInv` follows each key from its cart
to its last order and says in which of a few situations it is (`KeyOK`): nobody
has sent the cart; one call is submitting it, and holds its lines or nothing,
depending on the statement it is at; or its orders are stored, and what the key
holds depends on their status and on the call that has claimed one of them. As
a key has one cart, a cart one attempt and a claimed order one owner, at most
one call at a time moves stock under a key; a step changes the situation of one
key and leaves the others. `RestReconciles` is the same summed up: at rest a key holds exactly what
its open order asks for.

**The rooms.** A call about to write does not look at the rows any more.
`CallKnows(c)` says what its locks preserve: a call about to insert holds the
room, and the room has no active stay; a call about to edit or check out holds
the stay and it is active. `LocksApart` and `IdsApart` keep calls out of each
other's way; `AloneInRoom` is the property in the form steps preserve.

**The codes.** Here the locks are not enough, and the unique index does the
rest: a batch's insert proceeds only if whatever opens the room is a row it has
retired itself. `Inserts(c)`, `Retirees(c)` and `CallsApart` carry this from the
insert to the COMMIT, over any number of rooms of a list; `Shape(c)` is how far
a call has come. COMMIT then maps to `Issue` or `Revoke`, every other end of a
call to `Refuse`.

**The TVs.** `CommitPair` tests nothing about its row any more, so the invariant
must say what pairing may rely on while it holds the lock: `CallKnows(h)` — the
row is still pending, with the code the receptionist entered for this room —,
`HoldersApart` — one lock, one holder —, and `NothingAhead` — the next secret is
new. `RowStep` then reduces every step to one of three: a row *opens* a session
with a new secret and no room, a pending row is *admitted* to a room without an
active device, or rows *keep* secret and room and at most lose their access. The
three properties follow from these without looking at an action again.

**The update.** `FilesVerified`: a file with its final name passed the
verification, since it gets the name only afterwards. `CheckKnows`: a running
check works on a release above the installed one and, once staged, has its
file. `OfferIsNewer`: what the overlay shows is a release above the installed
one, too. The file of a record is not part of the invariant, as a stop may leave
one without the other; whoever offers has just looked (`Restorable`) or has just
staged the file, and nothing else puts an offer on the screen. Installing
changes `installed` under a running check; that the app is stopped by it, and
the check with it, is what keeps `CheckKnows` true. For `PutOffStaysAway` there
is `RespectInv`: the check of an app that was opened does not work on a release
that was put off (`CheckRespects`), and stays so, because a check somebody sees
has the overlay (`CheckIsShown`) and putting off needs the overlay, too.

**The order lists.** `DashboardKnows` is about a load that began in the channel
(`joinedThen`) and the one shown (`settled`): as long as no refresh is queued,
every list read so far is the stored one (`ListsAreCurrent`), and so is what is
shown once nothing is being read (`ShownIsCurrent`). A change breaks neither,
because its event queues a refresh in the same step.

**The accounts.** `StillTrue` says what a call in flight knows between two
queries: the roles it is about to assign exist and what it computed from them is
what they grant; who it is about to demote is not the last Superadmin; nobody
has the role it is about to delete. `RInv`: as long as nothing has raced, this is
so of every call nobody has overtaken, and the accounts are `Settled`. A write
overtakes all other calls, so of a step that writes only the writer's own
knowledge is needed; a step that reads takes it from the tables it reads and
leaves that of others alone (`ReadingKeeps`, `WritingKeeps`). `CreateRole`
overtakes nobody, as it touches no role in use (`CreateRoleKeeps`). `UpToDate` is
`PermissionsFollowRoles` in the middle of updates of roles: whoever's stored
permissions are not those of the roles is `Excused` by one of them, on which a
call is still at work or which a call that was cut off has left behind.

**The screens.** An order is made of a submission, and a submission of a cart on
a screen; a cart may be sent again while an earlier attempt is still on its way.
`CartsAreKeyed` follows the cart: it is on one screen at most, all its
submissions and orders bear one client request id, and a screen that shows a
cart of which anything was sent keeps that id. So `createRequestGroup` finds the order when the cart is sent
again. Whenever a screen forgets the id, the cart goes with it.
`CartStaysWithGuest` needs that a page that shows nobody has an empty cart
(`PageCarts`), because such a page takes the next guest without looking.

**The pages of the reception.** `ReadsAreInOrder`: the read that counts has seen
at least the changes the page shows. A read that begins will see what there is;
until it is answered none of the others counts. `CallsAreWhole` (a call under
way names its room and its guest) carries the types and the composition.

**Only model-checked.** The liveness properties `EveryCallEnds`,
`NoOrderWaitsForever`, `CancelledGivesBack`, `ChangesAreAnnounced`,
`UpdateGetsPrepared`, `RecordIsRepaired`, `DeactivatedGoesOffline`,
`NobodyWaitsForever`, `DesksCatchUp` and `EveryOrderGetsDone`: the prover has no rules for fairness
and ENABLED. And the counterexamples of section 4: that a hypothesis of a
theorem is needed is shown by TLC, on an instance.

## 6. Not modelled

- **What is shown and how.** About two thirds of the implementation are
  rendering, forms, texts and their translations (`staff/i18n.ts`, the JSX of
  the workspaces, the Compose screens, styles). They read a list and draw it;
  what decides anything — loads, timers, sockets, calls and their answers — is
  in the modules above. This is also why the modules stand for a modest share of
  the lines of the repository.
- **Boutique catalogue.** Edits of single rows of categories, products, prices
  and images. Its races are known from reading: `updateVariant` and the menu's
  `updateItem` write back columns they have read, so that of two edits at once
  one is lost (an archived product may come back); `syncBasePrice` may write an
  older price last, and `setVariantActive` does not call it. Creating a product
  is an insert and a transaction; a restart in between leaves a menu item
  without a product.
- **Menu and media.** Single statements and files, without a protocol.
- **Login and sessions.** A password check and a session store around the tables
  of `StaffAccounts`.
- **In-memory repositories.** Stand-ins for tests. They are not equivalent (the
  in-memory `reserveStock` reserves again after a full release).
- **Contracts, tools, deployment.** Schemas and scripts.
- **A COMMIT whose answer is lost.** In `RequestFulfilment` a failing statement
  commits nothing. With a lost answer of the delivery's COMMIT the `catch` would
  revert an order whose goods are gone.

## 7. Plan

1. A COMMIT whose answer is lost as a second kind of fault of
   `RequestFulfilment`, with what was handed over as a history variable.
2. An abstract order life cycle (place, confirm, deliver, cancel as single
   steps) that `RequestFulfilment` implements, with a proof of the refinement.
3. Weaker hypotheses for the theorems about reservations: carts that are sent
   again only after the answer to the first attempt.
4. The catalogue's read-then-write updates (`syncBasePrice`, `updateVariant`).
5. `GuestScreens` over `RequestFulfilment`: a client request id that a TV keeps
   over a change of guests meets movements keyed by the id alone.
